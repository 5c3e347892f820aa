----------------------------- MODULE BootProofs -----------------------------
(***************************************************************************)
(* Proofs about Boot, for any number of cores, any position of the boot    *)
(* core in the boot loader's table and any set of operations that fail.    *)
(***************************************************************************)
EXTENDS Boot, FiniteSetTheorems, TLAPS

USE BootAssumption DEF Cpus, APs

(* The places of the boot core, and those of the others. *)
BSPLabels == {"init", "cpus", "wait", "run", "halt"}
APLabels == {"off", "pcpu", "tss", "ltr", "sched", "count", "run", "error", "halt", "reset"}

(* The blocks taken before the areas, once start-up is through. *)
EarlyTotals == {n + t : n \in NameBlocks, t \in TableBlocks}

(***************************************************************************)
(* The handshake: a core is off until the loop of _start passes it, the    *)
(* loop knows the number of cores, and without an MP response nobody is    *)
(* let in.  What start-up takes from the heap it takes before that.        *)
(***************************************************************************)
Handshake ==
    /\ pc[BSPIndex] \in BSPLabels
    /\ \A i \in APs : pc[i] \in APLabels
    /\ pc[BSPIndex] = "init" => step \in 0 .. 18 /\ \A i \in APs : pc[i] = "off"
    /\ pc[BSPIndex] = "cpus" => step \in 0 .. CpuCount /\ \A i \in APs : i >= step => pc[i] = "off"
    /\ HasMP /\ (pc[BSPIndex] \in {"cpus", "wait", "run"} \/ (pc[BSPIndex] = "init" /\ step = 18))
         => g_cpu_count = CpuCount
    /\ ~HasMP => g_cpu_count = 1 /\ pc[BSPIndex] # "cpus" /\ \A i \in APs : pc[i] = "off"
    /\ \/ pc[BSPIndex] = "init" /\ step < 12 /\ early = 0
       \/ pc[BSPIndex] = "init" /\ step \in 12 .. 17 /\ early \in NameBlocks
       \/ pc[BSPIndex] = "halt" /\ \A i \in APs : pc[i] = "off"
       \/ early \in EarlyTotals /\ (pc[BSPIndex] = "init" => step = 18)

(* The cores with a per-CPU area of their own. *)
Placed == {i \in APs : fs[i] # 0}

(***************************************************************************)
(* The per-CPU areas: the heap has handed out one for each core that has   *)
(* one, each was given to one core, and that core's id is in it.  A core   *)
(* without one is on area 0, with the boot core.                           *)
(***************************************************************************)
AreasOK ==
    /\ watermark = Cardinality(Placed)
    /\ fs[BSPIndex] = 0 /\ m_all_fs_bases[BSPIndex] = 0 /\ m_cpu_id[0] = 0
    /\ \A i \in Cpus : fs[i] <= watermark
    /\ \A i \in APs : pc[i] \in {"off", "pcpu", "reset"} => fs[i] = 0
    /\ \A i \in Placed : m_cpu_id[fs[i]] = i /\ m_all_fs_bases[i] = fs[i]

(* The lock on the shared descriptor: its holder is the core between the   *)
(* write and the load, and the descriptor is its own.                      *)
TssOK ==
    /\ \A i \in APs : pc[i] = "ltr" <=> m_tss_lock = i
    /\ m_tss_lock # -1 => m_tss_lock \in APs /\ tss = m_tss_lock
    /\ OwnTss

BootInv == BootTypeOK /\ Handshake /\ AreasOK /\ TssOK

----------------------------------------------------------------------------
USE DEF smpVars, pcpuVars, tssVars, Goto, MayFail

(* The sequence of initialisation steps, as far as the proofs look at it. *)
LEMMA Steps ==
  /\ Len(InitSteps) = 18
  /\ InitSteps[12] = "debug_load_symbols"
  /\ InitSteps[18] = "init_pcpu"
BY DEF InitSteps

(* No other step takes a block from the heap. *)
LEMMA OtherSteps ==
  \A s \in 1 .. 18 : s \notin {12, 18} => InitSteps[s] \notin {"debug_load_symbols", "init_pcpu"}
<1> DEFINE Others == (1 .. 11) \cup (13 .. 17)
<1>1. \A s \in Others : InitSteps[s] \notin {"debug_load_symbols", "init_pcpu"}
  BY DEF InitSteps
<1>2. \A s \in 1 .. 18 : s \notin {12, 18} => s \in Others
  OBVIOUS
<1> QED BY <1>1, <1>2

(* What a core that does not have its area yet knows of the watermark. *)
LEMMA RoomForArea ==
  ASSUME BootTypeOK, AreasOK, NEW i \in APs, fs[i] = 0
  PROVE  watermark + 1 \in 1 .. CpuCount - 1
<1>1. IsFiniteSet(Cpus) /\ Cardinality(Cpus) = CpuCount
  BY FS_Interval
<1>2. IsFiniteSet(Cpus \ {BSPIndex}) /\ Cardinality(Cpus \ {BSPIndex}) = CpuCount - 1
  <2>1. BSPIndex \in Cpus
    OBVIOUS
  <2> HIDE DEF Cpus
  <2> QED BY <1>1, <2>1, FS_RemoveElement
<1>3. IsFiniteSet(APs \ {i}) /\ Cardinality(APs \ {i}) = CpuCount - 2
  <2>1. IsFiniteSet(APs) /\ Cardinality(APs) = CpuCount - 1
    BY <1>2
  <2>2. CpuCount - 1 - 1 = CpuCount - 2
    OBVIOUS
  <2> HIDE DEF APs
  <2> QED BY <2>1, <2>2, FS_RemoveElement
<1>4. Placed \subseteq APs \ {i}
  BY DEF Placed
<1>5. IsFiniteSet(Placed) /\ Cardinality(Placed) <= Cardinality(APs \ {i})
  BY <1>3, <1>4, FS_Subset
<1>6. Cardinality(Placed) \in Nat
  BY <1>5, FS_CardinalityType
<1> QED BY <1>3, <1>5, <1>6 DEF AreasOK

(* The cores that have reported, and what a report adds. *)
Reporters == {i \in Cpus : Reported(i)}

LEMMA ReportersFinite == IsFiniteSet(Reporters) /\ Cardinality(Reporters) \in Nat
<1>1. IsFiniteSet(Cpus)
  BY FS_Interval
<1> QED BY <1>1, FS_Subset, FS_CardinalityType DEF Reporters

LEMMA OneMoreReport ==
  ASSUME BootTypeOK, NEW i \in Cpus, ~Reported(i), Reporters' = Reporters \cup {i}
  PROVE  Cardinality(Reporters') = m_smp_count + 1
<1>1. Cardinality(Reporters') = Cardinality(Reporters) + 1
  BY ReportersFinite, FS_AddElement DEF Reporters
<1> QED BY <1>1 DEF BootTypeOK, Reporters

----------------------------------------------------------------------------
(* Every step of another core, by name. *)
LEMMA APCases ==
  ASSUME NEW i \in APs, APStep(i) \/ APFails(i)
  PROVE  \/ pcpu_init_per_core(i) \/ init_tss_write(i) \/ init_tss_load(i)
         \/ init_tss_fails(i) \/ ap_scheduler_init(i) \/ ap_scheduler_init_fails(i)
         \/ ap_count(i) \/ ap_error(i)
BY DEF APStep, APFails

(* The three ways pcpu_init_per_core ends. *)
LEMMA PcpuCases ==
  ASSUME NEW i \in APs, pcpu_init_per_core(i)
  PROVE  /\ pc[i] = "pcpu"
         /\ UNCHANGED <<step, smpVars, early, tssVars, sched>>
         /\ \/ "pcpu" \in Failing /\ NoArea(i)
            \/ AreaPage(early, watermark + 1) \notin MappedPages(early) /\ NoFaultStack(i)
            \/ TakeArea(i) /\ m_cpu_id' = [m_cpu_id EXCEPT ![watermark + 1] = i]
BY DEF pcpu_init_per_core, GotArea

(* Steps keep the handshake. *)
LEMMA HandshakeStep == BootTypeOK /\ Handshake /\ [Next]_vars => Handshake'
<1> SUFFICES ASSUME BootTypeOK, Handshake, [Next]_vars PROVE Handshake'
  OBVIOUS
<1> USE DEF Handshake, BSPLabels, APLabels
<1>1. pc \in [Cpus -> Labels] /\ step \in Int
  BY DEF BootTypeOK
<1>2. CASE start_step
  <2>1. step \in 0 .. 17 /\ step' = step + 1 /\ pc' = pc /\ BootStep(InitSteps[step + 1])
    BY <1>2, Steps DEF start_step
  <2>2. \/ step' < 12 /\ early' = 0
        \/ step' \in 12 .. 17 /\ early' \in NameBlocks
        \/ step' = 18 /\ early' \in EarlyTotals
    <3>1. PICK n \in EarlyBlocks(InitSteps[step + 1]) : early' = early + n
      BY <2>1 DEF BootStep
    <3>2. CASE step = 11
      <4>1. n \in NameBlocks /\ early = 0
        BY <1>2, <3>1, <3>2, Steps DEF EarlyBlocks, start_step
      <4> QED BY <2>1, <3>1, <3>2, <4>1
    <3>3. CASE step = 17
      <4>1. n \in TableBlocks /\ early \in NameBlocks
        BY <1>2, <3>1, <3>3, Steps DEF EarlyBlocks, start_step
      <4> QED BY <2>1, <3>1, <3>3, <4>1 DEF EarlyTotals
    <3>4. CASE step \notin {11, 17}
      <4>1. InitSteps[step + 1] \notin {"debug_load_symbols", "init_pcpu"}
        BY <2>1, <3>4, OtherSteps
      <4>2. early' = early /\ early \in Nat
        BY <3>1, <4>1 DEF EarlyBlocks, BootTypeOK
      <4> QED BY <1>2, <2>1, <3>4, <4>2 DEF start_step
    <3> QED BY <3>2, <3>3, <3>4
  <2>3. HasMP /\ step' = 18 => g_cpu_count' = CpuCount
    BY <2>1, Steps DEF BootStep
  <2>4. ~HasMP => g_cpu_count' = g_cpu_count
    BY <2>1 DEF BootStep
  <2>5. pc[BSPIndex] = "init"
    BY <1>2 DEF start_step
  <2> QED BY <1>1, <2>1, <2>2, <2>3, <2>4, <2>5
<1>3. CASE start_fails
  BY <1>1, <1>3 DEF start_fails
<1>4. CASE start_smp
  BY <1>1, <1>4, Steps DEF start_smp
<1>5. CASE start_ap
  BY <1>1, <1>5 DEF start_ap
<1>6. CASE start_self
  BY <1>1, <1>6 DEF start_self
<1>7. CASE start_self_fails
  BY <1>1, <1>7 DEF start_self_fails
<1>8. CASE start_wait
  BY <1>1, <1>8 DEF start_wait
<1>9. CASE start_done
  BY <1>1, <1>9 DEF start_done
<1>10. ASSUME NEW i \in APs, APStep(i) \/ APFails(i) PROVE Handshake'
  <2>1. /\ pc[i] # "off" /\ \E l \in APLabels \ {"off"} : pc' = [pc EXCEPT ![i] = l]
        /\ UNCHANGED <<step, g_cpu_count, early>>
    BY <1>10, APCases, PcpuCases DEF NoArea, NoFaultStack, TakeArea, init_tss_write,
       init_tss_load, init_tss_fails, ap_scheduler_init, ap_scheduler_init_fails, ap_count, ap_error
  <2> QED BY <1>1, <2>1
<1>11. CASE UNCHANGED vars
  BY <1>11 DEF vars
<1> QED BY <1>2, <1>3, <1>4, <1>5, <1>6, <1>7, <1>8, <1>9, <1>10, <1>11
        DEF Next, BSPStep, BSPFails

(* Steps keep the lock on the shared descriptor and the TSS of each core. *)
LEMMA TssStep == BootTypeOK /\ Handshake /\ TssOK /\ [Next]_vars => TssOK'
<1> SUFFICES ASSUME BootTypeOK, Handshake, TssOK, [Next]_vars PROVE TssOK'
  OBVIOUS
<1> USE DEF TssOK, OwnTss
<1>1. pc \in [Cpus -> Labels] /\ tr \in [Cpus -> Cpus \cup {-1}]
  BY DEF BootTypeOK
<1>2. CASE start_step
  <2>1. tr' = tr \/ tr' = [tr EXCEPT ![BSPIndex] = BSPIndex]
    BY <1>2 DEF start_step, BootStep
  <2> QED BY <1>1, <1>2, <2>1 DEF start_step
<1>3. CASE start_ap
  <2>1. step \in APs /\ pc[step] = "off" /\ pc' = [pc EXCEPT ![step] = "pcpu"]
    BY <1>3 DEF start_ap, Handshake
  <2> QED BY <1>1, <1>3, <2>1 DEF start_ap
<1>4. CASE start_fails \/ start_smp \/ start_self \/ start_self_fails \/ start_wait \/ start_done
  <2>1. \A i \in APs : pc'[i] = pc[i]
    BY <1>1, <1>4 DEF start_fails, start_smp, start_self, start_self_fails, start_wait, start_done
  <2>2. UNCHANGED tssVars
    BY <1>4 DEF start_fails, start_smp, start_self, start_self_fails, start_wait, start_done
  <2> QED BY <2>1, <2>2
<1>5. ASSUME NEW i \in APs, APStep(i) \/ APFails(i) PROVE TssOK'
  <2>1. CASE init_tss_write(i)
    BY <1>1, <2>1 DEF init_tss_write
  <2>2. CASE init_tss_load(i)
    BY <1>1, <2>2 DEF init_tss_load
  <2>3. CASE ~init_tss_write(i) /\ ~init_tss_load(i)
    <3>1. /\ pc[i] # "ltr" /\ \E l \in Labels \ {"ltr"} : pc' = [pc EXCEPT ![i] = l]
          /\ UNCHANGED tssVars
      BY <1>5, <2>3, APCases, PcpuCases DEF NoArea, NoFaultStack, TakeArea, init_tss_fails,
         ap_scheduler_init, ap_scheduler_init_fails, ap_count, ap_error, Labels
    <3> QED BY <1>1, <3>1
  <2> QED BY <2>1, <2>2, <2>3
<1>6. CASE UNCHANGED vars
  BY <1>6 DEF vars
<1> QED BY <1>2, <1>3, <1>4, <1>5, <1>6 DEF Next, BSPStep, BSPFails

(* Steps keep the per-CPU areas. *)
LEMMA AreasStep == BootTypeOK /\ Handshake /\ AreasOK /\ [Next]_vars => AreasOK'
<1> SUFFICES ASSUME BootTypeOK, Handshake, AreasOK, [Next]_vars PROVE AreasOK'
  OBVIOUS
<1>1. /\ pc \in [Cpus -> Labels] /\ fs \in [Cpus -> 0 .. CpuCount]
      /\ m_cpu_id \in [0 .. CpuCount -> Cpus \cup {-1}]
      /\ m_all_fs_bases \in [Cpus -> 0 .. CpuCount] /\ watermark \in 0 .. CpuCount
  BY DEF BootTypeOK
<1>2. ASSUME UNCHANGED <<fs, m_cpu_id, m_all_fs_bases, watermark>>,
             \A i \in APs : pc'[i] \in {"off", "pcpu", "reset"} => pc[i] \in {"off", "pcpu", "reset"}
      PROVE  AreasOK'
  BY <1>2 DEF AreasOK, Placed
<1>3. CASE BSPStep \/ BSPFails
  <2>1. UNCHANGED <<fs, m_cpu_id, m_all_fs_bases, watermark>>
    BY <1>3 DEF BSPStep, BSPFails, start_step, BootStep, start_fails, start_smp, start_ap,
       start_self, start_self_fails, start_wait, start_done
  <2>2. CASE start_ap
    BY <1>1, <1>2, <2>1, <2>2 DEF start_ap, Handshake
  <2>3. CASE ~start_ap
    <3>1. \A i \in APs : pc'[i] = pc[i]
      BY <1>1, <1>3, <2>3 DEF BSPStep, BSPFails, start_step, start_fails, start_smp,
         start_self, start_self_fails, start_wait, start_done
    <3> QED BY <1>2, <2>1, <3>1
  <2> QED BY <2>2, <2>3
<1>4. ASSUME NEW i \in APs, TakeArea(i), pc[i] = "pcpu",
             m_cpu_id' = [m_cpu_id EXCEPT ![watermark + 1] = i]
      PROVE  AreasOK'
  <2>1. fs[i] = 0 /\ watermark + 1 \in 1 .. CpuCount - 1
    BY <1>4, RoomForArea DEF AreasOK
  <2>2. /\ fs' = [fs EXCEPT ![i] = watermark + 1]
        /\ m_all_fs_bases' = [m_all_fs_bases EXCEPT ![i] = watermark + 1]
        /\ watermark' = watermark + 1
        /\ pc' = [pc EXCEPT ![i] = "tss"]
    BY <1>4 DEF TakeArea
  <2>3. Placed' = Placed \cup {i}
    BY <1>1, <2>1, <2>2 DEF Placed
  <2>4. Cardinality(Placed') = watermark'
    <3>1. IsFiniteSet(Cpus)
      BY FS_Interval
    <3>2. IsFiniteSet(Placed) /\ i \notin Placed
      BY <2>1, <3>1, FS_Subset DEF Placed
    <3> QED BY <2>2, <2>3, <3>2, FS_AddElement DEF AreasOK
  <2>5. \A j \in Placed' : m_cpu_id'[fs'[j]] = j /\ m_all_fs_bases'[j] = fs'[j]
    <3> SUFFICES ASSUME NEW j \in Placed' PROVE m_cpu_id'[fs'[j]] = j /\ m_all_fs_bases'[j] = fs'[j]
      OBVIOUS
    <3>1. CASE j = i
      BY <1>1, <1>4, <2>1, <2>2, <3>1
    <3>2. CASE j # i
      <4>1. j \in Placed /\ j \in APs /\ fs[j] <= watermark /\ fs[j] \in 0 .. CpuCount
        BY <1>1, <2>3, <3>2 DEF AreasOK, Placed
      <4> QED BY <1>1, <1>4, <2>1, <2>2, <3>2, <4>1 DEF AreasOK
    <3> QED BY <3>1, <3>2
  <2>6. fs'[BSPIndex] = 0 /\ m_all_fs_bases'[BSPIndex] = 0 /\ m_cpu_id'[0] = 0
    BY <1>1, <1>4, <2>1, <2>2 DEF AreasOK
  <2>7. \A j \in Cpus : fs'[j] <= watermark'
    <3>1. \A j \in Cpus : fs[j] <= watermark /\ fs[j] \in Int
      BY <1>1 DEF AreasOK
    <3> QED BY <1>1, <2>2, <3>1
  <2>8. \A j \in APs : pc'[j] \in {"off", "pcpu", "reset"} => fs'[j] = 0
    BY <1>1, <2>2 DEF AreasOK
  <2> QED BY <2>4, <2>5, <2>6, <2>7, <2>8 DEF AreasOK
<1>5. ASSUME NEW i \in APs, APStep(i) \/ APFails(i) PROVE AreasOK'
  <2>1. CASE pcpu_init_per_core(i)
    <3>1. CASE NoArea(i) \/ NoFaultStack(i)
      BY <1>1, <1>2, <2>1, <3>1, PcpuCases DEF NoArea, NoFaultStack
    <3> QED BY <1>4, <2>1, <3>1, PcpuCases
  <2>2. CASE ~pcpu_init_per_core(i)
    <3>1. /\ \E l \in Labels \ {"off", "pcpu", "reset"} : pc' = [pc EXCEPT ![i] = l]
          /\ UNCHANGED pcpuVars
      BY <1>5, <2>2, APCases DEF init_tss_write, init_tss_load, init_tss_fails,
         ap_scheduler_init, ap_scheduler_init_fails, ap_count, ap_error, Labels
    <3> QED BY <1>1, <1>2, <3>1
  <2> QED BY <2>1, <2>2
<1>6. CASE UNCHANGED vars
  BY <1>2, <1>6 DEF vars
<1> QED BY <1>3, <1>5, <1>6 DEF Next

(* Who has reported after a step: the same cores, or one more. *)
LEMMA ReportStep ==
  ASSUME BootTypeOK, Handshake, [Next]_vars
  PROVE  m_smp_count' = Cardinality(Reporters')
<1>1. pc \in [Cpus -> Labels] /\ step \in Int /\ m_smp_count = Cardinality(Reporters)
  BY DEF BootTypeOK, Reporters
<1>2. ASSUME Reporters' = Reporters, UNCHANGED m_smp_count
      PROVE  m_smp_count' = Cardinality(Reporters')
  BY <1>1, <1>2
<1>3. CASE start_step
  <2>1. Reporters' = Reporters
    BY <1>1, <1>3 DEF start_step, Reporters, Reported, Handshake
  <2> QED BY <1>2, <1>3, <2>1 DEF start_step
<1>4. CASE start_smp
  <2>1. Reporters' = Reporters
    BY <1>1, <1>4 DEF start_smp, Reporters, Reported, Handshake
  <2> QED BY <1>2, <1>4, <2>1 DEF start_smp
<1>5. CASE start_fails \/ start_self_fails
  <2>1. Reporters' = Reporters
    BY <1>1, <1>5 DEF start_fails, start_self_fails, Reporters, Reported
  <2> QED BY <1>2, <1>5, <2>1 DEF start_fails, start_self_fails
<1>6. CASE start_ap
  <2>1. Reporters' = Reporters
    BY <1>1, <1>6 DEF start_ap, Reporters, Reported, Handshake
  <2> QED BY <1>2, <1>6, <2>1 DEF start_ap
<1>7. CASE start_self
  <2>1. ~Reported(BSPIndex) /\ Reporters' = Reporters \cup {BSPIndex}
    BY <1>1, <1>7 DEF start_self, Reporters, Reported
  <2> QED BY <1>7, <2>1, OneMoreReport DEF start_self
<1>8. CASE start_wait
  <2>1. step = CpuCount /\ HasMP
    BY <1>8 DEF start_wait, Handshake
  <2>2. Reporters' = Reporters
    BY <1>1, <1>8, <2>1 DEF start_wait, Reporters, Reported
  <2> QED BY <1>2, <1>8, <2>2 DEF start_wait
<1>9. CASE start_done
  <2>1. Reporters' = Reporters
    BY <1>1, <1>9 DEF start_done, Reporters, Reported
  <2> QED BY <1>2, <1>9, <2>1 DEF start_done
<1>10. ASSUME NEW i \in APs, APStep(i) \/ APFails(i)
       PROVE  m_smp_count' = Cardinality(Reporters')
  <2>1. CASE ap_count(i) \/ ap_error(i)
    <3>1. ~Reported(i) /\ Reporters' = Reporters \cup {i}
      BY <1>1, <2>1 DEF ap_count, ap_error, Reporters, Reported
    <3> QED BY <2>1, <3>1, OneMoreReport DEF ap_count, ap_error
  <2>2. CASE ~ap_count(i) /\ ~ap_error(i)
    <3>1. /\ pc[i] \notin {"run", "halt"}
          /\ \E l \in Labels \ {"run", "halt"} : pc' = [pc EXCEPT ![i] = l]
          /\ UNCHANGED <<step, m_smp_count>>
      BY <1>10, <2>2, APCases, PcpuCases DEF NoArea, NoFaultStack, TakeArea, init_tss_write,
         init_tss_load, init_tss_fails, ap_scheduler_init, ap_scheduler_init_fails, Labels
    <3>2. Reporters' = Reporters
      BY <1>1, <3>1 DEF Reporters, Reported
    <3> QED BY <1>2, <3>1, <3>2
  <2> QED BY <2>1, <2>2
<1>11. CASE UNCHANGED vars
  BY <1>2, <1>11 DEF vars, Reporters, Reported
<1> QED BY <1>3, <1>4, <1>5, <1>6, <1>7, <1>8, <1>9, <1>10, <1>11
        DEF Next, BSPStep, BSPFails

(* Steps keep the types. *)
LEMMA BootTypeStep == BootInv /\ [Next]_vars => BootTypeOK'
<1> SUFFICES ASSUME BootInv, [Next]_vars PROVE BootTypeOK'
  OBVIOUS
<1>1. m_smp_count' = Cardinality({i \in Cpus : Reported(i)})'
  BY ReportStep DEF BootInv, Reporters
<1>2. CASE start_step
  <2>1. step + 1 \in 0 .. (Len(InitSteps) + CpuCount)
    BY <1>2, Steps DEF start_step, BootInv, Handshake
  <2>2. BootTypeOK /\ BootStep(InitSteps[step + 1])
    BY <1>2 DEF start_step, BootInv
  <2>3. /\ tr' \in [Cpus -> Cpus \cup {-1}] /\ g_cpu_count' \in 1 .. CpuCount
        /\ early' \in Nat
    BY <2>2 DEF BootStep, EarlyBlocks, BootTypeOK
  <2> QED BY <1>1, <1>2, <2>1, <2>2, <2>3 DEF start_step, BootTypeOK
<1>3. CASE start_smp
  BY <1>1, <1>3, Steps, SMTT(60) DEF start_smp, BootInv, BootTypeOK, Labels
<1>4. CASE start_ap
  <2>1. step + 1 \in 0 .. (Len(InitSteps) + CpuCount)
    BY <1>4, Steps DEF start_ap
  <2> QED BY <1>1, <1>4, <2>1 DEF start_ap, BootInv, BootTypeOK, Labels
<1>5. CASE start_self
  <2>1. step + 1 \in 0 .. (Len(InitSteps) + CpuCount)
    BY <1>5, Steps DEF start_self
  <2> QED BY <1>1, <1>5, <2>1 DEF start_self, BootInv, BootTypeOK
<1>6. CASE start_fails \/ start_self_fails \/ start_wait \/ start_done
  BY <1>1, <1>6 DEF start_fails, start_self_fails, start_wait, start_done,
     BootInv, BootTypeOK, Labels
<1>7. ASSUME NEW i \in APs, APStep(i) \/ APFails(i) PROVE BootTypeOK'
  <2>1. CASE pcpu_init_per_core(i)
    <3>1. CASE NoArea(i) \/ NoFaultStack(i)
      BY <1>1, <2>1, <3>1, PcpuCases DEF NoArea, NoFaultStack, BootInv, BootTypeOK, Labels
    <3>2. CASE TakeArea(i) /\ m_cpu_id' = [m_cpu_id EXCEPT ![watermark + 1] = i]
      <4>1. watermark + 1 \in 0 .. CpuCount
        BY <2>1, PcpuCases, RoomForArea DEF BootInv, AreasOK
      <4> QED BY <1>1, <2>1, <3>2, <4>1, PcpuCases DEF TakeArea, BootInv, BootTypeOK, Labels
    <3> QED BY <2>1, <3>1, <3>2, PcpuCases
  <2>2. CASE init_tss_write(i) \/ init_tss_load(i)
    BY <1>1, <2>2, ZenonT(60) DEF init_tss_write, init_tss_load, BootInv, BootTypeOK, Labels
  <2>3. CASE ap_scheduler_init(i)
    BY <1>1, <2>3 DEF ap_scheduler_init, BootInv, BootTypeOK, Labels
  <2>4. CASE init_tss_fails(i) \/ ap_scheduler_init_fails(i) \/ ap_count(i) \/ ap_error(i)
    BY <1>1, <2>4 DEF init_tss_fails, ap_scheduler_init_fails, ap_count, ap_error,
       BootInv, BootTypeOK, Labels
  <2> QED BY <1>7, <2>1, <2>2, <2>3, <2>4, APCases
<1>8. CASE UNCHANGED vars
  BY <1>1, <1>8 DEF vars, BootInv, BootTypeOK
<1> QED BY <1>2, <1>3, <1>4, <1>5, <1>6, <1>7, <1>8 DEF Next, BSPStep, BSPFails

(***************************************************************************)
(* The start-up handshake, the per-CPU areas and the shared TSS descriptor *)
(* keep each other's invariants, however many cores there are, in whatever *)
(* order they come up and whatever fails.                                  *)
(***************************************************************************)
THEOREM BootInductive == Spec => []BootInv
<1>1. Init => BootInv
  <2> SUFFICES ASSUME Init PROVE BootInv
    OBVIOUS
  <2> USE DEF Init
  <2>1. Reporters = {}
    BY DEF Reporters, Reported
  <2>2. BootTypeOK
    <3>1. m_smp_count = Cardinality({i \in Cpus : Reported(i)})
      BY <2>1, FS_EmptySet DEF Reporters
    <3>2. step \in 0 .. (Len(InitSteps) + CpuCount) /\ early \in Nat
      BY Steps
    <3>3. pc \in [Cpus -> Labels]
      BY DEF Labels
    <3>4. /\ fs \in [Cpus -> 0 .. CpuCount] /\ m_all_fs_bases \in [Cpus -> 0 .. CpuCount]
          /\ m_cpu_id \in [0 .. CpuCount -> Cpus \cup {-1}]
          /\ tr \in [Cpus -> Cpus \cup {-1}] /\ sched \in [0 .. CpuCount -> Cpus \cup {-1}]
      OBVIOUS
    <3>5. /\ g_cpu_count \in 1 .. CpuCount /\ watermark \in 0 .. CpuCount
          /\ tss \in Cpus \cup {-1} /\ m_tss_lock \in Cpus \cup {-1}
      OBVIOUS
    <3>6. m_smp_fail \in BOOLEAN
      OBVIOUS
    <3> HIDE DEF Init
    <3> QED BY <3>1, <3>2, <3>3, <3>4, <3>5, <3>6 DEF BootTypeOK
  <2>3. Handshake
    BY DEF Handshake, BSPLabels, APLabels
  <2>4. Placed = {}
    BY DEF Placed
  <2>5. AreasOK
    BY <2>4, FS_EmptySet DEF AreasOK
  <2>6. TssOK
    BY DEF TssOK, OwnTss
  <2> QED BY <2>2, <2>3, <2>5, <2>6 DEF BootInv
<1>2. BootInv /\ [Next]_vars => BootInv'
  BY BootTypeStep, HandshakeStep, AreasStep, TssStep DEF BootInv
<1> QED BY <1>1, <1>2, PTL DEF Spec

(* The variables of the start-up code stay in their domains, and the boot  *)
(* core's count is the number of cores that have reported.                 *)
THEOREM BootTypeCorrect == Spec => []BootTypeOK
BY BootInductive, PTL DEF BootInv

(* All cores load their TSS through one GDT entry, and each gets its own.  *)
THEOREM CoresHaveTheirTss == Spec => []OwnTss
<1>1. BootInv => OwnTss
  BY DEF BootInv, TssOK
<1> QED BY <1>1, BootInductive, PTL

----------------------------------------------------------------------------
(* Cores with an area of their own have different ones. *)
LEMMA AreasDiffer ==
  ASSUME BootInv, NEW i \in Cpus, NEW j \in Cpus, i # j,
         i \in Placed \/ i = BSPIndex, j \in Placed \/ j = BSPIndex
  PROVE  fs[i] # fs[j]
BY DEF BootInv, AreasOK, Placed

(***************************************************************************)
(* The code that works only if a per-CPU area can always be allocated      *)
(* (smp_entry ignores the error of pcpu_init_per_core): then every core    *)
(* that is past it has its own.                                            *)
(***************************************************************************)
AllPlaced == \A i \in APs : pc[i] \notin {"off", "pcpu", "reset"} => i \in Placed

LEMMA AllPlacedStep ==
  ASSUME "pcpu" \notin Failing
  PROVE  BootInv /\ AllPlaced /\ [Next]_vars => AllPlaced'
<1> SUFFICES ASSUME BootInv, AllPlaced, [Next]_vars PROVE AllPlaced'
  OBVIOUS
<1> USE DEF AllPlaced, Placed
<1>1. /\ pc \in [Cpus -> Labels] /\ fs \in [Cpus -> 0 .. CpuCount] /\ watermark \in Nat
  BY DEF BootInv, BootTypeOK
<1>2. CASE BSPStep \/ BSPFails
  <2>1. UNCHANGED fs
    BY <1>2 DEF BSPStep, BSPFails, start_step, BootStep, start_fails, start_smp, start_ap,
       start_self, start_self_fails, start_wait, start_done
  <2>2. \A i \in APs : pc'[i] = pc[i] \/ pc'[i] = "pcpu"
    BY <1>1, <1>2 DEF BSPStep, BSPFails, start_step, start_fails, start_smp, start_ap,
       start_self, start_self_fails, start_wait, start_done
  <2> QED BY <2>1, <2>2
<1>3. ASSUME NEW i \in APs, APStep(i) \/ APFails(i) PROVE AllPlaced'
  <2>1. CASE pcpu_init_per_core(i)
    BY <1>1, <2>1, PcpuCases DEF NoFaultStack, TakeArea
  <2>2. CASE ~pcpu_init_per_core(i)
    <3>1. /\ pc[i] \notin {"off", "pcpu", "reset"} /\ UNCHANGED fs
          /\ \E l \in Labels : pc' = [pc EXCEPT ![i] = l]
      BY <1>3, <2>2, APCases DEF init_tss_write, init_tss_load, init_tss_fails,
         ap_scheduler_init, ap_scheduler_init_fails, ap_count, ap_error, Labels
    <3> QED BY <1>1, <3>1
  <2> QED BY <2>1, <2>2
<1>4. CASE UNCHANGED vars
  BY <1>4 DEF vars
<1> QED BY <1>2, <1>3, <1>4 DEF Next

LEMMA AreasAreAllocated ==
  ASSUME "pcpu" \notin Failing
  PROVE  Spec => []AllPlaced
<1>1. Init => AllPlaced
  BY DEF Init, AllPlaced
<1> QED BY <1>1, AllPlacedStep, BootInductive, PTL DEF Spec

(***************************************************************************)
(* When no allocation of a per-CPU area fails and the boot core is first   *)
(* in the boot loader's table (init_early_pcpu gives it id 0), every core  *)
(* past pcpu_init_per_core has an area nobody else uses, with its own      *)
(* index in it.                                                            *)
(***************************************************************************)
THEOREM CoresHaveTheirAreas ==
  ASSUME "pcpu" \notin Failing, BSPIndex = 0
  PROVE  Spec => []OwnPerCpuArea
<1>1. BootInv /\ AllPlaced => OwnPerCpuArea
  <2> SUFFICES ASSUME BootInv, AllPlaced, NEW i \in Cpus, HasArea(i)
               PROVE  /\ m_cpu_id[fs[i]] = i
                      /\ m_all_fs_bases[i] = fs[i]
                      /\ \A j \in Cpus \ {i} : HasArea(j) => fs[j] # fs[i]
    BY DEF OwnPerCpuArea
  <2>1. \A j \in Cpus : HasArea(j) => j \in Placed \/ j = BSPIndex
    BY DEF AllPlaced, HasArea
  <2>2. m_cpu_id[fs[i]] = i /\ m_all_fs_bases[i] = fs[i]
    BY <2>1 DEF BootInv, AreasOK
  <2> QED BY <2>1, <2>2, AreasDiffer
<1> QED BY <1>1, BootInductive, AreasAreAllocated, PTL

(***************************************************************************)
(* No core resets on the first access to its per-CPU area if the image is  *)
(* such that the areas of all cores lie on heap pages which the symbols'   *)
(* names and tables of start-up have mapped.  Nothing in the code makes it *)
(* so: without it FaultsHaveAStack fails.                                  *)
(***************************************************************************)
THEOREM NoResetWhileStarting ==
  ASSUME AreasOnMappedPages
  PROVE  Spec => []FaultsHaveAStack
<1>1. Init => FaultsHaveAStack
  BY DEF Init, FaultsHaveAStack
<1>2. BootInv /\ FaultsHaveAStack /\ [Next]_vars => FaultsHaveAStack'
  <2> SUFFICES ASSUME BootInv, FaultsHaveAStack, [Next]_vars PROVE FaultsHaveAStack'
    OBVIOUS
  <2> USE DEF FaultsHaveAStack
  <2>1. pc \in [Cpus -> Labels]
    BY DEF BootInv, BootTypeOK
  <2>2. CASE BSPStep \/ BSPFails
    <3>1. \A i \in Cpus : pc'[i] = pc[i] \/ pc'[i] \in {"pcpu", "cpus", "wait", "run", "halt"}
      BY <2>1, <2>2 DEF BSPStep, BSPFails, start_step, start_fails, start_smp, start_ap,
         start_self, start_self_fails, start_wait, start_done
    <3> QED BY <3>1
  <2>3. ASSUME NEW i \in APs, APStep(i) \/ APFails(i) PROVE FaultsHaveAStack'
    <3>1. CASE pcpu_init_per_core(i)
      <4>1. watermark + 1 \in 1 .. CpuCount - 1
        BY <3>1, PcpuCases, RoomForArea DEF BootInv, AreasOK
      <4>2. early \in EarlyTotals
        BY <3>1, PcpuCases DEF BootInv, Handshake
      <4>3. AreaPage(early, watermark + 1) \in MappedPages(early)
        <5>1. PICK n \in NameBlocks, t \in TableBlocks : early = n + t
          BY <4>2 DEF EarlyTotals
        <5>2. AreaPage(n + t, watermark + 1) \in MappedPages(n + t)
          BY <4>1 DEF AreasOnMappedPages
        <5> QED BY <5>1, <5>2
      <4> QED BY <2>1, <3>1, <4>3, PcpuCases DEF NoArea, TakeArea
    <3>2. CASE ~pcpu_init_per_core(i)
      <4>1. \E l \in Labels \ {"reset"} : pc' = [pc EXCEPT ![i] = l]
        BY <2>3, <3>2, APCases DEF init_tss_write, init_tss_load, init_tss_fails,
           ap_scheduler_init, ap_scheduler_init_fails, ap_count, ap_error, Labels
      <4> QED BY <2>1, <4>1
    <3> QED BY <3>1, <3>2
  <2>4. CASE UNCHANGED vars
    BY <2>4 DEF vars
  <2> QED BY <2>2, <2>3, <2>4 DEF Next
<1> QED BY <1>1, <1>2, BootInductive, PTL DEF Spec

----------------------------------------------------------------------------
(***************************************************************************)
(* What the reports mean: a core that has counted itself has its scheduler *)
(* context in its own area, one that gave up has said so.                  *)
(***************************************************************************)
ReportsAreTrue ==
    /\ Reported(BSPIndex) => sched[fs[BSPIndex]] = BSPIndex
    /\ \A i \in APs : pc[i] \in {"count", "run"} => sched[fs[i]] = i
    /\ \A i \in APs : pc[i] = "halt" => m_smp_fail

LEMMA ReportsStep ==
  BootInv /\ AllPlaced /\ ReportsAreTrue /\ [Next]_vars => ReportsAreTrue'
<1> SUFFICES ASSUME BootInv, AllPlaced, ReportsAreTrue, [Next]_vars PROVE ReportsAreTrue'
  OBVIOUS
<1> USE DEF ReportsAreTrue
<1>1. /\ pc \in [Cpus -> Labels] /\ fs \in [Cpus -> 0 .. CpuCount] /\ watermark \in Nat
      /\ sched \in [0 .. CpuCount -> Cpus \cup {-1}] /\ step \in Int
  BY DEF BootInv, BootTypeOK
<1>2. CASE start_step \/ start_smp \/ start_fails \/ start_self_fails
  <2>1. UNCHANGED <<fs, sched, m_smp_fail>> /\ \A i \in APs : pc'[i] = pc[i]
    BY <1>1, <1>2 DEF start_step, BootStep, start_smp, start_fails, start_self_fails
  <2>2. ~Reported(BSPIndex)'
    BY <1>1, <1>2, SMTT(60) DEF start_step, start_smp, start_fails, start_self_fails, Reported, BootInv, Handshake
  <2> QED BY <2>1, <2>2
<1>3. CASE start_ap
  <2>1. UNCHANGED <<fs, sched, m_smp_fail>> /\ pc' = [pc EXCEPT ![step] = "pcpu"] /\ step \in APs
    BY <1>3 DEF start_ap
  <2>2. Reported(BSPIndex)' => Reported(BSPIndex)
    BY <1>1, <1>3 DEF start_ap, Reported
  <2> QED BY <1>1, <2>1, <2>2
<1>4. CASE start_self
  <2>1. UNCHANGED <<pc, fs, m_smp_fail>> /\ sched' = [sched EXCEPT ![fs[BSPIndex]] = BSPIndex]
    BY <1>4 DEF start_self
  <2>2. \A i \in APs : pc[i] \in {"count", "run"} => fs[i] # fs[BSPIndex]
    BY AreasDiffer DEF AllPlaced
  <2> QED BY <1>1, <2>1, <2>2
<1>5. CASE start_wait \/ start_done
  <2>1. UNCHANGED <<fs, sched, m_smp_fail>> /\ \A i \in APs : pc'[i] = pc[i]
    BY <1>1, <1>5 DEF start_wait, start_done
  <2>2. Reported(BSPIndex)' => Reported(BSPIndex)
    BY <1>1, <1>5 DEF start_wait, start_done, Reported, BootInv, Handshake
  <2> QED BY <2>1, <2>2
<1>6. ASSUME NEW i \in APs, APStep(i) \/ APFails(i) PROVE ReportsAreTrue'
  <2>1. Reported(BSPIndex)' = Reported(BSPIndex)
    <3>1. \E l \in Labels : pc' = [pc EXCEPT ![i] = l] /\ UNCHANGED step
      BY <1>6, APCases, PcpuCases DEF NoArea, NoFaultStack, TakeArea, init_tss_write,
         init_tss_load, init_tss_fails, ap_scheduler_init, ap_scheduler_init_fails,
         ap_count, ap_error, Labels
    <3> QED BY <1>1, <3>1 DEF Reported
  <2>2. CASE ap_scheduler_init(i)
    <3>1. sched' = [sched EXCEPT ![fs[i]] = i] /\ UNCHANGED <<fs, m_smp_fail>>
          /\ pc' = [pc EXCEPT ![i] = "count"] /\ pc[i] = "sched"
      BY <2>2 DEF ap_scheduler_init
    <3>2. fs[BSPIndex] # fs[i]
      BY <3>1, AreasDiffer DEF AllPlaced
    <3>3. \A j \in APs \ {i} : pc[j] \in {"count", "run"} => fs[j] # fs[i]
      BY <3>1, AreasDiffer DEF AllPlaced
    <3> QED BY <1>1, <2>1, <3>1, <3>2, <3>3
  <2>3. CASE pcpu_init_per_core(i)
    <3>1. /\ fs' = fs \/ fs' = [fs EXCEPT ![i] = watermark + 1]
          /\ pc' = [pc EXCEPT ![i] = "tss"] \/ pc' = [pc EXCEPT ![i] = "reset"]
          /\ UNCHANGED <<sched, m_smp_fail>>
      BY <2>3, PcpuCases DEF NoArea, NoFaultStack, TakeArea
    <3> QED BY <1>1, <2>1, <3>1
  <2>4. CASE ap_count(i) \/ ap_error(i)
    BY <1>1, <2>1, <2>4, SMTT(60) DEF ap_count, ap_error
  <2>5. CASE init_tss_write(i) \/ init_tss_load(i) \/ init_tss_fails(i) \/ ap_scheduler_init_fails(i)
    BY <1>1, <2>1, <2>5, SMTT(60) DEF init_tss_write, init_tss_load, init_tss_fails, ap_scheduler_init_fails
  <2> QED BY <1>6, <2>2, <2>3, <2>4, <2>5, APCases
<1>7. CASE UNCHANGED vars
  BY <1>7 DEF vars, Reported
<1> QED BY <1>2, <1>3, <1>4, <1>5, <1>6, <1>7 DEF Next, BSPStep, BSPFails

(* All cores are counted when the boot core stops waiting, and stay so. *)
AllCounted == pc[BSPIndex] = "run" => Reporters = Cpus

LEMMA AllCountedStep == BootInv /\ AllCounted /\ [Next]_vars => AllCounted'
<1> SUFFICES ASSUME BootInv, AllCounted, [Next]_vars, pc'[BSPIndex] = "run"
             PROVE  Reporters' = Cpus
  BY DEF AllCounted
<1>1. pc \in [Cpus -> Labels]
  BY DEF BootInv, BootTypeOK
<1>2. CASE start_done
  <2>1. Reporters' = Reporters
    BY <1>1, <1>2 DEF start_done, Reporters, Reported
  <2>2. m_smp_count = Cardinality(Reporters) /\ m_smp_count = g_cpu_count
    BY <1>2 DEF start_done, BootInv, BootTypeOK, Reporters
  <2>3. HasMP
    <3> SUFFICES ASSUME ~HasMP PROVE FALSE
      OBVIOUS
    <3>1. g_cpu_count = 1 /\ \A i \in Cpus : ~Reported(i)
      BY <1>2 DEF start_done, BootInv, Handshake, Reported
    <3>2. Cardinality(Reporters) = 0
      BY <3>1, FS_EmptySet DEF Reporters
    <3>3. m_smp_count = 0 /\ m_smp_count = 1
      BY <2>2, <3>1, <3>2
    <3> QED BY <3>3
  <2>4. g_cpu_count = CpuCount
    BY <1>2, <2>3 DEF start_done, BootInv, Handshake
  <2>5. IsFiniteSet(Cpus) /\ Cardinality(Cpus) = CpuCount
    BY FS_Interval
  <2>6. Reporters \in SUBSET Cpus
    BY DEF Reporters
  <2> HIDE DEF Cpus
  <2>7. Reporters = Cpus
    BY <2>2, <2>4, <2>5, <2>6, FS_Subset
  <2> QED BY <2>1, <2>7
<1>3. CASE pc[BSPIndex] = "run"
  <2>1. Reporters = Cpus
    BY <1>3 DEF AllCounted
  <2>2. \A i \in APs : pc[i] \in {"run", "halt"}
    BY <2>1 DEF Reporters, Reported
  <2>3. UNCHANGED <<pc, step>>
    BY <1>3, <2>2, APCases, PcpuCases DEF Next, BSPStep, BSPFails, start_step, start_fails,
       start_smp, start_ap, start_self, start_self_fails, start_wait, start_done,
       init_tss_write, init_tss_load, init_tss_fails, ap_scheduler_init,
       ap_scheduler_init_fails, ap_count, ap_error, vars
  <2> QED BY <2>1, <2>3 DEF Reporters, Reported
<1>4. CASE pc[BSPIndex] # "run" /\ ~start_done
  <2>1. \A i \in APs : APStep(i) \/ APFails(i) => pc'[BSPIndex] = pc[BSPIndex]
    BY <1>1, APCases, PcpuCases DEF NoArea, NoFaultStack, TakeArea, init_tss_write,
       init_tss_load, init_tss_fails, ap_scheduler_init, ap_scheduler_init_fails,
       ap_count, ap_error
  <2> QED BY <1>1, <1>4, <2>1 DEF Next, BSPStep, BSPFails, start_step, start_fails, start_smp,
       start_ap, start_self, start_self_fails, start_wait, vars
<1> QED BY <1>2, <1>3, <1>4

(***************************************************************************)
(* The init thread is queued only after every core has set up its          *)
(* scheduler in its own area or has reported a failure, for any number of  *)
(* cores and any boot core, if per-CPU areas can be allocated.             *)
(***************************************************************************)
THEOREM InitThreadComesLast ==
  ASSUME "pcpu" \notin Failing
  PROVE  Spec => []EveryCoreReported
<1>1. Init => AllCounted /\ ReportsAreTrue
  BY DEF Init, AllCounted, ReportsAreTrue, Reported
<1>2. AllCounted /\ ReportsAreTrue => EveryCoreReported
  BY DEF AllCounted, ReportsAreTrue, EveryCoreReported, Reporters, Reported
<1> QED BY <1>1, <1>2, BootInductive, AreasAreAllocated, ReportsStep, AllCountedStep, PTL DEF Spec
=============================================================================
