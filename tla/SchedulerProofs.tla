--------------------------- MODULE SchedulerProofs ---------------------------
(***************************************************************************)
(* The scheduler's invariants hold for every list length, every mix of     *)
(* kernel and user processes, every choice of system calls, and with       *)
(* interrupts during boot.                                                 *)
(***************************************************************************)
EXTENDS Scheduler, KernelLemmas, FiniteSetTheorems

PStates == {"READY", "RUNNING", "BLOCKED", "DEAD"}
PReasons == {"NONE", "SLEEP", "KEY"}
PFrames == {"live", "spent", "lost"}

(* The inductive invariant.  OneRunning alone is not inductive: that a     *)
(* process which blocks always finds another one to switch to rests on     *)
(* idle and kernel processes being runnable for ever (they cannot reach a  *)
(* system call, whose continuations are user processes' only), and that    *)
(* scheduler_start demotes nobody rests on the boot flow being suspended   *)
(* at its entry only as idle.                                              *)
Table ==
    /\ \A p \in Procs \ User : Runnable(state[p])
    /\ OneRunning
    /\ \A p \in Procs : p >= n => state[p] = "READY"
    /\ SleepersNotOverdue

Flow ==
    /\ pc \in {"init", "b0", "boot0"} => current = 0
    /\ pc \in SyscallConts => current \in User
    /\ \A p \in Procs : saved[p] = "boot0" => p = 0
    /\ \A p \in Procs : saved[p] \in SyscallConts => p \in User
    /\ pc \notin {"init", "b0", "b1"} /\ current \in User => tss = current /\ cr3 = current

Timer ==
    /\ isr0 => pc \notin {"init", "b0", "b1"}
    /\ isr0 /\ pc \in {"thread", "call", "read"}
         => current \in User /\ saved[current] \in {"call", "read"}

IInv == TypeOK /\ Table /\ Flow /\ Timer

-----------------------------------------------------------------------------
(* The scan of scheduler_tick ends at a process of the list, which is      *)
(* runnable unless the scan came back to current; it does not come back    *)
(* when idle is runnable and is not current itself.                        *)
LEMMA NextProcFacts ==
    ASSUME n \in 1 .. N, current \in 0 .. n-1,
           NEW st \in [Procs -> PStates]
    PROVE  /\ NextProc(st) \in 0 .. n-1
           /\ NextProc(st) # current => Runnable(st[NextProc(st)])
           /\ Runnable(st[0]) /\ current # 0 => NextProc(st) # current
<1> DEFINE k == CHOOSE i \in Hops(st) : \A j \in Hops(st) : i <= j
<1>1. n \in Nat \ {0} /\ current \in Nat /\ current < n
  BY ConfigAssumption
<1>2. Hops(st) \subseteq Nat /\ n \in Hops(st)
  BY <1>1 DEF Hops
<1>3. k \in Hops(st) /\ \A j \in Hops(st) : k <= j
  BY <1>2, LeastNatural
<1> HIDE DEF k
<1>4. NextProc(st) = Pos(current + k)
  BY DEF NextProc, k
<1>5. k \in 1 .. n /\ (k = n \/ Runnable(st[Pos(current + k)]))
  BY <1>3 DEF Hops
<1>6. NextProc(st) \in 0 .. n-1
  BY <1>1, <1>4, <1>5 DEF Pos
<1>7. k = n => NextProc(st) = current
  BY <1>1, <1>4 DEF Pos
<1>8. ASSUME Runnable(st[0]), current # 0
      PROVE  NextProc(st) # current
  <2>1. Pos(current + (n - current)) = 0
    BY <1>1 DEF Pos
  <2>2. n - current \in Hops(st)
    BY <1>1, <1>8, <2>1 DEF Hops
  <2>3. k < n
    BY <1>1, <1>3, <1>5, <1>8, <2>2
  <2>4. QED
    BY <1>1, <1>4, <1>5, <2>3 DEF Pos
<1>9. QED
  BY <1>4, <1>5, <1>6, <1>7, <1>8

(* What a caller of scheduler_tick must have established, st, wr and lf    *)
(* being the process table it passes on.                                   *)
TickPre(st, wr, lf, k, fr) ==
    /\ st \in [Procs -> PStates] /\ wr \in [Procs -> PReasons] /\ lf \in [Procs -> Nat]
    /\ fr \in [Procs -> PFrames] /\ k \in Conts
    /\ \A p \in Procs \ User : Runnable(st[p])
    /\ current \notin User => st[current] = "RUNNING"
    /\ \A p \in Procs : st[p] = "RUNNING" => p \in {current, 0}
    /\ \A p \in Procs : p >= n => st[p] = "READY"
    /\ k \in SyscallConts => current \in User
    /\ k = "boot0" => current = 0

(* scheduler_tick keeps the table and the flow of control right, and lands *)
(* in a system call only for the process whose saved context leads there.  *)
LEMMA TickPreserves ==
    ASSUME TypeOK, Flow, n' = n,
           NEW st, NEW wr, NEW lf, NEW k, NEW fr,
           TickPre(st, wr, lf, k, fr),
           scheduler_tick(st, wr, lf, k, fr)
    PROVE  /\ state' \in [Procs -> PStates] /\ wait_reason' \in [Procs -> PReasons]
           /\ left' \in [Procs -> Nat] /\ current' \in 0 .. n-1
           /\ pc' \in Conts \cup {"wild"}
           /\ saved' \in [Procs -> Conts] /\ frame' \in [Procs -> PFrames]
           /\ tss' \in User \cup {0} /\ cr3' \in User \cup {0}
           /\ Table' /\ Flow'
           /\ pc' \in {"call", "read"} => saved'[current'] = pc'
<1> DEFINE woken == Woken(st, wr, lf)
           next == NextProc(woken)
<1>1. n \in 1 .. N /\ current \in 0 .. n-1 /\ N \in Nat /\ current \in Procs
      /\ 0 \in Procs /\ User \subseteq Procs /\ 0 \notin User
  BY ConfigAssumption DEF TypeOK, Procs
<1>2. /\ woken \in [Procs -> PStates]
      /\ \A p \in Procs : woken[p] = IF Due(st, wr, lf, p) THEN "READY" ELSE st[p]
  BY DEF Woken, TickPre, PStates
<1>3. \A p \in Procs \ User : Runnable(woken[p])
  BY <1>2 DEF TickPre, Runnable
<1>4. /\ next \in 0 .. n-1
      /\ next # current => Runnable(woken[next])
      /\ current # 0 => next # current
  BY <1>1, <1>2, <1>3, NextProcFacts
<1>5. next \in Procs
  BY <1>1, <1>4 DEF Procs
<1>6. /\ wait_reason' = [p \in Procs |-> IF Due(st, wr, lf, p) THEN "NONE" ELSE wr[p]]
      /\ left' = lf
  BY DEF scheduler_tick
<1>7. wait_reason' \in [Procs -> PReasons] /\ left' \in [Procs -> Nat]
  BY <1>6 DEF TickPre, PReasons
<1>8. \A p \in Procs : woken[p] = "RUNNING" => p \in {current, 0}
  BY <1>2 DEF TickPre
<1>9. \A p \in Procs : p >= n => woken[p] = "READY"
  BY <1>2 DEF TickPre
<1>10. \A p \in Procs : woken[p] = "BLOCKED" /\ wait_reason'[p] = "SLEEP" => left'[p] > 0
  <2> SUFFICES ASSUME NEW p \in Procs, woken[p] = "BLOCKED", wait_reason'[p] = "SLEEP"
               PROVE  lf[p] > 0
    BY <1>6
  <2>1. ~ Due(st, wr, lf, p) /\ st[p] = "BLOCKED" /\ wr[p] = "SLEEP"
    BY <1>2, <1>6
  <2>2. p \in 1 .. n-1
    BY <1>1, <2>1 DEF TickPre, Procs, Runnable
  <2>3. QED
    BY <2>1, <2>2 DEF Due, TickPre
<1> HIDE DEF woken, next
<1>11. CASE next = current
  <2>1. /\ state' = woken /\ pc' = k /\ frame' = fr
        /\ current' = current /\ saved' = saved /\ tss' = tss /\ cr3' = cr3
    BY <1>11 DEF scheduler_tick, woken, next
  <2>2. current = 0
    BY <1>4, <1>11
  <2>3. woken[current] = "RUNNING"
    BY <1>1, <1>2, <2>2 DEF TickPre, Due
  <2>4. Table'
    BY <1>3, <1>8, <1>9, <1>10, <2>1, <2>3 DEF Table, OneRunning, SleepersNotOverdue
  <2>5. Flow'
    BY <1>1, <2>1, <2>2 DEF Flow, TickPre
  <2>6. k \notin {"call", "read"}
    BY <1>1, <2>2 DEF TickPre, SyscallConts
  <2>7. QED
    BY <1>1, <1>2, <1>7, <2>1, <2>4, <2>5, <2>6 DEF TypeOK, TickPre, PFrames
<1>12. CASE next # current
  <2>1. /\ state' = SwitchStates(woken, next) /\ current' = next
        /\ tss' = IF next \in User THEN next ELSE tss
        /\ cr3' = IF next \in User THEN next ELSE cr3
        /\ saved' = [saved EXCEPT ![current] = k]
        /\ frame' = [[fr EXCEPT ![current] = "live"] EXCEPT
                        ![next] = IF @ = "lost" THEN @ ELSE "spent"]
        /\ pc' \in {"wild", saved'[next]}
    BY <1>12, ZenonT(60) DEF scheduler_tick, woken, next, tss_set_kernel_stack, context_switch
  <2>2. \A p \in Procs : state'[p] = IF p = next THEN "RUNNING"
                                  ELSE IF p = current /\ woken[p] = "RUNNING" THEN "READY"
                                  ELSE woken[p]
    BY <1>1, <1>2, <1>5, <1>12, <2>1 DEF SwitchStates
  <2>3. state' \in [Procs -> PStates]
    BY <1>1, <1>2, <1>5, <2>1 DEF SwitchStates, PStates
  <2>4. Table'
    <3>1. \A p \in Procs \ User : Runnable(state'[p])
      BY <1>3, <2>2 DEF Runnable
    <3>2. OneRunning'
      BY <1>5, <1>8, <2>1, <2>2 DEF OneRunning
    <3>3. \A p \in Procs : p >= n => state'[p] = "READY"
      BY <1>1, <1>4, <1>9, <2>2 DEF Procs
    <3>4. SleepersNotOverdue'
      BY <1>10, <2>2 DEF SleepersNotOverdue
    <3>5. QED
      BY <3>1, <3>2, <3>3, <3>4 DEF Table
  <2>5. saved' \in [Procs -> Conts] /\ frame' \in [Procs -> PFrames]
    BY <1>1, <1>5, <2>1 DEF TypeOK, TickPre, PFrames
  <2>6. /\ \A p \in Procs : saved'[p] = "boot0" => p = 0
        /\ \A p \in Procs : saved'[p] \in SyscallConts => p \in User
    BY <1>1, <2>1 DEF TypeOK, Flow, TickPre
  <2>7. Flow'
    BY <1>5, <2>1, <2>5, <2>6 DEF Flow, SyscallConts, BootConts, Conts
  <2>8. QED
    BY <1>1, <1>4, <1>5, <1>7, <2>1, <2>3, <2>4, <2>5, <2>7 DEF TypeOK, Conts
<1>13. QED
  BY <1>11, <1>12

-----------------------------------------------------------------------------
(* The invariant holds when kernel_main has run scheduler_init.            *)
LEMMA InitIInv == Init => IInv
<1> SUFFICES ASSUME Init PROVE IInv
  OBVIOUS
<1>1. TypeOK
  <2>1. /\ n \in 1 .. N /\ current \in 0 .. n-1 /\ regs \in Procs /\ chars \in 0 .. KbCap
        /\ pc \in PcValues /\ tss \in User \cup {0} /\ cr3 \in User \cup {0}
    BY ConfigAssumption DEF Init, Procs, PcValues
  <2>2. /\ state \in [Procs -> {"READY", "RUNNING", "BLOCKED", "DEAD"}]
        /\ wait_reason \in [Procs -> {"NONE", "SLEEP", "KEY"}]
        /\ left \in [Procs -> Nat]
        /\ frame \in [Procs -> {"live", "spent", "lost"}]
    BY DEF Init
  <2>3. saved \in [Procs -> Conts]
    BY DEF Init, Conts
  <2>4. isr0 \in BOOLEAN
    BY ZenonT(60) DEF Init
  <2>5. QED
    BY <2>1, <2>2, <2>3, <2>4 DEF TypeOK
<1>2. Table
  BY ConfigAssumption DEF Init, Table, OneRunning, SleepersNotOverdue, Runnable, Procs
<1>3. Flow
  BY DEF Init, Flow, SyscallConts
<1>4. Timer
  BY DEF Init, Timer
<1>5. QED
  BY <1>1, <1>2, <1>3, <1>4 DEF IInv

(* The caller's side of TickPreserves, with what is left to say of isr0.   *)
LEMMA TickStep ==
    ASSUME IInv, n' = n, regs' = regs, chars' = chars,
           NEW st, NEW wr, NEW lf, NEW k, NEW fr,
           TickPre(st, wr, lf, k, fr),
           scheduler_tick(st, wr, lf, k, fr),
           isr0' \in BOOLEAN
    PROVE  IInv'
<1>1. TypeOK /\ Flow
  BY DEF IInv
<1>2. /\ state' \in [Procs -> PStates] /\ wait_reason' \in [Procs -> PReasons]
      /\ left' \in [Procs -> Nat] /\ current' \in 0 .. n-1
      /\ pc' \in Conts \cup {"wild"}
      /\ saved' \in [Procs -> Conts] /\ frame' \in [Procs -> PFrames]
      /\ tss' \in User \cup {0} /\ cr3' \in User \cup {0}
      /\ Table' /\ Flow'
      /\ pc' \in {"call", "read"} => saved'[current'] = pc'
  BY <1>1, TickPreserves
<1>3. TypeOK'
  BY <1>1, <1>2 DEF TypeOK, PcValues, PStates, PReasons, PFrames
<1>4. Timer'
  BY <1>2 DEF Timer, Flow, Conts, BootConts, SyscallConts
<1>5. QED
  BY <1>2, <1>3, <1>4 DEF IInv

(* The caller has changed nobody's wait but current's, and blocked it for  *)
(* a key only in the loop of sys_read, with no character waiting; it waits *)
(* to enter a hlt loop only when current is dead.                          *)
OnlyCurrent(st, wr, k) ==
    /\ \A p \in Procs : p # current => st[p] = state[p] /\ wr[p] = wait_reason[p]
    /\ pc = "read" => chars = 0
    /\ st[current] = "BLOCKED" /\ wr[current] = "KEY" => k = "read" /\ chars = 0
    /\ k = "read" => pc = "read"
    /\ k = "exit" => st[current] = "DEAD"

(* timer_handler, and each system call that reaches the scheduler, meets   *)
(* the precondition of scheduler_tick; the calls have changed only the     *)
(* state of current.                                                       *)
LEMMA TimerTickPre ==
    ASSUME IInv PROVE TickPre(state, wait_reason, Ticked, InterruptedAt, irq_stub)
<1> USE DEF PStates, PReasons, PFrames
<1>1. irq_stub \in [Procs -> PFrames] /\ Ticked \in [Procs -> Nat]
  BY DEF irq_stub, BootStackPush, Ticked, IInv, TypeOK
<1>2. InterruptedAt \in {"irq", "boot0", "boot1"} /\ (InterruptedAt = "boot0" => pc = "b0")
  BY DEF InterruptedAt
<1>3. QED
  BY <1>1, <1>2 DEF TickPre, IInv, TypeOK, Table, OneRunning, Flow, Conts, BootConts, SyscallConts

(* Each of those system calls is a call of scheduler_tick under that       *)
(* precondition, from the frames as syscall_entry left them.               *)
LEMMA SyscallTicks ==
    ASSUME IInv, sys_sleep \/ sys_yield \/ sys_exit \/ sys_read_wait
    PROVE  /\ UNCHANGED <<n, isr0, regs, chars>>
           /\ \E st, wr, lf, k, fr :
                /\ TickPre(st, wr, lf, k, fr)
                /\ OnlyCurrent(st, wr, k)
                /\ k \in SyscallConts /\ fr \in {frame, syscall_entry}
                /\ scheduler_tick(st, wr, lf, k, fr)
<1> USE ConfigAssumption DEF PStates, PReasons, PFrames
<1>0. /\ TypeOK /\ Table /\ Flow /\ 0 \notin User
      /\ current \in Procs /\ syscall_entry \in [Procs -> PFrames]
  BY DEF IInv, TypeOK, Procs, syscall_entry
<1>1. CASE sys_sleep
  <2>1. PICK t \in 0 .. MaxSleep :
          scheduler_tick([state EXCEPT ![current] = "BLOCKED"],
                         [wait_reason EXCEPT ![current] = "SLEEP"],
                         [left EXCEPT ![current] = t], "call", syscall_entry)
    BY <1>1 DEF sys_sleep
  <2>2. TickPre([state EXCEPT ![current] = "BLOCKED"], [wait_reason EXCEPT ![current] = "SLEEP"],
                [left EXCEPT ![current] = t], "call", syscall_entry)
    BY <1>0, <1>1 DEF sys_sleep, InUser, TickPre, TypeOK, Table, OneRunning, Runnable,
       Conts, SyscallConts
  <2>3. OnlyCurrent([state EXCEPT ![current] = "BLOCKED"], [wait_reason EXCEPT ![current] = "SLEEP"],
                    "call")
    BY <1>0, <1>1 DEF TypeOK, OnlyCurrent, sys_sleep, InUser
  <2>4. QED
    BY <1>1, <2>1, <2>2, <2>3 DEF sys_sleep, SyscallConts
<1>2. CASE sys_yield
  <2>1. TickPre(state, wait_reason, left, "call", syscall_entry)
    BY <1>0, <1>2 DEF sys_yield, InUser, TickPre, TypeOK, Table, OneRunning, Conts, SyscallConts
  <2>2. OnlyCurrent(state, wait_reason, "call")
    BY <1>0, <1>2 DEF OnlyCurrent, Table, OneRunning, sys_yield, InUser
  <2>3. QED
    BY <1>2, <2>1, <2>2 DEF sys_yield, SyscallConts
<1>3. CASE sys_exit
  <2>1. TickPre([state EXCEPT ![current] = "DEAD"], wait_reason, left, "exit", syscall_entry)
    BY <1>0, <1>3 DEF sys_exit, InUser, TickPre, TypeOK, Table, OneRunning, Runnable,
       Conts, SyscallConts
  <2>2. OnlyCurrent([state EXCEPT ![current] = "DEAD"], wait_reason, "exit")
    BY <1>0, <1>3 DEF TypeOK, OnlyCurrent, sys_exit, InUser
  <2>3. QED
    BY <1>3, <2>1, <2>2 DEF sys_exit, SyscallConts
<1>4. CASE sys_read_wait
  <2>1. TickPre([state EXCEPT ![current] = "BLOCKED"], [wait_reason EXCEPT ![current] = "KEY"],
                left, "read", frame)
    BY <1>0, <1>4 DEF sys_read_wait, TickPre, TypeOK, Table, Flow, OneRunning, Runnable,
       Conts, SyscallConts
  <2>2. OnlyCurrent([state EXCEPT ![current] = "BLOCKED"], [wait_reason EXCEPT ![current] = "KEY"],
                    "read")
    BY <1>0, <1>4 DEF TypeOK, OnlyCurrent, sys_read_wait
  <2>3. QED
    BY <1>4, <2>1, <2>2 DEF sys_read_wait, SyscallConts
<1>5. QED
  BY <1>1, <1>2, <1>3, <1>4

(* Every step of the kernel preserves the invariant.                       *)
LEMMA NextIInv == IInv /\ [Next]_vars => IInv'
<1> SUFFICES ASSUME IInv, [Next]_vars PROVE IInv'
  OBVIOUS
<1> USE ConfigAssumption DEF IInv, PStates, PReasons, PFrames
<1>0. /\ TypeOK /\ Table /\ Flow /\ Timer
      /\ current \in Procs /\ 0 \in Procs /\ 0 \notin User
  BY DEF TypeOK, Procs
<1>1. CASE scheduler_add
  <2>1. n \in Procs /\ state' = [state EXCEPT ![n] = "READY"] /\ state[n] = "READY"
    BY <1>1, <1>0 DEF scheduler_add, TypeOK, Table, Procs
  <2>2. state' = state
    BY <2>1, <1>0, SMTT(60) DEF TypeOK
  <2>3. TypeOK' /\ Table' /\ Flow' /\ Timer'
    BY <1>1, <1>0, <2>2, SMTT(60) DEF scheduler_add, TypeOK, Table, Flow, Timer, OneRunning, SleepersNotOverdue, Procs, Runnable
  <2>4. QED
    BY <2>3
<1>2. CASE kernel_main_sti
  BY <1>2, <1>0 DEF kernel_main_sti, TypeOK, Table, Flow, Timer, OneRunning,
     SleepersNotOverdue, PcValues, SyscallConts
<1>3. CASE scheduler_start_pick
  <2>1. current = 0 /\ current' \in 0 .. n-1 /\ current' \in Procs /\ ~isr0
    BY <1>3, <1>0 DEF scheduler_start_pick, TypeOK, Flow, Timer, Pos, Procs
  <2>2. \A p \in Procs : state'[p] = IF p = current' THEN "RUNNING" ELSE state[p]
    BY <1>3, <1>0, <2>1 DEF scheduler_start_pick, TypeOK
  <2>3. Table'
    BY <1>3, <1>0, <2>1, <2>2 DEF scheduler_start_pick, TypeOK, Table, OneRunning,
       SleepersNotOverdue, Runnable, Procs
  <2>4. TypeOK' /\ Flow' /\ Timer'
    BY <1>3, <1>0, <2>1 DEF scheduler_start_pick, TypeOK, Flow, Timer, PcValues, SyscallConts
  <2>5. QED
    BY <2>3, <2>4
<1>4. CASE scheduler_start_switch
  <2> DEFINE fr == IF current \in User THEN BootStackPush ELSE frame
  <2>1. fr \in [Procs -> PFrames]
    BY <1>0 DEF BootStackPush, TypeOK
  <2> HIDE DEF fr
  <2>2. /\ saved' = saved
        /\ frame' = [fr EXCEPT ![current] = IF @ = "lost" THEN @ ELSE "spent"]
        /\ cr3' = IF current \in User THEN current ELSE cr3
        /\ pc' = IF fr[current] = "lost" THEN "wild" ELSE saved[current]
        /\ tss' = IF current \in User THEN current ELSE tss
        /\ ~isr0
    BY <1>4, <1>0 DEF scheduler_start_switch, context_switch, tss_set_kernel_stack, Timer, fr
  <2>3. TypeOK'
    BY <1>4, <1>0, <2>1, <2>2 DEF scheduler_start_switch, TypeOK, PcValues
  <2>4. Table' /\ Flow' /\ Timer'
    BY <1>4, <1>0, <2>2 DEF scheduler_start_switch, TypeOK, Table, Flow, Timer, OneRunning,
       SleepersNotOverdue, Conts, BootConts, SyscallConts
  <2>5. QED
    BY <2>3, <2>4
<1>5. CASE timer_handler
  BY <1>5, TimerTickPre, TickStep DEF timer_handler
<1>6. CASE keyboard_handler
  <2>1. irq_stub \in [Procs -> PFrames]
    BY <1>0 DEF irq_stub, BootStackPush, TypeOK
  <2>2. CASE KeyWaiters = {}
    BY <1>6, <1>0, <2>1, <2>2 DEF keyboard_handler, scheduler_wake_key_waiter, TypeOK, Table,
       Flow, Timer, OneRunning, SleepersNotOverdue
  <2>3. CASE KeyWaiters # {}
    <3> DEFINE p == CHOOSE q \in KeyWaiters : \A r \in KeyWaiters : q <= r
    <3>1. KeyWaiters \subseteq Nat
      BY DEF KeyWaiters
    <3>2. p \in KeyWaiters
      BY <2>3, <3>1, LeastNatural, ZenonT(60)
    <3> HIDE DEF p
    <3>3. p \in Procs /\ state[p] = "BLOCKED"
      BY <1>0, <3>2 DEF KeyWaiters, Procs, TypeOK
    <3>4. /\ state' = [state EXCEPT ![p] = "READY"]
          /\ wait_reason' = [wait_reason EXCEPT ![p] = "NONE"]
      BY <1>6, <2>3 DEF keyboard_handler, scheduler_wake_key_waiter, p
    <3>5. TypeOK'
      BY <1>6, <1>0, <2>1, <3>3, <3>4 DEF keyboard_handler, TypeOK
    <3>6. Table'
      BY <1>6, <1>0, <3>3, <3>4 DEF keyboard_handler, TypeOK, Table, OneRunning,
         SleepersNotOverdue, Runnable
    <3>7. Flow' /\ Timer'
      BY <1>6, <1>0 DEF keyboard_handler, Flow, Timer
    <3>8. QED
      BY <3>5, <3>6, <3>7
  <2>4. QED
    BY <2>2, <2>3
<1>7. CASE irq_common_stub \/ process_trampoline_fn
  <2>1. isr0' = FALSE /\ regs' = current
        /\ UNCHANGED <<n, state, wait_reason, left, current, saved, frame, tss, cr3, chars>>
    BY <1>7 DEF irq_common_stub, process_trampoline_fn, pic_send_eoi
  <2>2. /\ pc' \in {"b0", "b1", "thread"} /\ (pc' = "b0" => pc = "boot0")
        /\ pc \notin {"init", "b0", "b1"}
    BY <1>7 DEF irq_common_stub, process_trampoline_fn, BootConts
  <2>3. TypeOK'
    BY <1>0, <2>1, <2>2, ZenonT(60) DEF TypeOK, PcValues
  <2>4. Table' /\ Flow'
    BY <1>0, <2>1, <2>2 DEF Table, Flow, OneRunning, SleepersNotOverdue, SyscallConts
  <2>5. Timer'
    BY <2>1 DEF Timer
  <2>6. QED
    BY <2>3, <2>4, <2>5
<1>8. syscall_entry \in [Procs -> PFrames]
  BY <1>0 DEF syscall_entry, TypeOK
<1>9. CASE sys_sleep \/ sys_yield \/ sys_exit \/ sys_read_wait
  BY <1>0, <1>9, SyscallTicks, TickStep DEF TypeOK
<1>12. CASE sys_read
  BY <1>12, <1>0, <1>8 DEF sys_read, InUser, TypeOK, Table, Flow, Timer, OneRunning,
     SleepersNotOverdue, PcValues, Conts, SyscallConts
<1>14. CASE sys_read_char
  BY <1>14, <1>0 DEF sys_read_char, keyboard_getchar, TypeOK, Table, Flow, Timer, OneRunning,
     SleepersNotOverdue, PcValues, SyscallConts
<1>15. CASE sysret
  BY <1>15, <1>0 DEF sysret, TypeOK, Table, Flow, Timer, OneRunning, SleepersNotOverdue,
     PcValues, SyscallConts
<1>16. CASE sys_getkey \/ syscall_dispatch
  BY <1>16, <1>0, <1>8 DEF sys_getkey, syscall_dispatch, keyboard_getchar, TypeOK, Table, Flow,
     Timer, OneRunning, SleepersNotOverdue
<1>17. CASE page_fault_handler
  BY <1>17, <1>0 DEF page_fault_handler, TypeOK, Table, Flow, Timer, OneRunning,
     SleepersNotOverdue, PcValues, SyscallConts, InUser
<1>18. CASE UNCHANGED vars
  BY <1>18, <1>0 DEF vars, TypeOK, Table, Flow, Timer, OneRunning, SleepersNotOverdue
<1>19. QED
  BY <1>1, <1>2, <1>3, <1>4, <1>5, <1>6, <1>7, <1>9, <1>12, <1>14, <1>15,
     <1>16, <1>17, <1>18 DEF Next, Interrupt, Syscall, KernelStep

(* Type correctness of the scheduler, for every list and every program.    *)
THEOREM TypeCorrect == Spec => []TypeOK
<1>1. IInv => TypeOK
  BY DEF IInv
<1>2. QED
  BY <1>1, InitIInv, NextIInv, PTL DEF Spec

(* Whoever executes is the one process marked RUNNING (idle apart): a      *)
(* process that blocks or exits always leaves the CPU.                     *)
THEOREM RunningIsCurrent == Spec => []OneRunning
<1>1. IInv => OneRunning
  BY DEF IInv, Table
<1>2. QED
  BY <1>1, InitIInv, NextIInv, PTL DEF Spec

(* No sleeper is overlooked by the scan of scheduler_tick.                 *)
THEOREM NoOverdueSleeper == Spec => []SleepersNotOverdue
<1>1. IInv => SleepersNotOverdue
  BY DEF IInv, Table
<1>2. QED
  BY <1>1, InitIInv, NextIInv, PTL DEF Spec

(* A user process never runs on another one's page table or kernel stack.  *)
THEOREM OwnTables == Spec => []UserRunsOnItsOwn
<1>1. IInv => UserRunsOnItsOwn
  BY DEF IInv, Flow, UserRunsOnItsOwn
<1>2. QED
  BY <1>1, InitIInv, NextIInv, PTL DEF Spec

(* Only a return from a system call can leave the timer unacknowledged.    *)
THEOREM TimerHeld == Spec => []TimerHeldOnlyAfterSyscall
<1>1. IInv => TimerHeldOnlyAfterSyscall
  BY DEF IInv, Timer, TimerHeldOnlyAfterSyscall
<1>2. QED
  BY <1>1, InitIInv, NextIInv, PTL DEF Spec

-----------------------------------------------------------------------------
(* The scheduler implements the task system.                               *)

Status == [p \in Procs |-> StatusOf(state[p])]

(* A call of scheduler_tick by a process that changed at most its own      *)
(* state is a Wake, or a Switch to the process the scan found.             *)
LEMMA TickRefines ==
    ASSUME IInv, n' = n,
           NEW st, NEW wr, NEW lf, NEW k, NEW fr,
           TickPre(st, wr, lf, k, fr),
           \A p \in Procs : p # current => st[p] = state[p],
           scheduler_tick(st, wr, lf, k, fr)
    PROVE  Tasks!TNext
<1> DEFINE woken == Woken(st, wr, lf)
           next == NextProc(woken)
           W == {p \in 0 .. n-1 : p # current /\ Due(st, wr, lf, p)}
<1>1. n \in 1 .. N /\ current \in 0 .. n-1 /\ N \in Nat /\ current \in Procs
      /\ 0 \in Procs /\ 0 \notin User /\ 0 .. n-1 \subseteq Procs
      /\ state \in [Procs -> PStates] /\ state[current] = "RUNNING"
  BY ConfigAssumption DEF IInv, TypeOK, Procs, Table, OneRunning, PStates
<1>2. /\ woken \in [Procs -> PStates]
      /\ \A p \in Procs : woken[p] = IF Due(st, wr, lf, p) THEN "READY" ELSE st[p]
  BY DEF Woken, TickPre, PStates
<1>3. \A p \in Procs \ User : Runnable(woken[p])
  BY <1>2 DEF TickPre, Runnable
<1>4. /\ next \in 0 .. n-1
      /\ next # current => Runnable(woken[next])
      /\ current # 0 => next # current
  BY <1>1, <1>2, <1>3, NextProcFacts
<1>5. \A p \in Procs : Due(st, wr, lf, p) => p \in 0 .. n-1 /\ st[p] = "BLOCKED"
  BY <1>1 DEF Due
<1>6. W \subseteq {t \in 0 .. n-1 : Status[t] = "blocked"} /\ W \in SUBSET (0 .. n-1)
  BY <1>1, <1>5 DEF Status, StatusOf
<1>7. \A p \in Procs : p # current =>
        StatusOf(woken[p]) = IF p \in W THEN "ready" ELSE Status[p]
  BY <1>1, <1>2, <1>5 DEF Status, StatusOf
<1> HIDE DEF woken, next, W
<1>8. CASE next = current
  <2>1. state' = woken /\ current' = current
    BY <1>8 DEF scheduler_tick, woken, next
  <2>2. current = 0 /\ woken[current] = "RUNNING"
    BY <1>1, <1>2, <1>4, <1>8 DEF TickPre, Due
  <2>3. \A p \in Procs : StatusOf(state'[p]) = IF p \in W THEN "ready" ELSE Status[p]
    <3>1. StatusOf(state'[current]) = "ready" /\ Status[current] = "ready"
      BY <1>1, <2>1, <2>2 DEF Status, StatusOf
    <3>2. QED
      BY <1>7, <2>1, <3>1
  <2>4. Tasks!Wake(W)
    BY <1>6, <2>1, <2>3 DEF Tasks!Wake, Tasks!WokenBy, Status
  <2>5. QED
    BY <1>6, <2>4 DEF Tasks!TNext
<1>9. CASE next # current
  <2>1. state' = SwitchStates(woken, next) /\ current' = next
    BY <1>9 DEF scheduler_tick, woken, next
  <2>2. \A p \in Procs : state'[p] = IF p = next THEN "RUNNING"
                                  ELSE IF p = current /\ woken[p] = "RUNNING" THEN "READY"
                                  ELSE woken[p]
    BY <1>1, <1>2, <1>4, <1>9, <2>1 DEF SwitchStates
  <2> DEFINE as == StatusOf(state'[current])
  <2>3. as \in {"ready", "blocked", "dead"}
    BY DEF StatusOf
  <2>4. StatusOf(woken[next]) = "ready" /\ StatusOf(state'[next]) = "ready" /\ next \in Procs
    BY <1>1, <1>2, <1>4, <1>9, <2>2 DEF StatusOf, Runnable
  <2>5. \A p \in Procs : p # current =>
          StatusOf(state'[p]) = IF p \in W THEN "ready" ELSE Status[p]
    BY <1>7, <2>2, <2>4
  <2> HIDE DEF as
  <2>6. Tasks!Switch(W, as, next)
    <3>1. Tasks!WokenBy(W)[next] = "ready"
      BY <1>7, <1>9, <2>4 DEF Tasks!WokenBy, Status
    <3>2. [p \in Procs |-> StatusOf(state'[p])] = [Tasks!WokenBy(W) EXCEPT ![current] = as]
      BY <1>1, <2>5, ZenonT(60) DEF Tasks!WokenBy, Status, as
    <3>3. QED
      BY <1>4, <1>6, <1>9, <2>1, <3>1, <3>2 DEF Tasks!Switch, Status
  <2>7. QED
    BY <1>4, <1>6, <2>3, <2>6, ZenonT(60) DEF Tasks!TNext
<1>10. QED
  BY <1>8, <1>9

(* If the first process added is a kernel process, as in kernel_main, the  *)
(* scheduler implements the task system.  (With a user process there,      *)
(* scheduler_start, replayed from idle's saved context after an interrupt  *)
(* during boot, would run it even when it is blocked or dead.)             *)
THEOREM Implements ==
    ASSUME 1 \notin User
    PROVE  Spec => ImplementsTaskSystem
<1>1. Init => Tasks!TInit
  <2>1. Init => \A p \in Procs : StatusOf(state[p]) = "ready"
    BY DEF Init, StatusOf
  <2>2. QED
    BY <2>1 DEF Init, Tasks!TInit
<1>2. IInv /\ IInv' /\ [Next]_vars => [Tasks!TNext]_Tasks!tvars
  <2> SUFFICES ASSUME IInv, IInv', [Next]_vars PROVE [Tasks!TNext]_Tasks!tvars
    OBVIOUS
  <2> USE ConfigAssumption DEF PStates
  <2>0. /\ TypeOK /\ Table /\ Flow /\ state[current] = "RUNNING"
        /\ current \in Procs /\ 0 \in Procs /\ 0 \notin User /\ n \in 1 .. N /\ n \in Nat
    <3>1. TypeOK /\ Table /\ Flow /\ state[current] = "RUNNING"
      BY DEF IInv, Table, OneRunning
    <3>2. n \in 1 .. N /\ current \in 0 .. n-1
      BY <3>1 DEF TypeOK
    <3>3. QED
      BY <3>1, <3>2 DEF Procs
  <2>1. CASE UNCHANGED <<n, state, current>>
    BY <2>1 DEF Tasks!tvars
  <2>2. CASE scheduler_add
    <3>1. n \in Procs /\ state' = [state EXCEPT ![n] = "READY"] /\ state[n] = "READY"
          /\ n' = n + 1 /\ current' = current
      BY <2>2, <2>0 DEF scheduler_add, Table, Procs
    <3>2. state' = state
      BY <2>0, <3>1 DEF TypeOK
    <3>3. Tasks!Admit(n)
      BY <2>0, <3>1, <3>2 DEF Tasks!Admit
    <3>4. QED
      BY <3>1, <3>3 DEF Tasks!TNext
  <2>3. CASE scheduler_start_pick
    <3>1. current = 0 /\ current' = Pos(1) /\ n' = n /\ state' = [state EXCEPT ![current'] = "RUNNING"]
      BY <2>3, <2>0 DEF scheduler_start_pick, Flow
    <3>2. CASE n = 1
      <4>1. current' = current /\ state' = state
        BY <2>0, <3>1, <3>2 DEF Pos, TypeOK
      <4>2. QED
        BY <2>1, <3>1, <4>1
    <3>3. CASE n # 1
      <4>1. current' = 1 /\ 1 \in Procs /\ Runnable(state[1]) /\ 1 \in 0 .. n-1
        BY <2>0, <3>1, <3>3 DEF Pos, Procs, Table
      <4>2. Status[1] = "ready" /\ Status[0] = "ready"
        BY <2>0, <3>1, <4>1 DEF Status, StatusOf, Runnable, TypeOK
      <4>3. Status' = Status
        BY <2>0, <3>1, <4>1, <4>2 DEF Status, StatusOf, TypeOK
      <4>4. Tasks!WokenBy({}) = Status
        BY DEF Tasks!WokenBy, Status
      <4>5. Tasks!Switch({}, "ready", 1)
        <5>1. Status' = [Status EXCEPT ![current] = "ready"]
          BY <2>0, <3>1, <4>2, <4>3 DEF Status
        <5>2. [p \in Procs |-> StatusOf(state[p])]' = [Tasks!WokenBy({}) EXCEPT ![current] = "ready"]
          BY <4>4, <5>1 DEF Status
        <5>3. Tasks!WokenBy({})[1] = "ready"
          BY <4>2, <4>4
        <5>4. QED
          BY <3>1, <4>1, <5>2, <5>3 DEF Tasks!Switch
      <4>6. QED
        BY <4>1, <4>5 DEF Tasks!TNext
    <3>4. QED
      BY <3>2, <3>3
  <2>4. CASE keyboard_handler
    <3>1. CASE KeyWaiters = {}
      BY <2>1, <2>4, <3>1 DEF keyboard_handler, scheduler_wake_key_waiter
    <3>2. CASE KeyWaiters # {}
      <4> DEFINE p == CHOOSE q \in KeyWaiters : \A r \in KeyWaiters : q <= r
      <4>1. KeyWaiters \subseteq Nat
        BY DEF KeyWaiters
      <4>2. p \in KeyWaiters
        BY <3>2, <4>1, LeastNatural, ZenonT(60)
      <4> HIDE DEF p
      <4>3. p \in Procs /\ p \in 0 .. n-1 /\ state[p] = "BLOCKED"
        BY <2>0, <4>2 DEF KeyWaiters, Procs
      <4>4. state' = [state EXCEPT ![p] = "READY"] /\ n' = n /\ current' = current
        BY <2>4, <3>2 DEF keyboard_handler, scheduler_wake_key_waiter, p
      <4>5. \A q \in Procs : StatusOf(state'[q]) = IF q \in {p} THEN "ready" ELSE StatusOf(state[q])
        BY <2>0, <4>3, <4>4 DEF StatusOf, TypeOK
      <4>6. StatusOf(state[p]) = "blocked"
        BY <4>3 DEF StatusOf
      <4>7. Tasks!Wake({p})
        BY <4>3, <4>4, <4>5, <4>6 DEF Tasks!Wake, Tasks!WokenBy
      <4>8. QED
        BY <4>3, <4>7 DEF Tasks!TNext
    <3>3. QED
      BY <3>1, <3>2
  <2>5. CASE timer_handler
    <3>1. TickPre(state, wait_reason, Ticked, InterruptedAt, irq_stub)
      BY <2>0, <2>5, TimerTickPre DEF timer_handler
    <3>2. QED
      BY <2>5, <3>1, TickRefines DEF timer_handler
  <2>6. CASE sys_sleep \/ sys_yield \/ sys_exit \/ sys_read_wait
    BY <2>0, <2>6, SyscallTicks, TickRefines DEF OnlyCurrent
  <2>7. QED
    BY <2>1, <2>2, <2>3, <2>4, <2>5, <2>6 DEF Next, Interrupt, Syscall, KernelStep, vars,
       kernel_main_sti, scheduler_start_switch, irq_common_stub, process_trampoline_fn, sysret,
       sys_read_char, sys_read, sys_getkey, syscall_dispatch, page_fault_handler
<1>3. QED
  BY <1>1, <1>2, InitIInv, NextIInv, PTL DEF Spec, ImplementsTaskSystem, Tasks!TSpec

-----------------------------------------------------------------------------
(* Waits end when they are due and not before, and a key wakes enough      *)
(* readers, for every list in which the first process is a kernel process, *)
(* as kernel_main adds them.  (scheduler_start runs that process whatever  *)
(* its state.)                                                             *)

(* A call of scheduler_tick ends the waits that are due and no others: the *)
(* search never picks a process that is still blocked.                     *)
LEMMA TickWakes ==
    ASSUME IInv,
           NEW st, NEW wr, NEW lf, NEW k, NEW fr,
           TickPre(st, wr, lf, k, fr), OnlyCurrent(st, wr, k),
           scheduler_tick(st, wr, lf, k, fr)
    PROVE  \A p \in Procs : (state[p] = "BLOCKED" /\ state'[p] # "BLOCKED") =>
              wait_reason[p] = "SLEEP" /\ left'[p] = 0
<1> DEFINE woken == Woken(st, wr, lf)
           next == NextProc(woken)
<1>1. /\ n \in 1 .. N /\ current \in 0 .. n-1 /\ current \in Procs
      /\ state[current] = "RUNNING"
  BY ConfigAssumption DEF IInv, TypeOK, Procs, Table, OneRunning
<1>2. /\ woken \in [Procs -> PStates]
      /\ \A p \in Procs : woken[p] = IF Due(st, wr, lf, p) THEN "READY" ELSE st[p]
  BY DEF Woken, TickPre, PStates
<1>3. next # current => Runnable(woken[next])
  BY <1>1, <1>2, NextProcFacts
<1> HIDE DEF woken, next
<1>4. left' = lf /\ (state' = woken \/ (next # current /\ state' = SwitchStates(woken, next)))
  BY DEF scheduler_tick, woken, next
<1>5. \A p \in Procs : p # current /\ state'[p] # "BLOCKED" => woken[p] # "BLOCKED"
  BY <1>2, <1>3, <1>4 DEF SwitchStates, Runnable
<1>6. SUFFICES ASSUME NEW p \in Procs, state[p] = "BLOCKED", state'[p] # "BLOCKED"
               PROVE  wait_reason[p] = "SLEEP" /\ left'[p] = 0
  OBVIOUS
<1>7. p # current /\ st[p] = "BLOCKED" /\ wr[p] = wait_reason[p] /\ woken[p] # "BLOCKED"
  BY <1>1, <1>5, <1>6 DEF OnlyCurrent
<1>8. Due(st, wr, lf, p)
  BY <1>2, <1>7
<1>9. QED
  BY <1>4, <1>7, <1>8 DEF Due

(* timer_handler changes nobody's wait before it calls scheduler_tick.     *)
LEMMA TimerOnlyCurrent ==
    ASSUME IInv, timer_handler PROVE OnlyCurrent(state, wait_reason, InterruptedAt)
  BY DEF OnlyCurrent, IInv, Table, OneRunning, timer_handler, InterruptsOn, InterruptedAt

(* scheduler_start picks a process that is not waiting.                    *)
LEMMA StartPicks ==
    ASSUME IInv, 1 \notin User, scheduler_start_pick
    PROVE  /\ current = 0 /\ current' \in {0, 1} /\ current' \in Procs \ User
           /\ Runnable(state[current'])
           /\ \A p \in Procs : state'[p] = IF p = current' THEN "RUNNING" ELSE state[p]
<1>1. current = 0 /\ n \in 1 .. N /\ N \in Nat /\ state \in [Procs -> PStates]
  BY ConfigAssumption DEF scheduler_start_pick, IInv, TypeOK, Flow, PStates
<1>2. current' \in {0, 1} /\ current' \in Procs
  BY <1>1 DEF scheduler_start_pick, Pos, Procs
<1>3. current' \in Procs \ User
  BY <1>2, ConfigAssumption
<1>4. Runnable(state[current'])
  BY <1>3 DEF IInv, Table
<1>5. QED
  BY <1>1, <1>2, <1>3, <1>4 DEF scheduler_start_pick

(* A key wakes one of the processes that wait for it.                      *)
LEMMA KeyWakesOne ==
    ASSUME keyboard_handler, KeyWaiters # {}
    PROVE  \E q \in KeyWaiters : /\ state' = [state EXCEPT ![q] = "READY"]
                                 /\ wait_reason' = [wait_reason EXCEPT ![q] = "NONE"]
<1> DEFINE first == CHOOSE q \in KeyWaiters : \A r \in KeyWaiters : q <= r
<1>1. KeyWaiters \subseteq Nat
  BY DEF KeyWaiters
<1>2. first \in KeyWaiters
  BY <1>1, LeastNatural, ZenonT(60)
<1>3. QED
  BY <1>2, ZenonT(60) DEF keyboard_handler, scheduler_wake_key_waiter

(* A sleeper stops waiting only when its time has come, a reader only when *)
(* a key arrives.                                                          *)
THEOREM WakesDue ==
    ASSUME 1 \notin User
    PROVE  Spec => WakesOnlyWhenDue
<1> DEFINE Ends == \A p \in Procs :
                     (state[p] = "BLOCKED" /\ state'[p] # "BLOCKED") =>
                        IF wait_reason[p] = "SLEEP" THEN left'[p] = 0 ELSE keyboard_handler
<1>1. IInv /\ [Next]_vars => [Ends]_vars
  <2> SUFFICES ASSUME IInv, Next PROVE Ends
    OBVIOUS
  <2>1. CASE state' = state
    BY <2>1
  <2>2. CASE scheduler_add
    <3>1. n \in Procs /\ state[n] = "READY" /\ state \in [Procs -> PStates]
      BY <2>2, ConfigAssumption DEF scheduler_add, IInv, TypeOK, Table, Procs, PStates
    <3>2. QED
      BY <2>2, <3>1 DEF scheduler_add
  <2>3. CASE scheduler_start_pick
    BY <2>3, StartPicks DEF Runnable
  <2>4. CASE keyboard_handler
    <3>1. CASE KeyWaiters = {}
      BY <2>1, <2>4, <3>1 DEF keyboard_handler, scheduler_wake_key_waiter
    <3>2. CASE KeyWaiters # {}
      <4>1. PICK q \in KeyWaiters : state' = [state EXCEPT ![q] = "READY"]
        BY <2>4, <3>2, KeyWakesOne
      <4>2. state \in [Procs -> PStates] /\ wait_reason[q] = "KEY"
        BY DEF KeyWaiters, IInv, TypeOK, PStates
      <4>3. QED
        BY <2>4, <4>1, <4>2
    <3>3. QED
      BY <3>1, <3>2
  <2>5. CASE timer_handler
    <3>1. scheduler_tick(state, wait_reason, Ticked, InterruptedAt, irq_stub)
      BY <2>5 DEF timer_handler
    <3>2. QED
      BY <2>5, <3>1, TimerTickPre, TimerOnlyCurrent, TickWakes
  <2>6. CASE sys_sleep \/ sys_yield \/ sys_exit \/ sys_read_wait
    BY <2>6, SyscallTicks, TickWakes
  <2>7. QED
    BY <2>1, <2>2, <2>3, <2>4, <2>5, <2>6 DEF Next, Interrupt, Syscall, KernelStep,
       kernel_main_sti, scheduler_start_switch, irq_common_stub, process_trampoline_fn, sysret,
       sys_read_char, sys_read, sys_getkey, syscall_dispatch, page_fault_handler
<1>2. QED
  BY <1>1, InitIInv, NextIInv, PTL DEF Spec, WakesOnlyWhenDue

-----------------------------------------------------------------------------
(* No lost wakeup.  That some reader is on its way is not inductive: it    *)
(* may return after one character while others are left.  What is kept is  *)
(* a count.  A process blocks only when no character waits; from then on   *)
(* every key adds a reader with its character, and a reader that leaves    *)
(* has taken one.                                                          *)
KeyInv ==
    /\ \A p \in Procs : state[p] = "BLOCKED" /\ wait_reason[p] = "KEY" => saved[p] = "read"
    /\ pc # "wild" /\ KeyWaiters # {} => chars <= Cardinality(Readers)

(* Sets of list positions have a size, and parts of them a smaller one.    *)
LEMMA Counted ==
    ASSUME NEW m \in Int, NEW S, S \subseteq 1 .. m
    PROVE  /\ IsFiniteSet(S) /\ Cardinality(S) \in Nat
           /\ \A T : T \subseteq S => Cardinality(T) <= Cardinality(S)
<1>1. IsFiniteSet(1 .. m)
  BY FS_Interval
<1>2. IsFiniteSet(S)
  BY <1>1, FS_Subset, ZenonT(60)
<1>3. Cardinality(S) \in Nat
  BY <1>2, FS_CardinalityType
<1>4. ASSUME NEW T, T \subseteq S PROVE Cardinality(T) <= Cardinality(S)
  <2>1. T \in SUBSET S
    BY <1>4
  <2>2. QED
    BY <1>2, <2>1, FS_Subset, ZenonT(60)
<1>5. QED
  BY <1>2, <1>3, <1>4

(* The count is kept by a step that adds no waiter and no character and    *)
(* loses no reader.                                                        *)
LEMMA CountKept ==
    ASSUME IInv, IInv', KeyInv, pc # "wild",
           KeyWaiters' \subseteq KeyWaiters, chars' <= chars, Readers \subseteq Readers'
    PROVE  KeyWaiters' # {} => chars' <= Cardinality(Readers')
<1>1. n-1 \in Int /\ n'-1 \in Int /\ chars \in Int /\ chars' \in Int
  BY ConfigAssumption DEF IInv, TypeOK
<1>2. Readers \subseteq 1 .. n-1 /\ Readers' \subseteq 1 .. n'-1
  BY DEF Readers
<1>3. Cardinality(Readers) \in Nat
  BY <1>1, <1>2, Counted, ZenonT(60)
<1>4. Cardinality(Readers') \in Nat /\ Cardinality(Readers) <= Cardinality(Readers')
  BY <1>1, <1>2, Counted, ZenonT(60)
<1>5. QED
  BY <1>1, <1>3, <1>4 DEF KeyInv

(* scheduler_tick keeps the readers on their way.                          *)
LEMMA TickKeyInv ==
    ASSUME IInv, IInv', KeyInv, pc # "wild", n' = n, chars' = chars,
           NEW st, NEW wr, NEW lf, NEW k, NEW fr,
           TickPre(st, wr, lf, k, fr), OnlyCurrent(st, wr, k),
           scheduler_tick(st, wr, lf, k, fr)
    PROVE  KeyInv'
<1> DEFINE woken == Woken(st, wr, lf)
           next == NextProc(woken)
<1>1. /\ n \in 1 .. N /\ current \in 0 .. n-1 /\ current \in Procs /\ 1 .. n-1 \subseteq Procs
      /\ state[current] = "RUNNING" /\ state'[current'] = "RUNNING"
      /\ saved \in [Procs -> Conts] /\ chars \in Nat
  <2>1. n \in 1 .. N /\ current \in 0 .. n-1 /\ saved \in [Procs -> Conts] /\ chars \in Nat
    BY ConfigAssumption DEF IInv, TypeOK
  <2>2. state[current] = "RUNNING" /\ state'[current'] = "RUNNING"
    BY DEF IInv, Table, OneRunning
  <2>3. QED
    BY <2>1, <2>2, ConfigAssumption DEF Procs
<1>2. /\ woken \in [Procs -> PStates]
      /\ \A p \in Procs : woken[p] = IF Due(st, wr, lf, p) THEN "READY" ELSE st[p]
      /\ next \in Procs
  <2>1. woken \in [Procs -> PStates]
        /\ \A p \in Procs : woken[p] = IF Due(st, wr, lf, p) THEN "READY" ELSE st[p]
    BY DEF Woken, TickPre, PStates
  <2>2. next \in 0 .. n-1
    BY <1>1, <2>1, NextProcFacts
  <2>3. QED
    BY <1>1, <2>1, <2>2, ConfigAssumption DEF Procs
<1>3. \A p \in Procs : wait_reason'[p] = IF Due(st, wr, lf, p) THEN "NONE" ELSE wr[p]
  BY DEF scheduler_tick
<1> HIDE DEF woken, next
<1>4. \/ /\ state' = woken /\ current' = current /\ saved' = saved
      \/ /\ next # current /\ state' = SwitchStates(woken, next) /\ current' = next
         /\ saved' = [saved EXCEPT ![current] = k]
         /\ pc' \in {"wild", saved'[next]}
  BY ZenonT(60) DEF scheduler_tick, woken, next, context_switch
<1>5. \A p \in Procs : state'[p] = "BLOCKED" => woken[p] = "BLOCKED"
  BY <1>1, <1>2, <1>4 DEF SwitchStates
<1>6. \A p \in Procs : state'[p] = "BLOCKED" /\ wait_reason'[p] = "KEY"
                         => st[p] = "BLOCKED" /\ wr[p] = "KEY"
  BY <1>2, <1>3, <1>5
<1>7. \A p \in Procs : state'[p] = "BLOCKED" /\ wait_reason'[p] = "KEY" => saved'[p] = "read"
  <2> SUFFICES ASSUME NEW p \in Procs, state'[p] = "BLOCKED", wait_reason'[p] = "KEY"
               PROVE  saved'[p] = "read"
    OBVIOUS
  <2>1. CASE p = current
    BY <1>1, <1>4, <1>6, <2>1 DEF OnlyCurrent
  <2>2. CASE p # current
    <3>1. saved[p] = "read"
      BY <1>6, <2>2 DEF OnlyCurrent, KeyInv
    <3>2. QED
      BY <1>1, <1>4, <2>2, <3>1
  <2>3. QED
    BY <2>1, <2>2
<1>8. ASSUME pc' # "wild", KeyWaiters' # {}
      PROVE  chars' <= Cardinality(Readers')
  <2>1. CASE chars = 0
    <3>1. n' - 1 \in Int /\ Readers' \subseteq 1 .. n'-1
      BY <1>1, ConfigAssumption DEF Readers
    <3>2. Cardinality(Readers') \in Nat
      BY <3>1, Counted, ZenonT(60)
    <3>3. QED
      BY <2>1, <3>2
  <2>2. CASE chars # 0
    <3>1. KeyWaiters' \subseteq KeyWaiters
      <4> SUFFICES ASSUME NEW p \in KeyWaiters' PROVE p \in KeyWaiters
        OBVIOUS
      <4>1. p \in 1 .. n-1 /\ p \in Procs /\ state'[p] = "BLOCKED" /\ wait_reason'[p] = "KEY"
        BY <1>1 DEF KeyWaiters
      <4>2. st[p] = "BLOCKED" /\ wr[p] = "KEY"
        BY <1>6, <4>1
      <4>3. p # current
        BY <2>2, <4>2 DEF OnlyCurrent
      <4>4. QED
        BY <4>1, <4>2, <4>3 DEF OnlyCurrent, KeyWaiters
    <3>2. Readers \subseteq Readers'
      <4> SUFFICES ASSUME NEW p \in Readers PROVE p \in Readers'
        OBVIOUS
      <4>1. p \in 1 .. n-1 /\ p \in Procs /\ p # current /\ state[p] = "READY" /\ saved[p] = "read"
        BY <1>1, <2>2 DEF Readers, OnlyCurrent
      <4>2. woken[p] = "READY"
        BY <1>2, <4>1 DEF OnlyCurrent
      <4>3. CASE state' = woken /\ current' = current /\ saved' = saved
        BY <4>1, <4>2, <4>3 DEF Readers
      <4>4. CASE /\ next # current /\ state' = SwitchStates(woken, next) /\ current' = next
                 /\ saved' = [saved EXCEPT ![current] = k]
                 /\ pc' \in {"wild", saved'[next]}
        <5>1. saved'[p] = "read"
          BY <1>1, <4>1, <4>4
        <5>2. p # next => state'[p] = "READY"
          BY <1>2, <4>1, <4>2, <4>4 DEF SwitchStates
        <5>3. QED
          BY <1>8, <4>1, <4>4, <5>1, <5>2 DEF Readers
      <4>5. QED
        BY <1>4, <4>3, <4>4
    <3>3. QED
      BY <1>1, <1>8, <3>1, <3>2, CountKept
  <2>3. QED
    BY <2>1, <2>2
<1>9. QED
  BY <1>7, <1>8 DEF KeyInv

(* Steps that switch nobody: a key, a character taken, and the rest.       *)
LEMMA KeyPressKeyInv ==
    ASSUME IInv, IInv', KeyInv, keyboard_handler PROVE KeyInv'
<1>1. /\ n \in 1 .. N /\ 1 .. n-1 \subseteq Procs /\ n-1 \in Int /\ chars \in Nat /\ chars' \in Nat
      /\ state \in [Procs -> PStates] /\ wait_reason \in [Procs -> PReasons]
      /\ state[current] = "RUNNING" /\ pc # "wild"
  <2>1. n \in 1 .. N /\ chars \in Nat /\ chars' \in Nat
    BY ConfigAssumption DEF IInv, TypeOK
  <2>2. state \in [Procs -> PStates] /\ wait_reason \in [Procs -> PReasons] /\ state[current] = "RUNNING"
    BY DEF IInv, TypeOK, Table, OneRunning, PStates, PReasons
  <2>3. pc # "wild"
    BY DEF keyboard_handler, InterruptsOn
  <2>4. QED
    BY <2>1, <2>2, <2>3, ConfigAssumption DEF Procs
<1>2. /\ n' = n /\ current' = current /\ pc' = pc /\ saved' = saved /\ chars' <= chars + 1
  BY <1>1 DEF keyboard_handler
<1>3. CASE KeyWaiters = {}
  <2>1. state' = state /\ wait_reason' = wait_reason
    BY <1>3 DEF keyboard_handler, scheduler_wake_key_waiter
  <2>2. KeyWaiters' = {}
    BY <1>2, <1>3, <2>1 DEF KeyWaiters
  <2>3. QED
    BY <1>2, <2>1, <2>2 DEF KeyInv
<1>4. CASE KeyWaiters # {}
  <2>1. PICK q \in KeyWaiters : /\ state' = [state EXCEPT ![q] = "READY"]
                                /\ wait_reason' = [wait_reason EXCEPT ![q] = "NONE"]
    BY <1>4, KeyWakesOne
  <2>2. q \in 1 .. n-1 /\ q \in Procs /\ state[q] = "BLOCKED" /\ wait_reason[q] = "KEY" /\ q # current
    BY <1>1 DEF KeyWaiters
  <2>3. saved[q] = "read"
    BY <2>2 DEF KeyInv
  <2>4. q \notin Readers
    BY <2>2 DEF Readers
  <2>5. Readers \cup {q} \subseteq Readers'
    <3>1. q \in Readers'
      BY <1>1, <1>2, <2>1, <2>2, <2>3 DEF Readers
    <3>2. ASSUME NEW p \in Readers PROVE p \in Readers'
      BY <1>1, <1>2, <2>1, <2>4, <3>2 DEF Readers
    <3>3. QED
      BY <3>1, <3>2
  <2>6. Readers \subseteq 1 .. n-1 /\ Readers' \subseteq 1 .. n-1
    BY <1>2 DEF Readers
  <2>7. IsFiniteSet(Readers) /\ Cardinality(Readers) \in Nat
    BY <1>1, <2>6, Counted, ZenonT(60)
  <2>8. Cardinality(Readers \cup {q}) = Cardinality(Readers) + 1
    BY <2>4, <2>7, FS_AddElement
  <2>9. Cardinality(Readers') \in Nat /\ Cardinality(Readers \cup {q}) <= Cardinality(Readers')
    BY <1>1, <2>5, <2>6, Counted, ZenonT(60)
  <2>10. chars <= Cardinality(Readers)
    BY <1>1, <1>4 DEF KeyInv
  <2>11. chars' <= Cardinality(Readers')
    BY <1>1, <1>2, <2>7, <2>8, <2>9, <2>10
  <2>12. \A p \in Procs : state'[p] = "BLOCKED" /\ wait_reason'[p] = "KEY" => saved'[p] = "read"
    BY <1>1, <1>2, <2>1 DEF KeyInv
  <2>13. QED
    BY <2>11, <2>12 DEF KeyInv
<1>5. QED
  BY <1>3, <1>4

(* sys_read takes a character: one reader fewer, one character fewer.      *)
LEMMA ReadCharKeyInv ==
    ASSUME IInv, IInv', KeyInv, sys_read_char PROVE KeyInv'
<1>1. n-1 \in Int /\ chars \in Nat /\ chars' = chars - 1 /\ pc # "wild"
  BY ConfigAssumption DEF IInv, TypeOK, sys_read_char, keyboard_getchar
<1>2. UNCHANGED <<n, state, wait_reason, current, saved>>
  BY DEF sys_read_char
<1>3. KeyWaiters' = KeyWaiters
  BY <1>2 DEF KeyWaiters
<1>4. Readers \ {current} \subseteq Readers'
  BY <1>2 DEF Readers
<1>5. Readers \subseteq 1 .. n-1 /\ Readers' \subseteq 1 .. n-1
  BY <1>2 DEF Readers
<1>6. IsFiniteSet(Readers) /\ Cardinality(Readers) \in Nat
  BY <1>1, <1>5, Counted, ZenonT(60)
<1>7. Cardinality(Readers \ {current}) \in {Cardinality(Readers), Cardinality(Readers) - 1}
  BY <1>6, FS_RemoveElement
<1>8. Cardinality(Readers') \in Nat /\ Cardinality(Readers \ {current}) <= Cardinality(Readers')
  BY <1>1, <1>4, <1>5, Counted, ZenonT(60)
<1>9. KeyWaiters # {} => chars <= Cardinality(Readers)
  BY <1>1 DEF KeyInv
<1>10. KeyWaiters' # {} => chars' <= Cardinality(Readers')
  BY <1>1, <1>3, <1>6, <1>7, <1>8, <1>9
<1>11. \A p \in Procs : state'[p] = "BLOCKED" /\ wait_reason'[p] = "KEY" => saved'[p] = "read"
  BY <1>2 DEF KeyInv
<1>12. QED
  BY <1>10, <1>11 DEF KeyInv

(* Current is no reader before the step, or is one after it, and nobody    *)
(* else changes.                                                           *)
LEMMA StaysKeyInv ==
    ASSUME IInv, IInv', KeyInv, pc \notin {"wild", "read"}, chars' <= chars,
           UNCHANGED <<n, state, wait_reason, current, saved>>
    PROVE  KeyInv'
<1>1. KeyWaiters' = KeyWaiters
  BY DEF KeyWaiters
<1>2. Readers \subseteq Readers'
  BY DEF Readers
<1>3. KeyWaiters' # {} => chars' <= Cardinality(Readers')
  BY <1>1, <1>2, CountKept
<1>4. QED
  BY <1>3 DEF KeyInv

(* Every step keeps the count.                                             *)
LEMMA NextKeyInv ==
    ASSUME 1 \notin User, IInv, IInv', KeyInv, [Next]_vars
    PROVE  KeyInv'
<1>0. /\ n \in 1 .. N /\ n \in Nat /\ 1 .. n-1 \subseteq Procs /\ chars \in Nat
      /\ state \in [Procs -> PStates] /\ state[current] = "RUNNING"
  <2>1. n \in 1 .. N /\ chars \in Nat
    BY ConfigAssumption DEF IInv, TypeOK
  <2>2. state \in [Procs -> PStates] /\ state[current] = "RUNNING"
    BY DEF IInv, TypeOK, Table, OneRunning, PStates
  <2>3. QED
    BY <2>1, <2>2, ConfigAssumption DEF Procs
<1>1. CASE scheduler_add
  <2>1. /\ n \in Procs /\ state[n] = "READY" /\ n' = n + 1 /\ pc = "init" /\ chars' = chars
        /\ state' = [state EXCEPT ![n] = "READY"]
        /\ UNCHANGED <<wait_reason, current, pc, saved>>
    BY <1>0, <1>1, ConfigAssumption DEF scheduler_add, IInv, Table, Procs
  <2>2. state' = state
    BY <1>0, <2>1
  <2>3. KeyWaiters' \subseteq KeyWaiters
    BY <1>0, <2>1, <2>2 DEF KeyWaiters
  <2>4. Readers \subseteq Readers'
    BY <1>0, <2>1, <2>2 DEF Readers
  <2>5. chars' <= chars
    BY <1>0, <2>1
  <2>6. KeyWaiters' # {} => chars' <= Cardinality(Readers')
    BY <2>1, <2>3, <2>4, <2>5, CountKept
  <2>7. QED
    BY <2>1, <2>2, <2>6 DEF KeyInv
<1>2. CASE scheduler_start_pick
  <2>1. /\ current = 0 /\ current' \in Procs \ User
        /\ \A p \in Procs : state'[p] = IF p = current' THEN "RUNNING" ELSE state[p]
        /\ pc = "b0" /\ UNCHANGED <<n, wait_reason, saved, chars>>
    BY <1>2, StartPicks DEF scheduler_start_pick
  <2>2. KeyWaiters' \subseteq KeyWaiters
    BY <1>0, <2>1 DEF KeyWaiters
  <2>3. \A p \in Procs : saved[p] = "read" => p # current'
    BY <2>1 DEF IInv, Flow, SyscallConts
  <2>4. Readers \subseteq Readers'
    BY <1>0, <2>1, <2>3 DEF Readers
  <2>5. chars' <= chars
    BY <1>0, <2>1
  <2>6. KeyWaiters' # {} => chars' <= Cardinality(Readers')
    BY <2>1, <2>2, <2>4, <2>5, CountKept
  <2>7. QED
    BY <2>1, <2>6 DEF KeyInv
<1>3. CASE timer_handler
  <2>1. /\ scheduler_tick(state, wait_reason, Ticked, InterruptedAt, irq_stub)
        /\ n' = n /\ chars' = chars /\ pc # "wild"
    BY <1>3 DEF timer_handler, InterruptsOn
  <2>2. QED
    BY <1>3, <2>1, TimerTickPre, TimerOnlyCurrent, TickKeyInv
<1>4. CASE sys_sleep \/ sys_yield \/ sys_exit \/ sys_read_wait
  <2>1. pc # "wild"
    BY <1>4 DEF sys_sleep, sys_yield, sys_exit, sys_read_wait, InUser
  <2>2. QED
    BY <1>4, <2>1, SyscallTicks, TickKeyInv
<1>5. CASE keyboard_handler
  BY <1>5, KeyPressKeyInv
<1>6. CASE sys_read_char
  BY <1>6, ReadCharKeyInv
<1>7. CASE sys_getkey \/ syscall_dispatch \/ page_fault_handler \/ sys_read \/ sysret
           \/ kernel_main_sti
  <2>1. /\ pc \notin {"wild", "read"} /\ chars' <= chars
        /\ UNCHANGED <<n, state, wait_reason, current, saved>>
    BY <1>0, <1>7 DEF sys_getkey, syscall_dispatch, page_fault_handler, sys_read, sysret,
       kernel_main_sti, InUser, keyboard_getchar
  <2>2. QED
    BY <2>1, StaysKeyInv
<1>8. CASE scheduler_start_switch \/ irq_common_stub \/ process_trampoline_fn
  <2>1. /\ pc \notin {"wild", "read"} /\ chars' <= chars
        /\ UNCHANGED <<n, state, wait_reason, current, saved>>
    BY <1>0, <1>8 DEF scheduler_start_switch, context_switch, irq_common_stub,
       process_trampoline_fn, BootConts
  <2>2. QED
    BY <2>1, StaysKeyInv
<1>9. CASE UNCHANGED vars
  BY <1>9 DEF vars, KeyInv, KeyWaiters, Readers
<1>10. QED
  BY <1>1, <1>2, <1>3, <1>4, <1>5, <1>6, <1>7, <1>8, <1>9 DEF Next, Interrupt, Syscall, KernelStep

(* No lost wakeup: while a process is blocked in sys_read and characters   *)
(* wait, a woken reader is on its way to them, for every number of readers *)
(* and every size of the keyboard buffer.                                  *)
THEOREM KeyWakeupNotLost ==
    ASSUME 1 \notin User
    PROVE  Spec => []NoLostKeyWakeup
<1>1. Init => KeyInv
  BY DEF Init, KeyInv, KeyWaiters
<1>2. IInv /\ IInv' /\ KeyInv /\ [Next]_vars => KeyInv'
  BY NextKeyInv
<1>3. IInv /\ KeyInv => NoLostKeyWakeup
  <2> SUFFICES ASSUME IInv, KeyInv, pc # "wild", KeyWaiters # {}, chars > 0
               PROVE  Readers # {}
    BY DEF NoLostKeyWakeup
  <2>1. chars <= Cardinality(Readers) /\ chars \in Nat
    BY ConfigAssumption DEF KeyInv, IInv, TypeOK
  <2>2. Cardinality(Readers) # 0
    <3>1. n-1 \in Int /\ Readers \subseteq 1 .. n-1
      BY ConfigAssumption DEF Readers, IInv, TypeOK
    <3>2. Cardinality(Readers) \in Nat
      BY <3>1, Counted, ZenonT(60)
    <3>3. QED
      BY <2>1, <3>2
  <2>3. QED
    BY <2>2, FS_EmptySet
<1>4. QED
  BY <1>1, <1>2, <1>3, InitIInv, NextIInv, PTL DEF Spec

-----------------------------------------------------------------------------
(* Every process resumes where it left off when there is one user process, *)
(* as kernel_main adds it, it does not call sys_read, and no interrupt     *)
(* arrives between `sti' and the first switch.  (Two processes suspended   *)
(* in a system call share one syscall_stack; a boot flow resumed once may  *)
(* be resumed again.)  What is kept: only current's stored context is used *)
(* up, and the only context that must not be resumed is a dead process's.  *)
OneProgram ==
    /\ \A p, q \in User : p = q
    /\ "read" \notin Calls
    /\ BootIrq = FALSE

Resumable ==
    /\ pc \notin {"wild", "exit", "read"} \cup BootConts
    /\ pc \in {"init", "b0", "b1"} => \A p \in Procs : saved[p] = "new" /\ frame[p] = "live"
    /\ \A p \in Procs : p # current => frame[p] = "live"
    /\ \A p \in Procs : saved[p] \notin {"read"} \cup BootConts
    /\ \A p \in Procs : saved[p] = "exit" => state[p] = "DEAD"

(* With one user process syscall_entry overwrites nobody's frame.          *)
LEMMA FramesSpared ==
    ASSUME IInv, OneProgram, current \in User
    PROVE  syscall_entry = frame
<1>1. \A p \in Procs : saved[p] \in SyscallConts => p \in User
  BY DEF IInv, Flow
<1>2. \A p \in Procs : ~ (p # current /\ saved[p] \in SyscallConts)
  BY <1>1 DEF OneProgram
<1>3. frame \in [Procs -> PFrames]
  BY DEF IInv, TypeOK, PFrames
<1>4. QED
  BY <1>2, <1>3 DEF syscall_entry

(* scheduler_tick, called from thread code, resumes a process that is not  *)
(* dead through a frame that is still there.                               *)
LEMMA TickResumes ==
    ASSUME IInv, Resumable, pc = "thread",
           NEW st, NEW wr, NEW lf, NEW k,
           TickPre(st, wr, lf, k, frame), OnlyCurrent(st, wr, k),
           k \in {"irq", "call", "exit"},
           scheduler_tick(st, wr, lf, k, frame)
    PROVE  /\ Resumable'
           /\ current' # current => frame[current'] = "live"
<1> DEFINE woken == Woken(st, wr, lf)
           next == NextProc(woken)
<1>1. /\ n \in 1 .. N /\ current \in 0 .. n-1 /\ current \in Procs /\ 0 \in Procs
      /\ 0 \notin User
  BY ConfigAssumption DEF IInv, TypeOK, Procs
<1>2. /\ woken \in [Procs -> PStates]
      /\ \A p \in Procs : woken[p] = IF Due(st, wr, lf, p) THEN "READY" ELSE st[p]
  BY DEF Woken, TickPre, PStates
<1>3. Runnable(woken[0])
  BY <1>1, <1>2 DEF TickPre, Runnable
<1>4. /\ next \in 0 .. n-1
      /\ next # current => Runnable(woken[next])
      /\ current # 0 => next # current
  BY <1>1, <1>2, <1>3, NextProcFacts
<1>5. next \in Procs
  BY <1>1, <1>4, ConfigAssumption DEF Procs
<1>6. \A p \in Procs : st[p] = "DEAD" => woken[p] = "DEAD"
  BY <1>2 DEF Due
<1>7. \A p \in Procs : p # current /\ saved[p] = "exit" => woken[p] = "DEAD"
  BY <1>6 DEF Resumable, OnlyCurrent
<1>8. saved[current] # "exit"
  BY <1>1 DEF Resumable, IInv, Table, OneRunning
<1> HIDE DEF woken, next
<1>9. CASE next = current
  <2>1. /\ state' = woken /\ pc' = k /\ frame' = frame /\ saved' = saved /\ current' = current
    BY <1>9 DEF scheduler_tick, woken, next
  <2>2. k = "irq"
    BY <1>1, <1>4, <1>9 DEF TickPre, SyscallConts
  <2>3. QED
    BY <1>7, <1>8, <2>1, <2>2 DEF Resumable, BootConts
<1>10. CASE next # current
  <2>1. /\ state' = SwitchStates(woken, next) /\ current' = next
        /\ saved' = [saved EXCEPT ![current] = k]
        /\ frame' = [[frame EXCEPT ![current] = "live"] EXCEPT
                        ![next] = IF @ = "lost" THEN @ ELSE "spent"]
        /\ pc' = IF [frame EXCEPT ![current] = "live"][next] = "lost" THEN "wild"
                 ELSE [saved EXCEPT ![current] = k][next]
    BY <1>10 DEF scheduler_tick, woken, next, context_switch
  <2>2. saved \in [Procs -> Conts] /\ frame \in [Procs -> PFrames]
    BY DEF IInv, TypeOK, PFrames
  <2>3. frame[next] = "live" /\ pc' = saved[next]
    BY <1>1, <1>5, <1>10, <2>1, <2>2 DEF Resumable
  <2>4. \A p \in Procs : /\ p # current => saved'[p] = saved[p]
                         /\ p \notin {current, next} => frame'[p] = frame[p]
                         /\ p # next /\ woken[p] = "DEAD" => state'[p] = "DEAD"
    BY <1>1, <1>2, <1>5, <2>1, <2>2 DEF SwitchStates
  <2>5. saved'[current] = k /\ frame'[current] = "live"
    BY <1>1, <1>5, <1>10, <2>1, <2>2
  <2>6. saved[next] # "exit"
    BY <1>4, <1>5, <1>7, <1>10 DEF Runnable
  <2>7. pc' \notin {"init", "b0", "b1", "wild", "exit", "read"} \cup BootConts
    BY <1>5, <2>2, <2>3, <2>6 DEF Resumable, Conts, SyscallConts, BootConts
  <2>8. \A p \in Procs : p # current' => frame'[p] = "live"
    <3>1. \A p \in Procs : p # current => frame[p] = "live"
      BY DEF Resumable
    <3>2. current' = next
      BY <2>1
    <3>3. QED
      BY <2>4, <2>5, <3>1, <3>2
  <2>9. \A p \in Procs : saved'[p] \notin {"read"} \cup BootConts
    BY <2>4, <2>5 DEF Resumable, BootConts
  <2>10. \A p \in Procs : saved'[p] = "exit" => state'[p] = "DEAD"
    <3>1. k = "exit" => woken[current] = "DEAD"
      BY <1>1, <1>6 DEF OnlyCurrent
    <3>2. QED
      BY <1>7, <1>10, <2>4, <2>5, <2>6, <3>1
  <2>11. QED
    BY <2>1, <2>3, <2>7, <2>8, <2>9, <2>10, ZenonT(60) DEF Resumable
<1>11. QED
  BY <1>9, <1>10

(* Every step keeps the contexts resumable, and a step that moves to       *)
(* another process, or leaves boot, lands on a stored context not yet      *)
(* used.                                                                   *)
LEMMA NextResumable ==
    ASSUME OneProgram, IInv, Resumable, [Next]_vars
    PROVE  /\ Resumable'
           /\ (pc' \in Conts \cup {"wild"} /\ (current' # current \/ pc = "b1"))
                 => frame[current'] = "live" \/ UNCHANGED vars
<1>1. /\ n \in 1 .. N /\ current \in Procs /\ state[current] = "RUNNING" /\ n \in Nat
      /\ state \in [Procs -> PStates] /\ saved \in [Procs -> Conts]
      /\ frame \in [Procs -> PFrames]
  BY ConfigAssumption DEF IInv, TypeOK, Procs, Table, OneRunning, PStates, PFrames
<1>2. CASE scheduler_add
  <2>1. n \in Procs /\ state[n] = "READY"
    BY <1>1, <1>2, ConfigAssumption DEF scheduler_add, Procs, IInv, Table
  <2>2. state' = state
    BY <1>1, <1>2, <2>1 DEF scheduler_add
  <2>3. QED
    BY <1>2, <2>2 DEF scheduler_add, Resumable, Conts, BootConts, SyscallConts
<1>3. CASE scheduler_start_pick
  <2>1. /\ pc = "b0" /\ pc' = "b1" /\ saved' = saved /\ frame' = frame
    BY <1>3 DEF scheduler_start_pick
  <2>2. \A p \in Procs : saved'[p] = "new" /\ frame'[p] = "live"
    BY <2>1 DEF Resumable
  <2>3. QED
    BY <2>1, <2>2 DEF Resumable, Conts, BootConts, SyscallConts
<1>4. CASE scheduler_start_switch
  <2>1. /\ \A p \in Procs : saved[p] = "new" /\ frame[p] = "live"
        /\ current' = current /\ state' = state
    BY <1>4 DEF scheduler_start_switch, Resumable
  <2>2. BootStackPush = frame
    BY <1>1, <2>1 DEF BootStackPush
  <2>3. /\ saved' = saved
        /\ frame' = [frame EXCEPT ![current] = IF @ = "lost" THEN @ ELSE "spent"]
        /\ pc' = IF frame[current] = "lost" THEN "wild" ELSE saved[current]
    BY <1>4, <2>2 DEF scheduler_start_switch, context_switch
  <2>4. pc' = "new" /\ \A p \in Procs : p # current => frame'[p] = "live"
    BY <1>1, <2>1, <2>3
  <2>5. QED
    BY <1>1, <2>1, <2>3, <2>4 DEF Resumable, BootConts
<1>5. CASE timer_handler
  <2>1. pc = "thread" /\ InterruptedAt = "irq" /\ irq_stub = frame
    BY <1>5 DEF timer_handler, InterruptsOn, InterruptedAt, irq_stub, OneProgram
  <2>2. scheduler_tick(state, wait_reason, Ticked, "irq", frame)
    BY <1>5, <2>1 DEF timer_handler
  <2>3. TickPre(state, wait_reason, Ticked, "irq", frame)
    BY <2>1, TimerTickPre
  <2>4. OnlyCurrent(state, wait_reason, "irq")
    BY <1>5, <2>1, TimerOnlyCurrent
  <2>5. QED
    BY <2>1, <2>2, <2>3, <2>4, TickResumes
<1>6. CASE keyboard_handler
  <2>1. /\ pc = "thread" /\ irq_stub = frame
        /\ pc' = pc /\ frame' = frame /\ saved' = saved /\ current' = current
    BY <1>6 DEF keyboard_handler, InterruptsOn, irq_stub, OneProgram
  <2>2. \A p \in Procs : state[p] = "DEAD" => state'[p] = "DEAD"
    <3>1. CASE KeyWaiters = {}
      BY <1>6, <3>1 DEF keyboard_handler, scheduler_wake_key_waiter
    <3>2. CASE KeyWaiters # {}
      <4>1. PICK q \in KeyWaiters : state' = [state EXCEPT ![q] = "READY"]
        BY <1>6, <3>2, KeyWakesOne
      <4>2. state[q] = "BLOCKED"
        BY DEF KeyWaiters
      <4>3. QED
        BY <1>1, <4>1, <4>2
    <3>3. QED
      BY <3>1, <3>2
  <2>3. QED
    BY <2>1, <2>2 DEF Resumable, Conts, BootConts, SyscallConts
<1>7. CASE sys_sleep \/ sys_yield \/ sys_exit
  <2>1. pc = "thread" /\ current \in User
    BY <1>7 DEF sys_sleep, sys_yield, sys_exit, InUser
  <2>2. PICK st, wr, lf, k, fr :
              /\ TickPre(st, wr, lf, k, fr) /\ OnlyCurrent(st, wr, k)
              /\ k \in SyscallConts /\ fr \in {frame, syscall_entry}
              /\ scheduler_tick(st, wr, lf, k, fr)
    BY <1>7, SyscallTicks
  <2>3. fr = frame /\ k \in {"call", "exit"}
    BY <2>1, <2>2, FramesSpared DEF OnlyCurrent, SyscallConts
  <2>4. QED
    BY <2>1, <2>2, <2>3, TickResumes
<1>8. CASE sys_getkey \/ syscall_dispatch
  <2>1. /\ pc = "thread" /\ current \in User /\ frame' = syscall_entry
        /\ pc' = pc /\ saved' = saved /\ current' = current /\ state' = state
    BY <1>8 DEF sys_getkey, syscall_dispatch, InUser
  <2>2. frame' = frame
    BY <2>1, FramesSpared
  <2>3. QED
    BY <2>1, <2>2 DEF Resumable, Conts, BootConts, SyscallConts
<1>9. CASE kernel_main_sti \/ irq_common_stub \/ process_trampoline_fn \/ sysret
           \/ page_fault_handler
  <2>1. /\ pc \notin BootConts \cup {"b1"}
        /\ pc' \in {"b0", "thread", "hung"} /\ (pc' = "b0" => pc = "init")
        /\ saved' = saved /\ frame' = frame /\ current' = current /\ state' = state
    BY <1>9 DEF kernel_main_sti, irq_common_stub, process_trampoline_fn, sysret,
       page_fault_handler, InUser, BootConts, Resumable
  <2>2. QED
    BY <2>1 DEF Resumable, BootConts
<1>10. CASE sys_read \/ sys_read_wait \/ sys_read_char
  BY <1>10 DEF sys_read, sys_read_wait, sys_read_char, InUser, OneProgram, Resumable
<1>11. CASE UNCHANGED vars
  BY <1>11 DEF vars, Resumable
<1>12. QED
  BY <1>2, <1>3, <1>4, <1>5, <1>6, <1>7, <1>8, <1>9, <1>10, <1>11, SMTT(60)
     DEF Next, Interrupt, Syscall, KernelStep

(* Control stays in the program: with one user process, for every length   *)
(* of the list and every position of the process in it, no context switch  *)
(* returns through an overwritten frame and sys_exit never comes back.     *)
THEOREM ControlStaysIntact ==
    ASSUME OneProgram
    PROVE  Spec => []ControlIntact
<1>1. Init => Resumable
  BY DEF Init, Resumable, BootConts
<1>2. IInv /\ Resumable /\ [Next]_vars => Resumable'
  BY NextResumable
<1>3. Resumable => ControlIntact
  BY DEF Resumable, ControlIntact
<1>4. QED
  BY <1>1, <1>2, <1>3, InitIInv, NextIInv, PTL DEF Spec

(* Under the same conditions context_switch always resumes the latest      *)
(* context of the process it picks: none is resumed twice.                 *)
THEOREM LandsOnLatest ==
    ASSUME OneProgram
    PROVE  Spec => LandsOnLatestContext
<1> DEFINE Lands == (pc' \in Conts \cup {"wild"} /\ (current' # current \/ pc = "b1"))
                       => frame[current'] = "live"
<1>1. Init => Resumable
  BY DEF Init, Resumable, BootConts
<1>2. IInv /\ Resumable /\ [Next]_vars => Resumable'
  BY NextResumable
<1>3. IInv /\ Resumable /\ [Next]_vars => [Lands]_vars
  BY NextResumable
<1>4. QED
  BY <1>1, <1>2, <1>3, InitIInv, NextIInv, PTL DEF Spec, LandsOnLatestContext

=============================================================================
