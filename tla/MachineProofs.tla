---------------------------- MODULE MachineProofs ----------------------------
(***************************************************************************)
(* Proofs about Machine, for any wired interrupt lines, any exceptions a   *)
(* program raises for which CPU and stub agree about the error code, and   *)
(* any calls its library makes.  A thread is in one of a few places; what  *)
(* its kernel stack holds at each is a function of the registers the       *)
(* thread expects back.                                                    *)
(***************************************************************************)
EXTENDS MachineBootProofs

-----------------------------------------------------------------------------
(* The steps in and out of the kernel.                                     *)

(* A non-specific end of interrupt releases line 0, and line 1 when it is  *)
(* the first in service.                                                   *)
LEMMA EoiFacts ==
    ASSUME NEW irq \in 0 .. 7, isr \subseteq 0 .. 15, pic_send_eoi(irq)
    PROVE  /\ isr' \subseteq isr /\ UNCHANGED <<imr, irr, icw2>>
           /\ 0 \notin isr' /\ (0 \notin isr => 1 \notin isr')
<1>1. isr' = isr \ Served(0 .. 7) /\ UNCHANGED <<imr, irr, icw2>>
  BY DEF pic_send_eoi
<1>2. 0 \in isr => 0 \in Served(0 .. 7)
  BY DEF Served
<1>3. 0 \notin isr /\ 1 \in isr => 1 \in Served(0 .. 7)
  BY DEF Served
<1>4. QED
  BY <1>1, <1>2, <1>3

(* A call of C code keeps the selectors, the stack pointer and the callee- *)
(* saved registers.                                                        *)
LEMMA ClobberedFacts ==
    ASSUME NEW rg, IsRegs(rg)
    PROVE  /\ IsRegs(Clobbered(rg)) /\ Clobbered(rg)["cs"] = rg["cs"] /\ Clobbered(rg)["ss"] = rg["ss"]
           /\ \A r \in CalleeSaved \cup {"rsp"} : Clobbered(rg)[r] = rg[r]
<1>1. CalleeSaved \cup {"rsp", "cs", "ss"} \subseteq Regs \ CallerSaved
  BY DEF CalleeSaved, CallerSaved, Regs, Gpr, Gprs
<1>2. QED
  BY <1>1 DEF Clobbered, IsRegs

(* The way into the kernel through a gate.                                 *)
LEMMA EnterFacts ==
    ASSUME IInv, Runs, NEW v \in Vectors, v \in gates, Enter(v)
    PROVE  /\ pc' = IF v < 32 THEN "isr" ELSE "irq"
           /\ stack' = Frame(own, v) /\ vec' = v /\ UNCHANGED <<step, tables, own, proc, trap>>
           /\ IsRegs(reg') /\ reg'["cs"] = Sel(8) /\ reg'["ss"] \in {Sel(0), Sel(16)}
<1>1. reg = own /\ stack = <<>> /\ IsRegs(own) /\ (pc # "user" => own["ss"] \in {Sel(0), Sel(16)})
  BY DEF IInv, Running, Runs, KernelOwn, UserOwn, InTrap
<1>2. isr_common_stub(v) = Frame(own, v)
  BY <1>1 DEF isr_common_stub, Frame, Pushed, From
<1>3. stack' = Frame(own, v)
  BY <1>1, <1>2, FrameFacts, SMTT(60) DEF Enter
<1>4. pc' = (IF v < 32 THEN "isr" ELSE "irq") /\ vec' = v /\ UNCHANGED <<step, tables, own, proc, trap>>
  BY DEF Enter
<1>5. reg' = [own EXCEPT !["cs"] = Sel(8), !["ss"] = IF pc = "user" THEN Sel(0) ELSE @,
                         !["rflags"] = Flag(0), !["rip"] = <<"kernel", "rip">>,
                         !["rsp"] = <<"kernel", "rsp">>, !["rdi"] = <<"kernel", "regs">>]
  BY <1>1 DEF Enter
<1>6. "cs" \in Regs /\ "ss" \in Regs
  BY DEF Regs
<1>7. IsRegs(reg')
  <2>1. DOMAIN reg' = DOMAIN own /\ DOMAIN own = Regs
    BY <1>1, <1>5 DEF IsRegs
  <2>2. reg' = [r \in DOMAIN reg' |-> reg'[r]]
    BY <1>5, Zenon
  <2>3. QED
    BY <2>1, <2>2 DEF IsRegs
<1>8. reg'["cs"] = Sel(8)
  BY <1>1, <1>5, <1>6 DEF IsRegs
<1>9. reg'["ss"] = IF pc = "user" THEN Sel(0) ELSE own["ss"]
  BY <1>1, <1>5, <1>6, SMTT(60) DEF IsRegs
<1>10. QED
  BY <1>1, <1>3, <1>4, <1>7, <1>8, <1>9, SMTT(60)

(* Where the thread that has the CPU can be, whose turn it is, and what    *)
(* follows for its registers.                                              *)
LEMMA Places ==
    ASSUME IInv
    PROVE  /\ IsRegs(own)
           /\ \/ step <= 20 /\ KernelOwn(own, "main") /\ Turn = "main" /\ pc \in {"main"} \cup InTrap
              \/ step = 21 /\ KernelOwn(own, "idle") /\ Turn = "idle" /\ pc \in {"idle"} \cup InTrap
              \/ /\ step = 21 /\ UserOwn(own) /\ Turn = "user"
                 /\ pc \in {"user", "isr", "entry", "service", "sysret", "halted"} \cup InTrap
              \/ step = 21 /\ KernelOwn(own, "main") /\ Turn = "user" /\ pc = "new"
           /\ Runs => served = <<>> \/ (Turn # "user" /\ parked.pc \in {"sysret", "dead"})
<1>1. IsRegs(own)
  BY DEF IInv, Running, KernelOwn, UserOwn
<1>2. pc # "new" => Turn = own["rip"][2]
  BY DEF Turn
<1>3. pc = "new" => Turn = "user"
  BY DEF Turn
<1>4. \A p : KernelOwn(own, p) => own["rip"][2] = p
  BY DEF KernelOwn
<1>5. UserOwn(own) => own["rip"][2] = "user"
  BY DEF UserOwn
<1>6. \/ step <= 20 /\ KernelOwn(own, "main") /\ Turn = "main" /\ pc \in {"main"} \cup InTrap
      \/ step = 21 /\ KernelOwn(own, "idle") /\ Turn = "idle" /\ pc \in {"idle"} \cup InTrap
      \/ /\ step = 21 /\ UserOwn(own) /\ Turn = "user"
         /\ pc \in {"user", "isr", "entry", "service", "sysret", "halted"} \cup InTrap
      \/ step = 21 /\ KernelOwn(own, "main") /\ Turn = "user" /\ pc = "new"
  BY <1>2, <1>3, <1>4, <1>5, SMTT(60) DEF IInv, Running, InTrap
<1>7. Runs => served = <<>> \/ (Turn # "user" /\ parked.pc \in {"sysret", "dead"})
  BY DEF IInv, Serving, Runs
<1>8. QED
  BY <1>1, <1>6, <1>7, SMTT(60)

(* In the program's code and in its calls.                                 *)
LEMMA ProgramPlace ==
    ASSUME IInv, pc \in {"user", "isr", "entry", "service", "sysret"}
    PROVE  /\ step = 21 /\ UserOwn(own) /\ Turn = "user" /\ star = <<16, 8>>
           /\ pc = "user" => reg = own /\ served = <<>>
           /\ pc \in {"user", "entry"} => stack = <<>>
           /\ pc \in {"service", "sysret"} => stack = SysFrame(own)
<1>1. step = 21 /\ UserOwn(own) /\ Turn = "user"
  BY Places DEF InTrap
<1>2. star = <<16, 8>>
  <2>1. star = IF step > 3 THEN <<16, 8>> ELSE <<0, 0>>
    BY Zenon DEF IInv, Booted
  <2>2. QED
    BY <1>1, <2>1
<1>3. /\ Runs => reg = own
      /\ pc \in {"main", "idle", "user", "entry", "new"} => stack = <<>>
      /\ pc \in {"service", "sysret"} => stack = SysFrame(own)
  BY Zenon DEF IInv, Running
<1>4. Runs => served = <<>>
  BY <1>1, Places, Zenon
<1>5. pc = "user" => Runs
  BY Zenon DEF Runs
<1>6. QED
  BY <1>1, <1>2, <1>3, <1>4, <1>5, Zenon

(* In the entry and the exit of an interrupt.                              *)
LEMMA TrapPlace ==
    ASSUME IInv, pc \in InTrap
    PROVE  /\ \/ step <= 20 /\ KernelOwn(own, "main") /\ Turn = "main"
              \/ step = 21 /\ KernelOwn(own, "idle") /\ Turn = "idle"
              \/ step = 21 /\ UserOwn(own) /\ Turn = "user"
           /\ own["rip"] = <<"rip", Turn>>
<1>1. \/ step <= 20 /\ KernelOwn(own, "main") /\ Turn = "main"
      \/ step = 21 /\ KernelOwn(own, "idle") /\ Turn = "idle"
      \/ step = 21 /\ UserOwn(own) /\ Turn = "user"
  <2>1. pc # "new"
    BY DEF InTrap
  <2>2. QED
    BY <2>1, Places, Zenon
<1>2. own["rip"] = <<"rip", Turn>>
  BY <1>1, Zenon DEF KernelOwn, UserOwn
<1>3. QED
  BY <1>1, <1>2, Zenon

(* The last step of kernel_main.                                           *)
LEMMA StartStep ==
    ASSUME IInv, scheduler_start
    PROVE  IInv'
<1>1. /\ step = 20 /\ step' = 21 /\ pc = "main" /\ pc' = "idle" /\ served' = served /\ served = <<>>
      /\ stack' = <<>> /\ parked' = parked /\ UNCHANGED <<tables, use_linux_abi>>
  BY BootFacts, OrderFacts, SMTT(60) DEF scheduler_start, Main, trap, proc
<1>2. own' = KernelRegs("idle", 8, 16, 1) /\ reg' = own'
  BY DEF scheduler_start
<1>3. KernelOwn(own', "idle") /\ Turn' = "idle"
  BY <1>1, <1>2, KernelRegsFacts DEF KernelOwn, Turn
<1>4. isr' \subseteq isr /\ UNCHANGED <<imr, irr, icw2>> /\ 0 \notin isr' /\ 1 \notin isr'
  <2>1. pic_send_eoi(0) /\ isr \subseteq 0 .. 15 /\ 0 \in 0 .. 7
    BY DEF scheduler_start, IInv, Lines
  <2>2. 0 \notin isr
    BY <1>1, BootFacts
  <2>3. QED
    BY <2>1, <2>2, EoiFacts, ZenonT(60)
<1>5. Booted'
  BY <1>1, <1>4 DEF IInv, Booted, tables
<1>6. Running'
  BY <1>1, <1>2, <1>3, SMTT(60) DEF Running, Runs
<1>7. Waiting'
  BY <1>1, <1>3, BootFacts DEF IInv, Waiting
<1>8. Lines'
  BY <1>1, <1>3, <1>4, SMTT(60) DEF IInv, Lines
<1>9. Serving'
  BY <1>1 DEF IInv, Serving
<1>10. QED
  BY <1>5, <1>6, <1>7, <1>8, <1>9, SMTT(60) DEF IInv

(* Entering through a gate, up to what becomes of the lines.               *)
LEMMA GateStep ==
    ASSUME IInv, Runs, NEW v \in Vectors, v \in gates, Enter(v), icw2' = icw2,
           IF v < 32 THEN pc = "user" /\ v \in Faults ELSE step > 15
    PROVE  Booted' /\ Running' /\ Waiting' /\ Serving' /\ Turn' = Turn
<1> USE EnterFacts
<1>1. pc' = (IF v < 32 THEN "isr" ELSE "irq") /\ pc # "new"
  BY DEF Runs
<1>2. Turn' = Turn
  BY <1>1 DEF Turn
<1>3. Booted'
  BY DEF IInv, Booted, tables
<1>4. Running'
  <2>1. \/ step <= 20 /\ KernelOwn(own, "main") /\ pc' = "irq" /\ (own["rflags"] = Flag(1) => step > 15)
        \/ step = 21 /\ KernelOwn(own, "idle") /\ pc' = "irq"
        \/ step = 21 /\ UserOwn(own) /\ pc' \in {"isr", "irq"}
    BY <1>1, SMTT(60) DEF IInv, Running, Runs, InTrap
  <2>2. v < 32 \/ v \in 32 .. 47
    BY DEF Vectors
  <2>3. step \in 1 .. 21 /\ step > 15
    BY <2>1 DEF IInv, Booted, Running, Runs, InTrap
  <2>4. QED
    BY <1>1, <2>1, <2>2, <2>3, SMTT(60) DEF Running, Runs, InTrap
<1>5. Waiting'
  BY <1>2 DEF IInv, Waiting, proc
<1>6. Serving'
  BY <1>1, <1>2, Places, SMTT(60) DEF IInv, Serving, proc, trap
<1>7. QED
  BY <1>2, <1>3, <1>4, <1>5, <1>6, SMTT(60)

(* An interrupt arrives only after `sti', when everything it needs is set  *)
(* up, and only when neither the timer's nor the keyboard's line is in     *)
(* service.                                                                *)
LEMMA InterruptStep ==
    ASSUME IInv, NEW l \in Wired, interrupt(l)
    PROVE  IInv'
<1>1. Runs /\ own["rflags"] = Flag(1) /\ Acknowledge(l) /\ Unblocked(l) /\ Enter(vector(l))
  BY DEF interrupt, InterruptsOn, IInv, Running, Presented, Raised
<1>2. step > 15
  BY <1>1 DEF IInv, Running, Runs, InTrap, Booted
<1>3. l \in (0 .. 15) \ {2}
  BY PicAssumption
<1>4. gates = 0 .. 47 /\ icw2 = <<32, 40>>
  BY <1>2 DEF IInv, Booted
<1>5. vector(l) = 32 + l
  BY <1>3, <1>4 DEF vector
<1>6. 32 + l \in Vectors /\ 32 + l \in gates /\ ~(32 + l < 32)
  BY <1>3, <1>4 DEF Vectors, CpuErrorCode, ISR_ERR
<1>7. Enter(32 + l) /\ icw2' = icw2
  BY <1>1, <1>5 DEF Acknowledge
<1>8. Booted' /\ Running' /\ Waiting' /\ Serving' /\ Turn' = Turn
  BY <1>1, <1>2, <1>6, <1>7, GateStep, SMTT(60)
<1>9. pc' = "irq" /\ vec' = 32 + l
  BY <1>1, <1>6, <1>7, EnterFacts, SMTT(60)
<1>10. 0 \notin isr /\ 1 \notin isr
  BY <1>1, <1>3, SMTT(60) DEF Unblocked, IInv, Lines, Runs
<1>11. Lines'
  BY <1>1, <1>3, <1>9, <1>10, SMTT(60) DEF IInv, Lines, Acknowledge
<1>12. QED
  BY <1>8, <1>11 DEF IInv

(* The program raises an exception.                                        *)
LEMMA ExceptionStep ==
    ASSUME IInv, NEW v \in Faults, exception(v)
    PROVE  IInv'
<1>1. pc = "user" /\ Runs /\ Enter(v) /\ UNCHANGED pic
  BY DEF exception, Runs
<1>2. v \in Vectors /\ v < 32
  BY MachineAssumption DEF Vectors, CpuErrorCode, ISR_ERR
<1>3. v \in gates
  <2>1. step = 21
    BY <1>1, ProgramPlace, Zenon
  <2>2. QED
    BY <1>2, <2>1 DEF IInv, Booted, Vectors
<1>4. icw2' = icw2
  BY <1>1 DEF pic
<1>5. Booted' /\ Running' /\ Waiting' /\ Serving' /\ Turn' = Turn
  BY <1>1, <1>2, <1>3, <1>4, GateStep, SMTT(60)
<1>6. pc' = "isr" /\ Turn = "user"
  BY <1>1, <1>2, <1>3, EnterFacts, ProgramPlace, SMTT(60)
<1>7. Lines'
  BY <1>1, <1>5, <1>6, SMTT(60) DEF IInv, Lines, pic
<1>8. QED
  BY <1>5, <1>7 DEF IInv

(* Which handler the number on the stack selects.                          *)
LEMMA Selected ==
    ASSUME IInv, pc \in {"isr", "irq"}
    PROVE  /\ Field("int_no") = <<"int_no", vec>>
           /\ isr_handler = IF vec \in DOMAIN handlers THEN HandlerOf(vec) ELSE "NULL"
<1>1. vec \in Vectors /\ stack = Frame(own, vec)
  BY DEF IInv, Running
<1>2. Field("int_no") = <<"int_no", vec>>
  BY <1>1, FieldFacts, SMTT(60)
<1>3. QED
  BY <1>2 DEF isr_handler, IInv, Booted

(* After the handler of an exception.                                      *)
LEMMA IsrStep ==
    ASSUME IInv, isr_common_handler
    PROVE  IInv'
<1>1. /\ pc = "isr" /\ pc' \in {"halted", "iret"} /\ reg' = Clobbered(reg)
      /\ UNCHANGED <<step, tables, vec, own, stack, proc, trap, pic>>
  BY DEF isr_common_handler, page_fault_handler, ud_handler
<1>2. step = 21 /\ UserOwn(own) /\ Turn = "user" /\ Turn' = "user"
  <2>1. step = 21 /\ UserOwn(own) /\ Turn = "user"
    BY <1>1, ProgramPlace, Zenon
  <2>2. QED
    BY <1>1, <2>1 DEF Turn
<1>3. IsRegs(reg') /\ reg'["cs"] = Sel(8) /\ reg'["ss"] \in {Sel(0), Sel(16)}
  BY <1>1, ClobberedFacts, SMTT(60) DEF IInv, Running, Runs
<1>4. HasFrame(stack, own)
  BY <1>1 DEF IInv, Running, HasFrame
<1>5. Booted'
  BY <1>1 DEF IInv, Booted, tables, pic
<1>6. Running'
  BY <1>1, <1>2, <1>3, <1>4, SMTT(60) DEF Running, Runs, InTrap
<1>7. Waiting'
  BY <1>1, <1>2 DEF IInv, Waiting, proc
<1>8. Lines'
  BY <1>1, <1>2, SMTT(60) DEF IInv, Lines, pic
<1>9. Serving'
  BY <1>1, <1>2 DEF IInv, Serving, proc, trap
<1>10. QED
  BY <1>5, <1>6, <1>7, <1>8, <1>9 DEF IInv

(* The same thread goes on inside the kernel, its frame still on its       *)
(* stack.                                                                  *)
LEMMA OnTheWayOut ==
    ASSUME IInv, pc \in {"irq", "eoi"}, pc' \in {"eoi", "iret"}, reg' = Clobbered(reg),
           UNCHANGED <<step, tables, own, stack, proc, trap>>, icw2' = icw2
    PROVE  Booted' /\ Running' /\ Waiting' /\ Serving' /\ Turn' = Turn
<1>1. Turn' = Turn
  BY DEF Turn
<1>2. IsRegs(reg') /\ reg'["cs"] = Sel(8) /\ reg'["ss"] \in {Sel(0), Sel(16)}
  BY ClobberedFacts DEF IInv, Running, Runs
<1>3. HasFrame(stack, own)
  BY DEF IInv, Running, HasFrame
<1>4. Booted'
  BY DEF IInv, Booted, tables
<1>5. Running'
  BY <1>2, <1>3 DEF IInv, Running, Runs, InTrap
<1>6. Waiting'
  BY <1>1 DEF IInv, Waiting, proc
<1>7. Serving'
  BY <1>1 DEF IInv, Serving, proc, trap
<1>8. QED
  BY <1>1, <1>4, <1>5, <1>6, <1>7, SMTT(60)

(* A switch from thread to thread, whose halves are the tick's and a       *)
(* service's: what one leaves the other finds.                             *)
LEMMA SwitchStep ==
    ASSUME IInv, NEW k, context_switch(k), parked.pc \in {"new", "eoi", "sysret"}, step = 21,
           UNCHANGED <<step, tables, use_linux_abi, trap, pic>>,
           \/ pc = "irq" /\ k = "eoi" /\ (KernelOwn(own, "idle") \/ UserOwn(own)) /\ 1 \notin isr
           \/ pc = "service" /\ k \in {"sysret", "dead"}
    PROVE  IInv'
<1>1. /\ parked' = [pc |-> k, stack |-> stack, own |-> own] /\ reg' = Clobbered(reg)
      /\ pc' = parked.pc /\ stack' = parked.stack /\ own' = parked.own
  BY DEF context_switch
<1>2. parked'.pc = k /\ parked'.stack = stack /\ parked'.own = own
  BY <1>1, SMTT(60)
<1>3. IsRegs(reg') /\ reg'["cs"] = Sel(8) /\ reg'["ss"] \in {Sel(0), Sel(16)}
  BY <1>1, ClobberedFacts, SMTT(60) DEF IInv, Running, Runs
<1>4. Booted'
  BY DEF IInv, Booted, tables, pic
<1>5. Lines'
  BY <1>1 DEF IInv, Lines, pic
<1>6. CASE KernelOwn(own, "idle")
  <2>1. pc = "irq" /\ k = "eoi" /\ Turn = "idle"
    BY <1>6, Places, SMTT(60) DEF KernelOwn, UserOwn, InTrap
  <2>2. HasFrame(stack, own)
    BY <2>1 DEF IInv, Running, HasFrame
  <2>3. \/ pc' = "new" /\ stack' = <<>> /\ KernelOwn(own', "main")
        \/ /\ UserOwn(own')
           /\ \/ pc' = "eoi" /\ HasFrame(stack', own')
              \/ pc' = "sysret" /\ stack' = SysFrame(own')
    BY <1>1, <2>1, SMTT(60) DEF IInv, Waiting
  <2>4. Turn' = "user"
    BY <2>3, SMTT(60) DEF Turn, UserOwn
  <2>5. Running'
    BY <1>3, <2>3, SMTT(60) DEF Running, Runs, InTrap
  <2>6. Waiting'
    BY <1>1, <1>2, <1>6, <2>1, <2>2, <2>4, SMTT(60) DEF Waiting
  <2>7. served # <<>> => pc' = "sysret"
    BY <1>1, <2>1, SMTT(60) DEF IInv, Serving
  <2>8. Serving'
    BY <2>3, <2>4, <2>7, SMTT(60) DEF IInv, Serving, trap
  <2>9. QED
    BY <1>4, <1>5, <2>5, <2>6, <2>8, SMTT(60) DEF IInv
<1>7. CASE UserOwn(own)
  <2>1. Turn = "user" /\ pc # "new"
    BY <1>7 DEF UserOwn, Turn
  <2>2. pc' = "eoi" /\ KernelOwn(own', "idle") /\ HasFrame(stack', own')
    BY <1>1, <2>1 DEF IInv, Waiting
  <2>3. Turn' = "idle"
    BY <2>2 DEF Turn, KernelOwn
  <2>4. \/ k = "eoi" /\ HasFrame(stack, own)
        \/ k \in {"sysret", "dead"} /\ stack = SysFrame(own)
    BY DEF IInv, Running, HasFrame
  <2>5. Running'
    BY <1>3, <2>2 DEF Running, Runs, InTrap
  <2>6. Waiting'
    BY <1>1, <1>2, <1>7, <2>3, <2>4, SMTT(60) DEF Waiting
  <2>7. served # <<>> => k \in {"sysret", "dead"}
    BY <2>1 DEF IInv, Serving
  <2>8. Serving'
    BY <1>2, <2>2, <2>3, <2>7, SMTT(60) DEF IInv, Serving, trap
  <2>9. QED
    BY <1>4, <1>5, <2>5, <2>6, <2>8 DEF IInv
<1>8. QED
  BY <1>6, <1>7, Places, SMTT(60) DEF InTrap

(* A tick, a key or a line without a handler.                              *)
LEMMA IrqStep ==
    ASSUME IInv, irq_common_handler
    PROVE  IInv'
<1>1. pc = "irq" /\ vec \in 32 .. 47 /\ step > 15 /\ UNCHANGED <<step, tables, vec, use_linux_abi, trap>>
  BY DEF irq_common_handler, IInv, Running
<1>2. isr_handler = IF vec = 32 THEN "timer_handler"
                    ELSE IF vec = 33 THEN "keyboard_handler" ELSE "NULL"
  <2>1. DOMAIN handlers = {6, 14, 33, 32}
    BY <1>1 DEF IInv, Booted
  <2>2. QED
    BY <1>1, <2>1, Selected DEF HandlerOf
<1>3. CASE isr_handler = "timer_handler" /\ timer_handler /\ UNCHANGED pic
  <2>1. vec = 32 /\ 1 \notin isr
    BY <1>1, <1>2, <1>3 DEF IInv, Lines
  <2>2. CASE /\ ~InProgram /\ pc' = "eoi" /\ reg' = Clobbered(reg)
             /\ UNCHANGED <<own, stack, parked>>
    <3>1. Booted' /\ Running' /\ Waiting' /\ Serving' /\ Turn' = Turn
      BY <1>1, <1>3, <2>2, OnTheWayOut DEF pic, proc
    <3>2. Lines'
      BY <1>3, <2>1, <2>2 DEF IInv, Lines, pic
    <3>3. QED
      BY <3>1, <3>2 DEF IInv
  <2>3. CASE /\ parked.pc \in {"new", "eoi", "sysret"} /\ own["rip"] # <<"rip", "main">>
             /\ context_switch("eoi")
    <3>1. step = 21 /\ (KernelOwn(own, "idle") \/ UserOwn(own))
      BY <2>3, Places, SMTT(60) DEF KernelOwn, UserOwn
    <3>2. QED
      BY <1>1, <1>3, <2>1, <2>3, <3>1, SwitchStep, SMTT(60)
  <2>4. QED
    BY <1>3, <2>2, <2>3 DEF timer_handler
<1>4. CASE /\ \/ isr_handler = "keyboard_handler" /\ pic_send_eoi(1)
              \/ isr_handler = "NULL" /\ UNCHANGED pic
           /\ pc' = "iret" /\ reg' = Clobbered(reg)
           /\ UNCHANGED <<own, stack, parked>>
  <2>1. isr \subseteq 0 .. 15 /\ 0 \notin isr
    BY <1>1, <1>2, <1>4 DEF IInv, Lines
  <2>2. isr' \subseteq isr /\ icw2' = icw2 /\ irr' = irr /\ 1 \notin isr'
    <3>1. CASE isr_handler = "keyboard_handler" /\ pic_send_eoi(1)
      <4>1. 1 \in 0 .. 7
        OBVIOUS
      <4>2. QED
        BY <2>1, <3>1, <4>1, EoiFacts, ZenonT(60)
    <3>2. CASE isr_handler = "NULL" /\ UNCHANGED pic
      BY <1>1, <1>2, <3>2 DEF IInv, Lines, pic
    <3>3. QED
      BY <1>4, <3>1, <3>2
  <2>3. Booted' /\ Running' /\ Waiting' /\ Serving' /\ Turn' = Turn
    BY <1>1, <1>4, <2>2, OnTheWayOut, SMTT(60) DEF proc
  <2>4. Lines'
    BY <1>4, <2>1, <2>2, SMTT(60) DEF IInv, Lines
  <2>5. QED
    BY <2>3, <2>4 DEF IInv
<1>5. QED
  BY <1>3, <1>4 DEF irq_common_handler

(* The end of interrupt after a tick, whichever thread sends it.           *)
LEMMA EoiStep ==
    ASSUME IInv, timer_handler_eoi
    PROVE  IInv'
<1>1. /\ pc = "eoi" /\ pc' = "iret" /\ reg' = Clobbered(reg) /\ pic_send_eoi(0)
      /\ UNCHANGED <<step, tables, own, stack, proc, trap>>
  BY DEF timer_handler_eoi
<1>2. isr \subseteq 0 .. 15 /\ 1 \notin isr /\ 0 \in 0 .. 7
  BY <1>1 DEF IInv, Lines
<1>3. isr' \subseteq isr /\ icw2' = icw2 /\ irr' = irr /\ 0 \notin isr'
  BY <1>1, <1>2, EoiFacts, ZenonT(60)
<1>4. Booted' /\ Running' /\ Waiting' /\ Serving' /\ Turn' = Turn
  BY <1>1, <1>3, OnTheWayOut
<1>5. Lines'
  BY <1>1, <1>2, <1>3 DEF IInv, Lines
<1>6. QED
  BY <1>4, <1>5 DEF IInv

(* iretq gives a thread back what it expects.                              *)
LEMMA IretStep ==
    ASSUME IInv, iretq
    PROVE  IInv'
<1>1. pc = "iret" /\ UNCHANGED <<step, tables, vec, own, proc, trap, pic>>
  BY DEF iretq
<1>2. PICK v \in Vectors : stack = Frame(own, v)
  BY <1>1 DEF IInv, Running, HasFrame
<1>3. reg' = own
  <2> DEFINE val(r) == stack[Len(stack) + 1 - CHOOSE i \in DOMAIN Popped : Popped[i] = r]
  <2>1. ASSUME NEW r \in Regs PROVE val(r) = own[r]
    BY <1>2, PopFacts
  <2>2. own = [r \in Regs |-> own[r]]
    BY Places, Zenon DEF IsRegs
  <2>3. reg' = [r \in Regs |-> val(r)]
    BY Zenon DEF iretq
  <2> HIDE DEF val
  <2>4. QED
    BY <2>1, <2>2, <2>3
<1>4. stack' = <<>>
  <2>1. Len(Popped) = 22
    BY PoppedFacts
  <2>2. Len(stack) = 22
    BY <1>2, FrameFacts
  <2>3. stack' = SubSeq(stack, 1, Len(stack) - Len(Popped))
    BY Zenon DEF iretq
  <2>4. Len(stack) - Len(Popped) = 0
    BY <2>1, <2>2
  <2>5. stack' = SubSeq(stack, 1, 0)
    BY <2>3, <2>4, Zenon
  <2>6. QED
    BY <2>5
<1>5. pc' = own["rip"][2]
  <2>1. own["rip"] = <<"rip", Turn>>
    <3>1. pc \in InTrap
      BY <1>1 DEF InTrap
    <3>2. QED
      BY <3>1, TrapPlace, Zenon
  <2>2. pc' = Resume(reg'["rip"])
    BY DEF iretq
  <2>3. QED
    BY <1>3, <2>1, <2>2, SMTT(60) DEF Resume
<1>6. /\ \/ step <= 20 /\ KernelOwn(own, "main") /\ pc' = "main"
         \/ step = 21 /\ KernelOwn(own, "idle") /\ pc' = "idle"
         \/ step = 21 /\ UserOwn(own) /\ pc' = "user"
      /\ Turn' = Turn
  <2>0. pc \in InTrap
    BY <1>1 DEF InTrap
  <2>1. own["rip"][2] = Turn
    <3>1. own["rip"] = <<"rip", Turn>>
      BY <2>0, TrapPlace, Zenon
    <3>2. QED
      BY <3>1
  <2>2. /\ \/ step <= 20 /\ KernelOwn(own, "main") /\ Turn = "main"
           \/ step = 21 /\ KernelOwn(own, "idle") /\ Turn = "idle"
           \/ step = 21 /\ UserOwn(own) /\ Turn = "user"
        /\ pc' = Turn
    BY <1>5, <2>0, <2>1, TrapPlace, Zenon
  <2>3. pc' # "new"
    BY <2>2
  <2>4. Turn' = own["rip"][2]
    BY <1>1, <2>3, Zenon DEF Turn
  <2>5. QED
    BY <2>1, <2>2, <2>4, Zenon
<1>7. Booted'
  BY <1>1, SMTT(60) DEF IInv, Booted, tables, pic
<1>8. Running'
  BY <1>1, <1>3, <1>4, <1>6, ZenonT(60) DEF IInv, Running, Runs, KernelOwn
<1>9. Waiting'
  BY <1>1, <1>6 DEF IInv, Waiting, proc
<1>10. Lines'
  BY <1>1, <1>6 DEF IInv, Lines, pic
<1>11. Serving'
  BY <1>1, <1>6, SMTT(60) DEF IInv, Serving, proc, trap
<1>12. QED
  BY <1>7, <1>8, <1>9, <1>10, <1>11, SMTT(60) DEF IInv

(* The first run of the program.                                           *)
LEMMA FirstRunStep ==
    ASSUME IInv, process_user_trampoline_fn
    PROVE  IInv'
<1>1. /\ pc = "new" /\ pc' = "user" /\ own' = reg' /\ pic_send_eoi(0)
      /\ UNCHANGED <<step, tables, vec, stack, proc, trap>>
  BY DEF process_user_trampoline_fn
<1>2. step = 21 /\ Turn = "user" /\ stack = <<>>
  BY <1>1, Places DEF InTrap, IInv, Running
<1>3. UserOwn(own')
  <2>1. {"rip", "cs", "ss", "rflags"} \subseteq Regs
    BY DEF Regs
  <2>2. own' = [r \in Regs |-> CASE r = "rip" -> <<"rip", "user">> [] r = "cs" -> Sel(35)
                                 [] r = "ss" -> Sel(27) [] r = "rflags" -> Flag(1)
                                 [] OTHER -> <<"user", r>>]
    BY <1>1 DEF process_user_trampoline_fn
  <2>3. IsRegs(own')
    BY <2>2, SMTT(60) DEF IsRegs
  <2>4. QED
    BY <2>1, <2>2, <2>3 DEF UserOwn
<1>4. Turn' = "user"
  BY <1>1, <1>3 DEF Turn, UserOwn
<1>5. isr' \subseteq isr /\ icw2' = icw2 /\ irr' = irr
  <2>1. isr \subseteq 0 .. 15 /\ 0 \in 0 .. 7
    BY DEF IInv, Lines
  <2>2. QED
    BY <1>1, <2>1, EoiFacts, ZenonT(60)
<1>6. Booted'
  BY <1>1, <1>5 DEF IInv, Booted, tables
<1>7. Running'
  BY <1>1, <1>2, <1>3, SMTT(60) DEF Running, Runs
<1>8. Waiting'
  BY <1>1, <1>2, <1>4 DEF IInv, Waiting, proc
<1>9. Lines'
  BY <1>1, <1>4, <1>5 DEF IInv, Lines
<1>10. Serving'
  BY <1>1, <1>2, <1>4 DEF IInv, Serving, proc, trap
<1>11. QED
  BY <1>6, <1>7, <1>8, <1>9, <1>10 DEF IInv

(* The registers after the instruction: the arguments where the caller     *)
(* loaded them, its place and flags where the CPU puts them, its           *)
(* callee-saved registers untouched.                                       *)
LEMMA SyscallRegs ==
    ASSUME IInv, NEW c \in IF use_linux_abi THEN LinuxABI ELSE NativeABI, syscall(c)
    PROVE  /\ IsRegs(reg') /\ reg'["cs"] = Sel(8) /\ reg'["ss"] = Sel(16)
           /\ reg'["rcx"] = own["rip"] /\ reg'["r11"] = own["rflags"] /\ reg'["rsp"] = own["rsp"]
           /\ \A r \in CalleeSaved : reg'[r] = own[r]
           /\ reg'["rax"] = <<"num", c.num>>
           /\ \A i \in DOMAIN c.args : reg'[<<"rdi", "rsi", "rdx">>[i]] = <<"arg", c.args[i]>>
<1> DEFINE args == <<"rdi", "rsi", "rdx">>
           loaded == [r \in Regs |->
               IF r = "rax" THEN <<"num", c.num>>
               ELSE IF \E i \in DOMAIN c.args : args[i] = r
                    THEN <<"arg", c.args[CHOOSE i \in DOMAIN c.args : args[i] = r]>>
                    ELSE reg[r]]
           Set == {"rcx", "r11", "rflags", "rip", "cs", "ss"}
<1>1. pc = "user" /\ reg = own /\ star = <<16, 8>>
  BY ProgramPlace, Zenon DEF syscall
<1>2. reg' = [loaded EXCEPT !["rcx"] = own["rip"], !["r11"] = own["rflags"], !["rflags"] = Flag(0),
                            !["rip"] = <<"rip", "entry">>, !["cs"] = Sel(8), !["ss"] = Sel(16)]
  BY <1>1 DEF syscall
<1>3. DOMAIN loaded = Regs
  OBVIOUS
<1>4. DOMAIN c.args \subseteq 1 .. 3
  BY ArgumentCount
<1>5. "rax" \in Regs /\ loaded["rax"] = <<"num", c.num>>
  BY DEF Regs, Gpr, Gprs
<1>6. \A r \in Regs \ {"rax", "rdi", "rsi", "rdx"} : loaded[r] = own[r]
  BY <1>1, <1>4
<1>7. \A i \in DOMAIN c.args : args[i] \in Regs /\ loaded[args[i]] = <<"arg", c.args[i]>>
  <2> TAKE i \in DOMAIN c.args
  <2>1. i \in 1 .. 3
    BY <1>4
  <2>2. args[i] \in Regs /\ args[i] # "rax"
    BY <2>1 DEF Regs, Gpr, Gprs
  <2>3. \A j \in DOMAIN c.args : args[j] = args[i] => j = i
    BY <1>4, <2>1
  <2>4. (CHOOSE j \in DOMAIN c.args : args[j] = args[i]) = i
    BY <2>3
  <2> HIDE DEF args
  <2>5. QED
    BY <2>2, <2>4, ZenonT(60)
<1> HIDE DEF loaded
<1>8. DOMAIN reg' = Regs /\ reg' = [r \in DOMAIN reg' |-> reg'[r]]
  BY <1>2, <1>3, ZenonT(60)
<1>9. \A r \in Regs \ Set : reg'[r] = loaded[r]
  BY <1>2, <1>3
<1>10. Set \subseteq Regs
  BY DEF Regs, Gpr, Gprs
<1>11. reg'["rcx"] = own["rip"] /\ reg'["r11"] = own["rflags"]
  BY <1>2, <1>3, <1>10, SMTT(60)
<1>12. reg'["cs"] = Sel(8) /\ reg'["ss"] = Sel(16)
  BY <1>2, <1>3, <1>10, SMTT(60)
<1>13. CalleeSaved \cup {"rsp"} \subseteq Regs \ (Set \cup {"rax", "rdi", "rsi", "rdx"})
  BY DEF CalleeSaved, Regs, Gpr, Gprs
<1>14. \A r \in CalleeSaved \cup {"rsp"} : reg'[r] = own[r]
  BY <1>6, <1>9, <1>13, SMTT(60)
<1>15. reg'["rax"] = <<"num", c.num>>
  BY <1>5, <1>9
<1>16. \A i \in DOMAIN c.args : reg'[args[i]] = <<"arg", c.args[i]>>
  <2>1. \A i \in 1 .. 3 : args[i] \notin Set
    OBVIOUS
  <2> HIDE DEF args
  <2>2. QED
    BY <1>4, <1>7, <1>9, <2>1, SMTT(60)
<1>17. IsRegs(reg')
  BY <1>8 DEF IsRegs
<1>18. QED
  BY <1>11, <1>12, <1>14, <1>15, <1>16, <1>17, SMTT(60)

(* The program makes a call.                                               *)
LEMMA SyscallStep ==
    ASSUME IInv, NEW c \in IF use_linux_abi THEN LinuxABI ELSE NativeABI, syscall(c)
    PROVE  IInv'
<1>1. /\ pc = "user" /\ pc' = "entry" /\ call' = c
      /\ UNCHANGED <<step, tables, vec, own, stack, proc, served, pic>>
  BY DEF syscall
<1>2. step = 21 /\ UserOwn(own) /\ Turn = "user" /\ stack = <<>> /\ served = <<>>
  BY <1>1, ProgramPlace, Zenon
<1>3. Turn' = "user"
  BY <1>1, <1>2 DEF Turn
<1>4. Booted'
  BY <1>1 DEF IInv, Booted, tables, pic
<1>5. Running'
  BY <1>1, <1>2, SyscallRegs, SMTT(60) DEF Running, Runs
<1>6. Waiting'
  BY <1>1, <1>2, <1>3, SMTT(60) DEF IInv, Waiting, proc
<1>7. Lines'
  BY <1>1, <1>3 DEF IInv, Lines, pic
<1>8. Serving'
  <2>1. use_linux_abi \in BOOLEAN
    BY DEF IInv, Serving
  <2>2. Entered'
    BY <1>1, SyscallRegs DEF Entered, proc
  <2>3. QED
    BY <1>1, <1>2, <2>1, <2>2, SMTT(60) DEF Serving, proc
<1>9. QED
  BY <1>4, <1>5, <1>6, <1>7, <1>8, SMTT(60) DEF IInv

(* syscall_entry saves what its end gives back, and the switch for the     *)
(* program's ABI finds the service the caller meant.                       *)
LEMMA EntryStep ==
    ASSUME IInv, syscall_entry
    PROVE  IInv'
<1> DEFINE names == <<"rcx", "r11", "rbp", "rbx", "r12", "r13", "r14", "r15", "rsp">>
<1>1. /\ pc = "entry" /\ pc' = "service" /\ stack' = stack \o Pushed(names)
      /\ UNCHANGED <<step, tables, vec, own, proc, call, pic>>
  BY DEF syscall_entry
<1>2. step = 21 /\ UserOwn(own) /\ Turn = "user" /\ Turn' = "user" /\ stack = <<>>
  <2>1. step = 21 /\ UserOwn(own) /\ Turn = "user" /\ stack = <<>>
    BY <1>1, ProgramPlace, Zenon
  <2>2. QED
    BY <1>1, <2>1 DEF Turn
<1>3. Entered
  BY <1>1 DEF IInv, Serving
<1>4. stack' = SysFrame(own)
  <2> DEFINE s == Pushed(names)
  <2>1. s = SysFrame(own)
    BY <1>3 DEF Entered, Pushed, SysFrame, From, SyscallPushes, CalleeSaved
  <2>2. s \in Seq({reg[names[i]] : i \in 1 .. 9})
    BY DEF Pushed
  <2> HIDE DEF s
  <2>3. <<>> \o s = s
    BY <2>2
  <2>4. stack' = s
    BY <1>1, <1>2, <2>3, ZenonT(60) DEF s
  <2>5. QED
    BY <2>1, <2>4
<1>5. served' = call.asks
  <2> DEFINE n == reg["rax"][2]
             x == reg["rdi"][2]
             y == reg["rsi"][2]
             z == reg["rdx"][2]
  <2>1. served' = syscall_dispatch(use_linux_abi, n, x, y, z)
    BY DEF syscall_entry
  <2>2. n = call.num /\ Arguments(call, x, y, z)
    <3> DEFINE args == <<"rdi", "rsi", "rdx">>
    <3>1. \A i \in DOMAIN call.args : reg[args[i]] = <<"arg", call.args[i]>>
      BY <1>3 DEF Entered
    <3>2. args[1] = "rdi" /\ args[2] = "rsi" /\ args[3] = "rdx"
      OBVIOUS
    <3> HIDE DEF args
    <3>3. /\ 1 \in DOMAIN call.args => reg["rdi"] = <<"arg", call.args[1]>>
          /\ 2 \in DOMAIN call.args => reg["rsi"] = <<"arg", call.args[2]>>
          /\ 3 \in DOMAIN call.args => reg["rdx"] = <<"arg", call.args[3]>>
      BY <3>1, <3>2, ZenonT(60)
    <3>4. Arguments(call, x, y, z)
      BY <3>3 DEF Arguments
    <3>5. reg["rax"] = <<"num", call.num>>
      BY <1>3 DEF Entered
    <3>6. QED
      BY <3>4, <3>5
  <2>3. call \in IF use_linux_abi THEN LinuxABI ELSE NativeABI
    BY <1>3 DEF Entered
  <2> HIDE DEF n, x, y, z
  <2>4. CASE use_linux_abi
    BY <2>1, <2>2, <2>3, <2>4, LinuxServed, SMTT(60) DEF syscall_dispatch
  <2>5. CASE ~use_linux_abi
    BY <2>1, <2>2, <2>3, <2>5, NativeServed, SMTT(60) DEF syscall_dispatch
  <2>6. QED
    BY <2>4, <2>5
<1>6. IsRegs(reg') /\ reg'["cs"] = Sel(8) /\ reg'["ss"] \in {Sel(0), Sel(16)}
  <2> DEFINE o == Clobbered(reg)
  <2>1. IsRegs(o) /\ o["cs"] = Sel(8) /\ o["ss"] \in {Sel(0), Sel(16)}
    BY <1>1, ClobberedFacts, SMTT(60) DEF IInv, Running, Runs
  <2>2. reg' = [o EXCEPT !["rsp"] = <<"kernel", "rsp">>, !["rax"] = <<"kernel", "result">>]
    BY DEF syscall_entry
  <2> HIDE DEF o
  <2>3. "cs" \in Regs /\ "ss" \in Regs
    BY DEF Regs
  <2>4. DOMAIN o = Regs
    BY <2>1 DEF IsRegs
  <2>5. DOMAIN reg' = Regs /\ reg' = [r \in DOMAIN reg' |-> reg'[r]]
    BY <2>2, <2>4, ZenonT(60)
  <2>6. reg'["cs"] = o["cs"] /\ reg'["ss"] = o["ss"]
    BY <2>2, <2>3, <2>4, SMTT(60)
  <2>7. QED
    BY <2>1, <2>5, <2>6, SMTT(60) DEF IsRegs
<1>7. Booted'
  BY <1>1 DEF IInv, Booted, tables, pic
<1>8. Running'
  BY <1>1, <1>2, <1>4, <1>6, SMTT(60) DEF Running, Runs
<1>9. Waiting'
  BY <1>1, <1>2 DEF IInv, Waiting, proc
<1>10. Lines'
  BY <1>1, <1>2, SMTT(60) DEF IInv, Lines, pic
<1>11. Serving'
  BY <1>1, <1>2, <1>5, SMTT(60) DEF IInv, Serving, proc
<1>12. QED
  BY <1>7, <1>8, <1>9, <1>10, <1>11, SMTT(60) DEF IInv

(* A service that gives up the CPU leaves the program's stack as it is.    *)
LEMMA GiveUpStep ==
    ASSUME IInv, give_up_cpu
    PROVE  IInv'
<1> DEFINE k == IF served[1] = "sys_exit" THEN "dead" ELSE "sysret"
<1>1. /\ pc = "service" /\ context_switch(k) /\ k \in {"sysret", "dead"}
      /\ UNCHANGED <<step, tables, vec, use_linux_abi, trap, pic>>
  BY DEF give_up_cpu
<1>2. step = 21 /\ Turn = "user"
  BY <1>1, ProgramPlace, Zenon
<1>3. parked.pc \in {"new", "eoi", "sysret"}
  BY <1>2, SMTT(60) DEF IInv, Waiting
<1> HIDE DEF k
<1>4. QED
  BY <1>1, <1>2, <1>3, SwitchStep, SMTT(60)

(* The other services return at once.                                      *)
LEMMA ReturnStep ==
    ASSUME IInv, return_result
    PROVE  IInv'
<1>1. /\ pc = "service" /\ pc' = "sysret"
      /\ UNCHANGED <<step, tables, vec, reg, own, stack, proc, trap, pic>>
  BY DEF return_result
<1>2. step = 21 /\ UserOwn(own) /\ Turn = "user" /\ Turn' = "user"
  <2>1. step = 21 /\ UserOwn(own) /\ Turn = "user"
    BY <1>1, ProgramPlace, Zenon
  <2>2. QED
    BY <1>1, <2>1 DEF Turn
<1>3. Booted'
  BY <1>1 DEF IInv, Booted, tables, pic
<1>4. Running'
  BY <1>1, <1>2, SMTT(60) DEF IInv, Running, Runs
<1>5. Waiting'
  BY <1>1, <1>2 DEF IInv, Waiting, proc
<1>6. Lines'
  BY <1>1, <1>2 DEF IInv, Lines, pic
<1>7. Serving'
  BY <1>1, <1>2, SMTT(60) DEF IInv, Serving, proc, trap
<1>8. QED
  BY <1>3, <1>4, <1>5, <1>6, <1>7 DEF IInv

(* sysretq gives the program back its place, its flags, its stack and its  *)
(* callee-saved registers, in ring 3.                                      *)
LEMMA SysretStep ==
    ASSUME IInv, sysretq
    PROVE  IInv'
<1> DEFINE Saved == {SyscallPops[i] : i \in DOMAIN SyscallPops}
           val(r) == SysVal(stack, r)
<1>1. /\ pc = "sysret" /\ UNCHANGED <<step, tables, vec, proc, pic>> /\ served' = <<>>
      /\ pc' = Resume(reg'["rip"])
      /\ own' = [r \in Regs |-> IF r \in CallerSaved THEN reg'[r] ELSE own[r]]
  BY DEF sysretq
<1>2. /\ step = 21 /\ UserOwn(own) /\ Turn = "user" /\ stack = SysFrame(own) /\ star = <<16, 8>>
      /\ Len(stack) = 9
  BY <1>1, ProgramPlace, SysFrameFacts, Zenon
<1>3. /\ \A r \in CalleeSaved \cup {"rsp"} : val(r) = own[r]
      /\ val("rcx") = own["rip"] /\ val("r11") = own["rflags"]
  BY <1>2, SysFrameFacts, SMTT(60)
<1>4. reg' = [r \in Regs |-> CASE r \in Saved -> val(r)
                               [] r = "rip" -> val("rcx") [] r = "rflags" -> val("r11")
                               [] r = "cs" -> Sel(35) [] r = "ss" -> Sel(27)
                               [] OTHER -> reg[r]]
  <2>1. star[1] + 16 + 3 = 35 /\ star[1] + 8 + 3 = 27
    BY <1>2
  <2>2. reg' = [r \in Regs |-> CASE r \in Saved -> val(r)
                                 [] r = "rip" -> val("rcx") [] r = "rflags" -> val("r11")
                                 [] r = "cs" -> Sel(star[1] + 16 + 3)
                                 [] r = "ss" -> Sel(star[1] + 8 + 3)
                                 [] OTHER -> reg[r]]
    BY Zenon DEF sysretq, SysVal
  <2>3. QED
    BY <2>1, <2>2
<1>5. Saved = CalleeSaved \cup {"rsp", "r11", "rcx"}
  BY DEF SyscallPops, CalleeSaved
<1> HIDE DEF Saved, val
<1>6. Regs = CallerSaved \cup CalleeSaved \cup {"rip", "rflags", "rsp", "cs", "ss"}
  BY DEF Regs, CallerSaved, Gpr, Gprs, CalleeSaved
<1>7. {"rip", "rflags", "rsp", "cs", "ss"} \cap CallerSaved = {}
  BY DEF CallerSaved, Gpr, Gprs
<1>8. /\ reg'["rip"] = own["rip"] /\ reg'["rflags"] = own["rflags"]
      /\ reg'["cs"] = Sel(35) /\ reg'["ss"] = Sel(27)
      /\ \A r \in CalleeSaved \cup {"rsp"} : reg'[r] = own[r]
  <2>1. {"rip", "rflags", "cs", "ss"} \cap Saved = {}
    BY <1>5 DEF CalleeSaved
  <2>2. QED
    BY <1>3, <1>4, <1>5, <1>6, <2>1, SMTT(60)
<1>9. own["cs"] = Sel(35) /\ own["ss"] = Sel(27) /\ own["rip"] = <<"rip", "user">> /\ own["rflags"] = Flag(1)
  BY <1>2 DEF UserOwn
<1>10. reg' = own'
  <2>1. \A r \in Regs : reg'[r] = own'[r]
    BY <1>1, <1>6, <1>7, <1>8, <1>9, SMTT(60)
  <2>2. DOMAIN reg' = Regs /\ reg' = [r \in DOMAIN reg' |-> reg'[r]]
    BY <1>4
  <2>3. DOMAIN own' = Regs /\ own' = [r \in DOMAIN own' |-> own'[r]]
    BY <1>1, Zenon
  <2>4. QED
    BY <2>1, <2>2, <2>3, SMTT(60)
<1>11. UserOwn(own')
  <2>1. IsRegs(own')
    BY <1>1 DEF IsRegs
  <2>2. QED
    BY <1>8, <1>9, <1>10, <2>1, SMTT(60) DEF UserOwn
<1>12. pc' = "user" /\ Turn' = "user"
  BY <1>1, <1>8, <1>9, <1>10, SMTT(60) DEF Resume, Turn
<1>13. stack' = <<>>
  <2>1. Len(SyscallPops) = 9
    BY DEF SyscallPops
  <2>2. stack' = SubSeq(stack, 1, Len(stack) - Len(SyscallPops))
    BY Zenon DEF sysretq
  <2>3. Len(stack) - Len(SyscallPops) = 0
    BY <1>2, <2>1
  <2>4. stack' = SubSeq(stack, 1, 0)
    BY <2>2, <2>3, ZenonT(60)
  <2>5. QED
    BY <2>4
<1>14. Booted'
  BY <1>1 DEF IInv, Booted, tables, pic
<1>15. Running'
  BY <1>1, <1>2, <1>10, <1>11, <1>12, <1>13, SMTT(60) DEF Running, Runs
<1>16. Waiting'
  BY <1>1, <1>2, <1>12 DEF IInv, Waiting, proc
<1>17. Lines'
  BY <1>1, <1>12 DEF IInv, Lines, pic
<1>18. Serving'
  BY <1>1, <1>12 DEF IInv, Serving, proc
<1>19. QED
  BY <1>14, <1>15, <1>16, <1>17, <1>18 DEF IInv

-----------------------------------------------------------------------------
(* The theorems.                                                           *)

(* Every step preserves the invariant.                                     *)
LEMMA NextIInv == IInv /\ [Next]_vars => IInv'
<1> SUFFICES ASSUME IInv, [Next]_vars PROVE IInv'
  OBVIOUS
<1>1. CASE Kernel
  BY <1>1, BootActions, StartStep, IsrStep, IrqStep, EoiStep, IretStep, FirstRunStep, EntryStep,
     GiveUpStep, ReturnStep, SysretStep, SMTT(60) DEF Kernel
<1>2. ASSUME NEW l \in Wired, Device(l) PROVE IInv'
  <2>1. /\ UNCHANGED <<step, tables, cpu, proc, trap, imr, isr, icw2>>
        /\ irr' \subseteq irr \cup Wired
    BY <1>2 DEF Device, Request
  <2>2. QED
    BY <2>1, RequestOnly
<1>3. ASSUME NEW l \in Wired, interrupt(l) PROVE IInv'
  BY <1>3, InterruptStep
<1>4. CASE Program
  <2>1. ASSUME NEW v \in Faults, exception(v) PROVE IInv'
    BY <2>1, ExceptionStep
  <2>2. ASSUME NEW c \in IF use_linux_abi THEN LinuxCalls ELSE NativeCalls, syscall(c) PROVE IInv'
    <3>1. c \in IF use_linux_abi THEN LinuxABI ELSE NativeABI
      BY <2>2, MachineAssumption
    <3>2. QED
      BY <2>2, <3>1, SyscallStep
  <2>3. QED
    BY <1>4, <2>1, <2>2, SMTT(60) DEF Program
<1>5. CASE UNCHANGED vars
  <2>1. /\ UNCHANGED <<step, tables, cpu, proc, trap, imr, isr, icw2>>
        /\ irr' \subseteq irr \cup Wired
    BY <1>5 DEF vars, pic
  <2>2. QED
    BY <2>1, RequestOnly
<1>6. QED
  BY <1>1, <1>2, <1>3, <1>4, <1>5, SMTT(60) DEF Next

(* The inductive invariant holds in every reachable state.                 *)
LEMMA Invariance == Spec => []IInv
  BY InitIInv, NextIInv, PTL DEF Spec

(* Every selector that the kernel loads names a descriptor of the kind and *)
(* ring of the code that runs, for programs that iretq entered and for     *)
(* those that sysretq returned to.                                         *)
THEOREM SelectorsSafe == Spec => []SelectorsMatch
<1>1. IInv => SelectorsMatch
  <2> SUFFICES ASSUME IInv PROVE SelectorsMatch
    OBVIOUS
  <2>1. /\ gdt[1] = "null" /\ gdt[2] = "code0" /\ Len(gdt) >= 2
        /\ step > 3 => gdt[3] = "data0" /\ gdt[4] = "data3" /\ gdt[5] = "code3" /\ Len(gdt) = 7
    BY DEF IInv, Booted, FullGdt
  <2>2. CASE pc = "user"
    <3>1. UserOwn(own) /\ reg = own /\ step > 3
      BY <2>2, ProgramPlace
    <3>2. reg["cs"][2] = 35 /\ reg["ss"][2] = 27
      BY <3>1 DEF UserOwn, Sel
    <3>3. 35 \div 8 = 4 /\ 35 % 8 = 3 /\ 27 \div 8 = 3 /\ 27 % 8 = 3
      OBVIOUS
    <3>4. Len(gdt) = 7 /\ gdt[4] = "data3" /\ gdt[5] = "code3"
      BY <2>1, <3>1
    <3>5. Descriptor(35) = "code3" /\ Descriptor(27) = "data3"
      BY <3>3, <3>4, SMTT(60) DEF Descriptor
    <3>6. QED
      BY <2>2, <3>2, <3>3, <3>5, ZenonT(60) DEF SelectorsMatch
  <2>3. CASE pc # "user"
    <3>1. reg["cs"] = Sel(8) /\ reg["ss"] \in {Sel(0), Sel(16)} /\ (step <= 3 => reg["ss"] = Sel(0))
      <4>1. CASE Runs
        BY <2>3, <4>1, Places, ZenonT(60) DEF InTrap, IInv, Running, Runs, KernelOwn
      <4>2. CASE ~Runs
        BY <4>2 DEF IInv, Booted, Running, Runs
      <4>3. QED
        BY <4>1, <4>2, SMTT(60)
    <3>2. reg["cs"][2] = 8 /\ reg["ss"][2] \in {0, 16} /\ (step <= 3 => reg["ss"][2] = 0)
      BY <3>1 DEF Sel
    <3>3. Len(gdt) \in Nat /\ step \in 1 .. 21
      BY SMTT(60) DEF IInv, Booted, FullGdt
    <3>4. QED
      BY <2>1, <2>3, <3>2, <3>3, SMTT(60) DEF SelectorsMatch, Descriptor
  <2>4. QED
    BY <2>2, <2>3, SMTT(60)
<1>2. QED
  BY <1>1, Invariance, PTL

(* Whatever interrupts, exceptions, calls and switches come in between, a  *)
(* thread finds in its registers what it left there, but for what a call   *)
(* may change, and its kernel stack is empty again.                        *)
THEOREM CallerSafe == Spec => []CallerKept
<1>1. IInv => CallerKept
  BY Places, SMTT(60) DEF IInv, Running, Runs, InTrap, CallerKept
<1>2. QED
  BY <1>1, Invariance, PTL

(* No interrupt or exception arrives without a gate, none before the       *)
(* subsystem of its handler is initialised, and the handlers read the      *)
(* vector that the stubs pushed.                                           *)
THEOREM InterruptsSafe == Spec => []InterruptsFindHandlers
<1>1. IInv => InterruptsFindHandlers
  <2> SUFFICES ASSUME IInv PROVE InterruptsFindHandlers
    OBVIOUS
  <2>1. pc # "shutdown"
    BY Places DEF InTrap
  <2>2. pc = "isr" => vec \in Faults /\ Field("int_no") = <<"int_no", vec>>
    BY Selected DEF IInv, Running
  <2>3. pc = "irq" => /\ vec \in 32 .. 47 /\ Field("int_no") = <<"int_no", vec>>
                      /\ step > 15
    BY Selected DEF IInv, Running
  <2>4. step > 15 => Done("scheduler_init")
    <3>1. Order[11] = "scheduler_init"
      BY OrderFacts
    <3>2. step \in 1 .. 21
      BY SMTT(60) DEF IInv, Booted
    <3>3. QED
      BY <3>1, <3>2 DEF Done
  <2>5. QED
    BY <2>1, <2>2, <2>3, <2>4, SMTT(60) DEF InterruptsFindHandlers
<1>2. QED
  BY <1>1, Invariance, PTL

(* Outside the kernel the keyboard's line is never in service, and the     *)
(* timer's only in a program, although the kernel sends ends of interrupt  *)
(* for lines it does not serve and none for lines nobody handles.          *)
THEOREM LinesSafe == Spec => []LinesReleased
<1>1. IInv => LinesReleased
  BY Places, SMTT(60) DEF IInv, Lines, Runs, InTrap, LinesReleased
<1>2. QED
  BY <1>1, Invariance, PTL

(* Every call that user_lib.c or the C library makes reaches the service   *)
(* it is for with its arguments in order, under either ABI.                *)
THEOREM ServiceSafe == Spec => []ServiceAsAsked
<1>1. IInv => ServiceAsAsked
  BY DEF IInv, Serving, ServiceAsAsked
<1>2. QED
  BY <1>1, Invariance, PTL

=============================================================================
