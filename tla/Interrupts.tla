------------------------------- MODULE Interrupts -------------------------------
(***************************************************************************)
(* The path of an interrupt: the interrupt controllers, the gates of       *)
(* kernel/idt.c, the stubs of arch/x86_64/isr.asm with the stack they      *)
(* build, the handlers of irq.c and idt.c, and the boot sequence that      *)
(* brings all of it up while requests are already arriving.                *)
(*                                                                         *)
(* The stubs call irq_handler and isr_handler without pushing `regs'; what *)
(* the handlers take for the pointer is the pushed word (eax & ~0xffff)|ds. *)
(* So regs->int_no is whatever memory has there: any member of Words.      *)
(***************************************************************************)
EXTENDS Integers, Sequences, FiniteSets, FiniteSetsExt, SequencesExt

CONSTANTS
  Lines,     \* request lines that devices raise (2 joins the controllers)
  Faults,    \* exceptions the running code may cause
  Words      \* what regs->int_no may read as

ASSUME InterruptParameters ==
  /\ Lines \subseteq (0..15) \ {2} /\ 0 \in Lines
  /\ Faults \subseteq 0..31
  /\ Words \subseteq Nat

VARIABLES
  boot,            \* how far kernel_main has come
  gates,           \* vectors with a gate
  interrupt_handlers,  \* the non-NULL entries of the table
  irr,             \* lines requested and not yet acknowledged
  in_service,      \* lines acknowledged and not yet ended, per controller
  eflags_if, sti_shadow,  \* interrupt flag; TRUE for the instruction after sti
  pc, vector,      \* where the CPU is; the vector it entered last
  stack,           \* what was pushed since kernel_main was interrupted
  regs,            \* general and segment registers: 0 is kernel_main's value
  int_no,          \* what the handler read as regs->int_no
  ran              \* the handler called last

picVars == <<irr, in_service>>
cpuVars == <<eflags_if, sti_shadow, pc, vector, stack, regs>>
vars == <<boot, gates, interrupt_handlers, picVars, cpuVars, int_no, ran>>

Stages == <<"start", "idt", "remap", "gates", "sti", "timer", "keyboard">>
IRQ0 == 32

Init ==
  /\ boot = "start" /\ gates = {} /\ interrupt_handlers = [v \in {} |-> "none"]
  /\ irr = {} /\ in_service = [master |-> {}, slave |-> {}]
  /\ eflags_if = FALSE /\ sti_shadow = FALSE /\ pc = "main" /\ vector = 0
  /\ stack = <<>> /\ regs = [gpr |-> 0, seg |-> 0]
  /\ int_no = 0 /\ ran = "none"

-----------------------------------------------------------------------------
(* The two 8259 controllers: fixed priority, lowest line first; the second *)
(* one asks through line 2 of the first.                                   *)
Outranks(l, serving) == \A s \in serving : l < s

SlaveRequests == {l \in irr : l >= 8 /\ Outranks(l, in_service.slave)}

MasterRequests == {l \in irr : l < 8} \cup (IF SlaveRequests = {} THEN {} ELSE {2})

Requests == MasterRequests # {} /\ Outranks(Min(MasterRequests), in_service.master)

Acknowledged ==
  IF Min(MasterRequests) = 2 THEN Min(SlaveRequests) ELSE Min(MasterRequests)

Raise(l) ==
  /\ l \notin irr /\ pc \notin {"lost", "halted"}
  /\ irr' = irr \cup {l}
  /\ UNCHANGED <<boot, gates, interrupt_handlers, in_service, cpuVars, int_no, ran>>

(* A non-specific end of interrupt releases the highest line in service.   *)
Ended(serving) == serving \ {Min(serving \cup {16})}

-----------------------------------------------------------------------------
(* The CPU.  Between two instructions a deliverable request goes first.    *)
Deliverable == eflags_if /\ ~sti_shadow /\ Requests /\ pc \notin {"lost", "halted"}

Word(kind, value) == [kind |-> kind, value |-> value]
ReturnFrame == Word("eip", <<pc, eflags_if>>)

Deliver ==
  /\ Deliverable
  /\ vector' = IRQ0 + Acknowledged
  /\ irr' = irr \ {Acknowledged}
  /\ in_service' = [master |-> in_service.master \cup {Min(MasterRequests)},
                    slave |-> in_service.slave \cup ({Acknowledged} \cap 8..15)]
  /\ stack' = Append(stack, ReturnFrame)
  /\ eflags_if' = FALSE /\ pc' = "stub"
  /\ UNCHANGED <<boot, gates, interrupt_handlers, sti_shadow, regs, int_no, ran>>

(* Exceptions for which the CPU pushes an error code by itself.            *)
CpuPushesError == {8, 10, 11, 12, 13, 14, 17, 30}

Fault(v) ==
  /\ pc = "main" /\ ~Deliverable /\ boot # "start"
  /\ vector' = v
  /\ stack' = Append(stack, ReturnFrame)
                \o (IF v \in CpuPushesError THEN <<Word("err", 1)>> ELSE <<>>)
  /\ eflags_if' = FALSE /\ pc' = "stub"
  /\ UNCHANGED <<boot, gates, interrupt_handlers, picVars, sti_shadow, regs, int_no, ran>>

-----------------------------------------------------------------------------
(* Seeded fault: every stub pushes an error code.                          *)
NoErrcodeStubs == {}

(* isr.asm.  The stubs of these vectors leave the error code to the CPU.   *)
ISR_ERRCODE == {8, 10, 11, 12, 13, 14, 17, 30}

Stub ==
  /\ pc = "stub" /\ pc' = "handler"
  /\ stack' = stack \o (IF vector \in ISR_ERRCODE THEN <<>> ELSE <<Word("err", 0)>>)
                \o <<Word("no", vector), Word("gpr", regs.gpr), Word("seg", regs.seg)>>
  /\ regs' = [gpr |-> 1, seg |-> 1]
  /\ UNCHANGED <<boot, gates, interrupt_handlers, picVars, eflags_if, sti_shadow, vector, int_no, ran>>

Served == stack[Len(stack) - 2].value

Unstack ==
  /\ pc = "unstack" /\ pc' = "sti"
  /\ regs' = [seg |-> Last(stack).value, gpr |-> stack[Len(stack) - 1].value]
  /\ stack' = SubSeq(stack, 1, Len(stack) - 4)
  /\ UNCHANGED <<boot, gates, interrupt_handlers, picVars, eflags_if, sti_shadow, vector, int_no, ran>>

Sti ==
  /\ pc = "sti" /\ pc' = "iret"
  /\ eflags_if' = TRUE /\ sti_shadow' = TRUE
  /\ UNCHANGED <<boot, gates, interrupt_handlers, picVars, vector, stack, regs, int_no, ran>>

Iret ==
  /\ pc = "iret" /\ ~Deliverable
  /\ pc' = Last(stack).value[1] /\ eflags_if' = Last(stack).value[2]
  /\ stack' = Front(stack) /\ sti_shadow' = FALSE
  /\ UNCHANGED <<boot, gates, interrupt_handlers, picVars, vector, regs, int_no, ran>>

-----------------------------------------------------------------------------
(* Seeded faults: only one controller is told; none is.                    *)
EndOfInterruptEither(word) ==
  IF word >= 40 THEN [in_service EXCEPT !.slave = Ended(@)]
  ELSE [in_service EXCEPT !.master = Ended(@)]
EndOfInterruptForgotten(word) == in_service

(* irq_handler, first half: end the interrupt at the controllers.          *)
EndOfInterrupt(word) ==
  [master |-> Ended(in_service.master),
   slave  |-> IF word >= 40 THEN Ended(in_service.slave) ELSE in_service.slave]

IrqHandler ==
  /\ pc = "handler" /\ Served >= IRQ0 /\ pc' = "call"
  /\ int_no' \in Words
  /\ in_service' = EndOfInterrupt(int_no')
  /\ UNCHANGED <<boot, gates, interrupt_handlers, irr, eflags_if, sti_shadow, vector,
                 stack, regs, ran>>

(* Second half: call what the table holds.  Words past its 256 entries     *)
(* read other memory: nothing there, or an address nobody chose.           *)
CallHandler ==
  /\ pc = "call"
  /\ \/ /\ int_no \in DOMAIN interrupt_handlers
        /\ ran' = interrupt_handlers[int_no] /\ pc' = "unstack"
     \/ /\ int_no \notin DOMAIN interrupt_handlers
        /\ ran' = "none" /\ pc' = "unstack"
     \/ /\ int_no > 255
        /\ ran' = "none" /\ pc' = "lost"
  /\ UNCHANGED <<boot, gates, interrupt_handlers, picVars, eflags_if, sti_shadow, vector,
                 stack, regs, int_no>>

(* isr_handler: run a registered handler and return, or panic and halt.    *)
(* The message is looked up by the same word, past the table from 32 on.   *)
IsrHandler ==
  /\ pc = "handler" /\ Served < IRQ0
  /\ int_no' \in Words
  /\ \/ /\ int_no' \in DOMAIN interrupt_handlers
        /\ ran' = interrupt_handlers[int_no'] /\ pc' = "unstack"
     \/ /\ int_no' \notin DOMAIN interrupt_handlers
        /\ ran' = "none" /\ pc' = "halted"
     \/ /\ int_no' > 31 /\ int_no' \notin DOMAIN interrupt_handlers
        /\ ran' = "none" /\ pc' = "lost"
  /\ UNCHANGED <<boot, gates, interrupt_handlers, picVars, eflags_if, sti_shadow, vector,
                 stack, regs>>

-----------------------------------------------------------------------------
(* kernel_main bringing interrupts up (kernel.c:34-51).                    *)
At(stage, next) ==
  /\ pc = "main" /\ ~Deliverable /\ sti_shadow' = FALSE
  /\ boot = stage /\ boot' = next
  /\ UNCHANGED <<pc, vector, stack, regs, int_no, ran>>

idt_init ==
  /\ At("start", "idt")
  /\ gates' = 0..31 /\ interrupt_handlers' = [v \in {} |-> "none"]
  /\ UNCHANGED <<picVars, eflags_if>>

(* Initialising a controller clears its requests and services.             *)
pic_remap ==
  /\ At("idt", "remap")
  /\ irr' = {} /\ in_service' = [master |-> {}, slave |-> {}]
  /\ UNCHANGED <<gates, interrupt_handlers, eflags_if>>

(* Seeded fault: the second controller's vectors get no gate.              *)
install_master_gates ==
  /\ At("remap", "gates")
  /\ gates' = gates \cup 32..39
  /\ UNCHANGED <<interrupt_handlers, picVars, eflags_if>>

install_gates ==
  /\ At("remap", "gates")
  /\ gates' = gates \cup 32..47
  /\ UNCHANGED <<interrupt_handlers, picVars, eflags_if>>

irq_sti ==
  /\ At("gates", "sti") /\ eflags_if' = TRUE
  /\ UNCHANGED <<gates, interrupt_handlers, picVars>>

Registered(line, handler) ==
  [v \in DOMAIN interrupt_handlers \cup {IRQ0 + line} |->
     IF v = IRQ0 + line THEN handler ELSE interrupt_handlers[v]]

timer_init ==
  /\ At("sti", "timer")
  /\ interrupt_handlers' = Registered(0, "timer")
  /\ UNCHANGED <<gates, picVars, eflags_if>>

keyboard_init ==
  /\ At("timer", "keyboard")
  /\ interrupt_handlers' = Registered(1, "keyboard")
  /\ UNCHANGED <<gates, picVars, eflags_if>>

Boot ==
  idt_init \/ pic_remap \/ install_gates \/ irq_sti \/ timer_init \/ keyboard_init

Handling == Stub \/ IrqHandler \/ IsrHandler \/ CallHandler \/ Unstack \/ Sti \/ Iret

Next ==
  \/ Boot \/ Deliver \/ Handling
  \/ \E v \in Faults : Fault(v)
  \/ \E l \in Lines : Raise(l)

(* The CPU goes on executing; devices and faults come as they please.      *)
Fairness == WF_vars(Boot) /\ WF_vars(Deliver) /\ WF_vars(Handling)

Spec == Init /\ [][Next]_vars /\ Fairness

-----------------------------------------------------------------------------
TypeOK ==
  /\ boot \in Range(Stages) /\ gates \subseteq 0..47
  /\ DOMAIN interrupt_handlers \subseteq 32..47 /\ Range(interrupt_handlers) \subseteq {"timer", "keyboard"}
  /\ irr \subseteq Lines /\ in_service \in [master : SUBSET (0..7), slave : SUBSET (8..15)]
  /\ eflags_if \in BOOLEAN /\ sti_shadow \in BOOLEAN
  /\ pc \in {"main", "stub", "handler", "call", "unstack", "sti", "iret", "lost", "halted"}
  /\ vector \in 0..47 /\ regs \in [gpr : {0, 1}, seg : {0, 1}]
  /\ \A k \in DOMAIN stack : stack[k].kind \in {"eip", "err", "no", "gpr", "seg"}
  /\ int_no \in Words \cup {0} /\ ran \in {"none", "timer", "keyboard"}

(* No interrupt finds an empty gate, which would be a double fault: sti    *)
(* comes after the controllers are remapped and all gates are there        *)
(* (irq.c:80-101).                                                         *)
GateReady == pc = "stub" => vector \in gates

(* Interrupts never nest, so the kernel stack stays bounded, and every     *)
(* stub leaves the stack and the registers as kernel_main had them, with   *)
(* or without an error code from the CPU (isr.asm:10-27 and 118-141): the  *)
(* sti before iret lets nothing in.                                        *)
ContextRestored ==
  /\ Cardinality({k \in DOMAIN stack : stack[k].kind = "eip"}) <= 1
  /\ pc = "iret" => Len(stack) = 1 /\ Last(stack).kind = "eip"
  /\ pc \in {"main", "iret"} => regs = [gpr |-> 0, seg |-> 0]
  /\ pc = "main" => stack = <<>>

(* Whatever int_no reads as, the first controller has nothing in service   *)
(* when kernel_main runs, so no line of it is blocked (irq.c:117-120).     *)
MasterReleased == pc = "main" => in_service.master = {}

(* A timer request made once the controllers are set up is taken sooner or *)
(* later, whatever else is requested, unless a fault or a wild call has    *)
(* stopped the kernel.                                                     *)
TimerServed == (0 \in irr) ~> (0 \notin irr \/ pc \in {"lost", "halted"})

(* irq.c:122 "Call registered handler": the one registered for the line.   *)
HandlerOfLineRuns ==
  pc = "unstack" /\ Served \in DOMAIN interrupt_handlers =>
    ran = interrupt_handlers[Served]
=============================================================================
