---------------------------- MODULE InterruptsProofs ----------------------------
(***************************************************************************)
(* The path of an interrupt, for any lines and faults and whatever         *)
(* regs->int_no reads as: gates are there before they are needed, the      *)
(* stack and the registers come back, the first controller is released.    *)
(*                                                                         *)
(* The argument: the code with interrupts enabled is kernel_main alone     *)
(* (and the instruction in the shadow of the stub's sti), so an interrupt  *)
(* or a fault always finds an empty stack, and each place in a handler     *)
(* knows the whole stack.                                                  *)
(***************************************************************************)
EXTENDS Interrupts, SequenceTheorems, FiniteSetTheorems, WellFoundedInduction, TLAPS

(* The boot sequence has enabled interrupts.                               *)
Late == boot \in {"sti", "timer", "keyboard"}

ReturnTo(flag) == Word("eip", <<"main", flag>>)

(* What the CPU has pushed when it enters a stub, and what the stub adds.  *)
Pushed(flag) ==
  IF vector \in CpuPushesError THEN <<ReturnTo(flag), Word("err", 1)>> ELSE <<ReturnTo(flag)>>
Framed(flag, error) ==
  <<ReturnTo(flag), Word("err", error), Word("no", vector), Word("gpr", 0), Word("seg", 0)>>

InHandler == pc \in {"handler", "call", "unstack", "lost", "halted"}

StackInv ==
  /\ pc = "main" => stack = <<>> /\ (eflags_if => Late)
  /\ pc = "stub" => \E flag \in BOOLEAN : (flag => Late) /\ stack = Pushed(flag)
  /\ InHandler =>
       \E flag \in BOOLEAN, error \in {0, 1} : (flag => Late) /\ stack = Framed(flag, error)
  /\ pc \in {"sti", "iret"} =>
       \E flag \in BOOLEAN : (flag => Late) /\ stack = <<ReturnTo(flag)>>

CpuInv ==
  /\ eflags_if => pc \in {"main", "iret"}
  /\ pc = "iret" => sti_shadow
  /\ pc \in {"main", "stub", "sti", "iret"} => regs = [gpr |-> 0, seg |-> 0]

GateInv ==
  /\ boot # "start" => 0..31 \subseteq gates
  /\ boot \notin {"start", "idt", "remap"} => 32..47 \subseteq gates
  /\ GateReady

ServiceInv ==
  /\ pc \in {"main", "call", "unstack", "sti", "iret"} => in_service.master = {}
  /\ pc \in {"stub", "handler"} =>
       \/ in_service.master = {}
       \/ vector >= IRQ0 /\ \E l \in 0..7 : in_service.master = {l}

InterruptsInv == TypeOK /\ StackInv /\ CpuInv /\ GateInv /\ ServiceInv

-----------------------------------------------------------------------------
(* The least element of a set of numbers.                                  *)
LEMMA LeastNumber ==
  ASSUME NEW T, T \subseteq Nat, T # {}
  PROVE  \E m \in T : \A k \in T : m <= k
<1>1. PICK m \in T : \A k \in T : <<k, m>> \notin OpToRel(<, Nat)
  BY WFMin, NatLessThanWellFounded, Zenon
<1>2. \A k \in T : ~(k < m)
  BY <1>1 DEF OpToRel
<1> QED BY <1>2

LEMMA MinIn ==
  ASSUME NEW T, T \subseteq Nat, T # {}
  PROVE  Min(T) \in T
BY LeastNumber DEF Min

LEMMA EndedTyped == ASSUME NEW T PROVE Ended(T) \subseteq T
BY DEF Ended

(* With one line in service, the end of an interrupt releases it.          *)
LEMMA EndedReleases ==
  ASSUME NEW T, T = {} \/ \E l \in 0..7 : T = {l}
  PROVE  Ended(T) = {}
<1>1. CASE T = {}
  BY <1>1 DEF Ended
<1>2. CASE \E l \in 0..7 : T = {l}
  <2>1. PICK l \in 0..7 : T = {l}
    BY <1>2
  <2>2. Min({l} \cup {16}) = l
    <3>1. Min({l, 16}) \in {l, 16} /\ \A y \in {l, 16} : Min({l, 16}) <= y
      <4>1. \E x \in {l, 16} : \A y \in {l, 16} : x <= y
        OBVIOUS
      <4> QED BY <4>1 DEF Min
    <3>2. {l} \cup {16} = {l, 16}
      OBVIOUS
    <3> QED BY <3>1, <3>2
  <2> QED BY <2>1, <2>2 DEF Ended
<1> QED BY <1>1, <1>2

(* The line that a delivery acknowledges, at either controller.            *)
LEMMA AcknowledgedTyped ==
  ASSUME TypeOK, Requests
  PROVE  Min(MasterRequests) \in 0..7 /\ Acknowledged \in 0..15
<1>1. irr \subseteq Lines /\ Lines \subseteq (0..15) \ {2}
  BY InterruptParameters DEF TypeOK
<1>2. \A l \in MasterRequests : l \in 0..7 /\ (l = 2 => SlaveRequests # {})
  BY <1>1 DEF MasterRequests
<1>3. Min(MasterRequests) \in MasterRequests
  <2>1. MasterRequests \subseteq Nat /\ MasterRequests # {}
    BY <1>2 DEF Requests
  <2> QED BY <2>1, MinIn
<1>4. Min(MasterRequests) \in 0..7
  BY <1>2, <1>3
<1>5. ASSUME Min(MasterRequests) = 2 PROVE Min(SlaveRequests) \in 0..15
  <2>1. SlaveRequests # {}
    BY <1>2, <1>3, <1>5
  <2>2. SlaveRequests \subseteq 0..15
    BY <1>1 DEF SlaveRequests
  <2>3. SlaveRequests \subseteq Nat
    BY <2>2
  <2>4. Min(SlaveRequests) \in SlaveRequests
    BY <2>1, <2>3, MinIn
  <2> QED BY <2>2, <2>4
<1> QED BY <1>4, <1>5 DEF Acknowledged

-----------------------------------------------------------------------------
(* The words of each stack.                                                *)
LEMMA TwoWords ==
  ASSUME NEW a, NEW b
  PROVE  <<a>> \o <<b>> = <<a, b>>
<1> DEFINE s == <<a>>
           t == <<b>>
           S == {a, b}
           w == s \o t
<1>1. s \in Seq(S) /\ t \in Seq(S) /\ Len(s) = 1 /\ Len(t) = 1 /\ s[1] = a /\ t[1] = b
  OBVIOUS
<1> HIDE DEF s, t, S
<1>2. /\ Len(w) = Len(s) + Len(t) /\ w \in Seq(S)
      /\ \A i \in 1..(Len(s) + Len(t)) : w[i] = IF i <= Len(s) THEN s[i] ELSE t[i - Len(s)]
  BY <1>1, ConcatProperties, Zenon
<1> HIDE DEF w
<1>3. Len(w) = 2 /\ w[1] = a /\ w[2] = b
  BY <1>1, <1>2
<1>4. w \in Seq(S)
  BY <1>2
<1>5. w = <<a, b>>
  BY <1>3, <1>4
<1> QED BY <1>5 DEF w, s, t

LEMMA FiveWords ==
  ASSUME NEW a, NEW b, NEW c, NEW d, NEW e
  PROVE  <<a, b>> \o <<c, d, e>> = <<a, b, c, d, e>>
<1> DEFINE s == <<a, b>>
           t == <<c, d, e>>
           S == {a, b, c, d, e}
           w == s \o t
<1>1. s \in Seq(S) /\ t \in Seq(S) /\ Len(s) = 2 /\ Len(t) = 3
  OBVIOUS
<1>2. s[1] = a /\ s[2] = b /\ t[1] = c /\ t[2] = d /\ t[3] = e
  OBVIOUS
<1> HIDE DEF s, t, S
<1>3. /\ Len(w) = Len(s) + Len(t) /\ w \in Seq(S)
      /\ \A i \in 1..(Len(s) + Len(t)) : w[i] = IF i <= Len(s) THEN s[i] ELSE t[i - Len(s)]
  BY <1>1, ConcatProperties, Zenon
<1> HIDE DEF w
<1>4. Len(w) = 5 /\ \A i \in 1..5 : w[i] = IF i <= 2 THEN s[i] ELSE t[i - 2]
  BY <1>1, <1>3
<1>5. w[1] = a /\ w[2] = b /\ w[3] = c /\ w[4] = d /\ w[5] = e
  BY <1>2, <1>4
<1>6. w \in Seq(S) /\ Len(w) = 5
  BY <1>3, <1>4
<1>7. w = <<a, b, c, d, e>>
  BY <1>5, <1>6
<1> QED BY <1>7 DEF w, s, t

LEMMA FirstWord ==
  ASSUME NEW a, NEW b, NEW c, NEW d, NEW e
  PROVE  SubSeq(<<a, b, c, d, e>>, 1, 1) = <<a>>
<1> DEFINE u == <<a, b, c, d, e>>
           S == {a, b, c, d, e}
           x == SubSeq(u, 1, 1)
<1>1. u \in Seq(S) /\ u[1] = a /\ \A i \in 1..1 : u[i] \in S
  OBVIOUS
<1> HIDE DEF u, S
<1>2. /\ x \in Seq(S) /\ Len(x) = (IF 1 <= 1 THEN (1 - 1) + 1 ELSE 0)
      /\ \A i \in 1..((1 - 1) + 1) : x[i] = u[(1 + i) - 1]
  BY <1>1, SubSeqProperties
<1> HIDE DEF x
<1>3. Len(x) = 1 /\ x[1] = a
  BY <1>1, <1>2
<1>4. x = <<a>>
  BY <1>2, <1>3
<1> QED BY <1>4 DEF u, x

LEMMA PushedWords ==
  ASSUME NEW flag \in BOOLEAN
  PROVE  /\ Pushed(flag) \o (IF vector \in ISR_ERRCODE THEN <<>> ELSE <<Word("err", 0)>>)
               \o <<Word("no", vector), Word("gpr", 0), Word("seg", 0)>>
             = Framed(flag, IF vector \in CpuPushesError THEN 1 ELSE 0)
         /\ \A k \in DOMAIN Pushed(flag) : Pushed(flag)[k].kind \in {"eip", "err"}
<1> DEFINE eip == ReturnTo(flag)
           none == Word("err", 0)
           err == Word("err", 1)
           no == Word("no", vector)
           gpr == Word("gpr", 0)
           seg == Word("seg", 0)
<1>1. CpuPushesError = ISR_ERRCODE
  BY DEF CpuPushesError, ISR_ERRCODE
<1>2. eip.kind = "eip" /\ err.kind = "err"
  BY DEF ReturnTo, Word
<1>3. CASE vector \in CpuPushesError
  <2>1. Pushed(flag) = <<eip, err>> /\ Framed(flag, 1) = <<eip, err, no, gpr, seg>>
    BY <1>3 DEF Pushed, Framed
  <2> HIDE DEF eip, none, err, no, gpr, seg
  <2>2. <<eip, err>> \o <<>> \o <<no, gpr, seg>> = <<eip, err, no, gpr, seg>>
    <3>1. <<eip, err>> \o <<>> = <<eip, err>>
      OBVIOUS
    <3>2. <<eip, err>> \o <<no, gpr, seg>> = <<eip, err, no, gpr, seg>>
      BY FiveWords, Zenon
    <3> QED BY <3>1, <3>2, Zenon
  <2>3. \A k \in DOMAIN <<eip, err>> : <<eip, err>>[k].kind \in {"eip", "err"}
    BY <1>2
  <2> QED BY <1>1, <1>3, <2>1, <2>2, <2>3 DEF no, gpr, seg
<1>4. CASE vector \notin CpuPushesError
  <2>1. Pushed(flag) = <<eip>> /\ Framed(flag, 0) = <<eip, none, no, gpr, seg>>
    BY <1>4 DEF Pushed, Framed
  <2> HIDE DEF eip, none, err, no, gpr, seg
  <2>2. <<eip>> \o <<none>> \o <<no, gpr, seg>> = <<eip, none, no, gpr, seg>>
    <3>1. <<eip>> \o <<none>> = <<eip, none>>
      BY TwoWords, Zenon
    <3>2. <<eip, none>> \o <<no, gpr, seg>> = <<eip, none, no, gpr, seg>>
      BY FiveWords, Zenon
    <3> QED BY <3>1, <3>2, Zenon
  <2>3. \A k \in DOMAIN <<eip>> : <<eip>>[k].kind \in {"eip", "err"}
    BY <1>2
  <2> QED BY <1>1, <1>4, <2>1, <2>2, <2>3 DEF none, no, gpr, seg
<1> QED BY <1>3, <1>4

LEMMA PushedOnce ==
  ASSUME NEW flag \in BOOLEAN, stack = Pushed(flag)
  PROVE  {k \in DOMAIN stack : stack[k].kind = "eip"} = {1}
<1> DEFINE eip == ReturnTo(flag)
           err == Word("err", 1)
<1>1. eip.kind = "eip" /\ err.kind = "err"
  BY DEF ReturnTo, Word
<1>2. stack = <<eip, err>> \/ stack = <<eip>>
  BY DEF Pushed
<1> HIDE DEF eip, err
<1>3. CASE stack = <<eip, err>>
  <2>1. DOMAIN stack = {1, 2} /\ stack[1] = eip /\ stack[2] = err
    BY <1>3
  <2> QED BY <1>1, <2>1
<1>4. CASE stack = <<eip>>
  <2>1. DOMAIN stack = {1} /\ stack[1] = eip
    BY <1>4
  <2> QED BY <1>1, <2>1
<1> QED BY <1>2, <1>3, <1>4

LEMMA FramedWords ==
  ASSUME NEW flag \in BOOLEAN, NEW error \in {0, 1}, stack = Framed(flag, error)
  PROVE  /\ Len(stack) = 5 /\ Served = vector
         /\ Last(stack).value = 0 /\ stack[Len(stack) - 1].value = 0
         /\ SubSeq(stack, 1, Len(stack) - 4) = <<ReturnTo(flag)>>
         /\ {k \in DOMAIN stack : stack[k].kind = "eip"} = {1}
         /\ \A k \in DOMAIN stack : stack[k].kind \in {"eip", "err", "no", "gpr", "seg"}
<1> DEFINE eip == ReturnTo(flag)
           err == Word("err", error)
           no == Word("no", vector)
           gpr == Word("gpr", 0)
           seg == Word("seg", 0)
<1>1. stack = <<eip, err, no, gpr, seg>>
  BY DEF Framed
<1>2. /\ eip.kind = "eip" /\ err.kind = "err" /\ no.kind = "no" /\ gpr.kind = "gpr"
      /\ seg.kind = "seg" /\ no.value = vector /\ gpr.value = 0 /\ seg.value = 0
  BY DEF ReturnTo, Word
<1> HIDE DEF eip, err, no, gpr, seg
<1>3. Len(stack) = 5 /\ DOMAIN stack = 1..5
  BY <1>1
<1>4. /\ stack[1] = eip /\ stack[2] = err /\ stack[3] = no /\ stack[4] = gpr /\ stack[5] = seg
  BY <1>1
<1>5. Served = vector /\ Last(stack).value = 0 /\ stack[Len(stack) - 1].value = 0
  BY <1>2, <1>3, <1>4 DEF Served, Last
<1>6. SubSeq(stack, 1, Len(stack) - 4) = <<eip>>
  <2>1. Len(stack) - 4 = 1
    BY <1>3
  <2> QED BY <1>1, <2>1, FirstWord, Zenon
<1>7. \A k \in 1..5 : k = 1 \/ k = 2 \/ k = 3 \/ k = 4 \/ k = 5
  OBVIOUS
<1>8. \A k \in DOMAIN stack :
        /\ stack[k].kind \in {"eip", "err", "no", "gpr", "seg"}
        /\ stack[k].kind = "eip" <=> k = 1
  BY <1>2, <1>3, <1>4, <1>7
<1>9. 1 \in DOMAIN stack
  BY <1>3
<1>10. {k \in DOMAIN stack : stack[k].kind = "eip"} = {1}
  BY <1>8, <1>9
<1> QED BY <1>3, <1>5, <1>6, <1>8, <1>10 DEF eip

LEMMA ReturnWords ==
  ASSUME NEW flag \in BOOLEAN, stack = <<ReturnTo(flag)>>
  PROVE  /\ Len(stack) = 1 /\ Last(stack).kind = "eip"
         /\ Last(stack).value[1] = "main" /\ Last(stack).value[2] = flag
         /\ Front(stack) = <<>>
         /\ {k \in DOMAIN stack : stack[k].kind = "eip"} = {1}
         /\ \A k \in DOMAIN stack : stack[k].kind \in {"eip", "err", "no", "gpr", "seg"}
<1> DEFINE eip == ReturnTo(flag)
<1>1. eip.kind = "eip" /\ eip.value[1] = "main" /\ eip.value[2] = flag
  BY DEF ReturnTo, Word
<1>2. stack = <<eip>>
  OBVIOUS
<1> HIDE DEF eip
<1>3. Len(stack) = 1 /\ DOMAIN stack = {1} /\ stack[1] = eip
  BY <1>2
<1>4. Last(stack) = eip
  BY <1>3 DEF Last
<1>5. Front(stack) = <<>>
  BY <1>2, <1>3 DEF Front
<1> QED BY <1>1, <1>3, <1>4, <1>5

(* The kinds of words, for a stack before or after a step.                 *)
LEMMA FramedKinds ==
  ASSUME NEW flag \in BOOLEAN, NEW error \in {0, 1}, NEW s, s = Framed(flag, error)
  PROVE  \A k \in DOMAIN s : s[k].kind \in {"eip", "err", "no", "gpr", "seg"}
<1> DEFINE eip == ReturnTo(flag)
           err == Word("err", error)
           no == Word("no", vector)
           gpr == Word("gpr", 0)
           seg == Word("seg", 0)
<1>1. s = <<eip, err, no, gpr, seg>>
  BY DEF Framed
<1>2. /\ eip.kind = "eip" /\ err.kind = "err" /\ no.kind = "no" /\ gpr.kind = "gpr"
      /\ seg.kind = "seg"
  BY DEF ReturnTo, Word
<1> HIDE DEF eip, err, no, gpr, seg
<1>3. DOMAIN s = 1..5 /\ s[1] = eip /\ s[2] = err /\ s[3] = no /\ s[4] = gpr /\ s[5] = seg
  BY <1>1
<1>4. \A k \in 1..5 : k = 1 \/ k = 2 \/ k = 3 \/ k = 4 \/ k = 5
  OBVIOUS
<1> QED BY <1>2, <1>3, <1>4

LEMMA ReturnKinds ==
  ASSUME NEW flag \in BOOLEAN, NEW s, s = <<ReturnTo(flag)>>
  PROVE  \A k \in DOMAIN s : s[k].kind \in {"eip", "err", "no", "gpr", "seg"}
<1> DEFINE eip == ReturnTo(flag)
<1>1. eip.kind = "eip" /\ s = <<eip>>
  BY DEF ReturnTo, Word
<1> HIDE DEF eip
<1> QED BY <1>1

-----------------------------------------------------------------------------
LEMMA NoHandlers ==
  ASSUME NEW h, h = [v \in {} |-> "none"]
  PROVE  DOMAIN h = {} /\ Range(h) = {}
BY DEF Range

LEMMA RegisteredTyped ==
  ASSUME TypeOK, NEW l \in 0..15, NEW h \in {"timer", "keyboard"}
  PROVE  /\ DOMAIN Registered(l, h) \subseteq 32..47
         /\ Range(Registered(l, h)) \subseteq {"timer", "keyboard"}
<1>1. DOMAIN Registered(l, h) = DOMAIN interrupt_handlers \cup {IRQ0 + l}
  BY DEF Registered
<1>2. IRQ0 + l \in 32..47
  BY DEF IRQ0
<1>3. \A v \in DOMAIN Registered(l, h) :
        Registered(l, h)[v] = IF v = IRQ0 + l THEN h ELSE interrupt_handlers[v]
  BY <1>1 DEF Registered
<1>4. \A v \in DOMAIN interrupt_handlers : interrupt_handlers[v] \in {"timer", "keyboard"}
  BY DEF TypeOK, Range
<1>5. \A v \in DOMAIN Registered(l, h) : Registered(l, h)[v] \in {"timer", "keyboard"}
  BY <1>1, <1>3, <1>4
<1> QED BY <1>1, <1>2, <1>5 DEF Range, TypeOK

LEMMA InitInv == Init => InterruptsInv
<1> SUFFICES ASSUME Init PROVE InterruptsInv
  OBVIOUS
<1>1. Range(Stages) = {"start", "idt", "remap", "gates", "sti", "timer", "keyboard"}
  BY DEF Range, Stages
<1>2. interrupt_handlers = [v \in {} |-> "none"] /\ Range(interrupt_handlers) = {}
  BY NoHandlers DEF Init
<1>3. TypeOK
  <2>1. DOMAIN interrupt_handlers = {}
    BY <1>2
  <2>2. \A k \in DOMAIN stack : stack[k].kind \in {"eip", "err", "no", "gpr", "seg"}
    BY DEF Init
  <2>3. regs \in [gpr : {0, 1}, seg : {0, 1}]
    BY DEF Init
  <2>4. in_service \in [master : SUBSET (0..7), slave : SUBSET (8..15)]
    BY DEF Init
  <2>5. boot \in Range(Stages) /\ gates \subseteq 0..47 /\ irr \subseteq Lines
    BY <1>1 DEF Init
  <2>6. vector \in 0..47 /\ int_no \in Words \cup {0} /\ ran \in {"none", "timer", "keyboard"}
    BY DEF Init
  <2>7. pc \in {"main", "stub", "handler", "call", "unstack", "sti", "iret", "lost", "halted"}
    BY DEF Init
  <2>8. eflags_if \in BOOLEAN /\ sti_shadow \in BOOLEAN
    BY DEF Init
  <2> QED BY <1>2, <2>1, <2>2, <2>3, <2>4, <2>5, <2>6, <2>7, <2>8 DEF TypeOK
<1>4. StackInv /\ CpuInv
  BY DEF Init, StackInv, InHandler, CpuInv
<1>5. GateInv /\ ServiceInv
  BY DEF Init, GateInv, GateReady, ServiceInv
<1> QED BY <1>3, <1>4, <1>5 DEF InterruptsInv

LEMMA StagesAre ==
  Range(Stages) = {"start", "idt", "remap", "gates", "sti", "timer", "keyboard"}
BY DEF Range, Stages

(* kernel_main goes on: nothing is on the stack and nothing in service.    *)
LEMMA BootStep ==
  ASSUME InterruptsInv, Boot
  PROVE  InterruptsInv'
<1>1. PICK stage, next_stage : At(stage, next_stage)
  BY DEF Boot, idt_init, pic_remap, install_gates, irq_sti, timer_init, keyboard_init
<1>2. /\ pc = "main" /\ sti_shadow' = FALSE /\ UNCHANGED <<pc, vector, stack, regs, int_no, ran>>
      /\ stack = <<>> /\ regs = [gpr |-> 0, seg |-> 0]
  BY <1>1 DEF At, InterruptsInv, StackInv, CpuInv
<1>3. /\ boot' \in Range(Stages) /\ gates' \subseteq 0..47
      /\ DOMAIN interrupt_handlers' \subseteq 32..47
      /\ Range(interrupt_handlers') \subseteq {"timer", "keyboard"}
      /\ irr' \subseteq Lines /\ in_service' \in [master : SUBSET (0..7), slave : SUBSET (8..15)]
      /\ eflags_if' \in BOOLEAN
  <2>1. CASE idt_init
    <3>1. DOMAIN interrupt_handlers' = {} /\ Range(interrupt_handlers') = {}
      BY <2>1, NoHandlers DEF idt_init
    <3> QED BY <2>1, <3>1, StagesAre DEF idt_init, At, InterruptsInv, TypeOK, picVars
  <2>2. CASE pic_remap
    BY <2>2, StagesAre DEF pic_remap, At, InterruptsInv, TypeOK
  <2>3. CASE install_gates
    BY <2>3, StagesAre DEF install_gates, At, InterruptsInv, TypeOK, picVars
  <2>4. CASE irq_sti
    BY <2>4, StagesAre DEF irq_sti, At, InterruptsInv, TypeOK, picVars
  <2>5. CASE timer_init
    <3>1. /\ DOMAIN interrupt_handlers' \subseteq 32..47
          /\ Range(interrupt_handlers') \subseteq {"timer", "keyboard"}
      BY <2>5, RegisteredTyped DEF timer_init, InterruptsInv
    <3> QED BY <2>5, <3>1, StagesAre DEF timer_init, At, InterruptsInv, TypeOK, picVars
  <2>6. CASE keyboard_init
    <3>1. /\ DOMAIN interrupt_handlers' \subseteq 32..47
          /\ Range(interrupt_handlers') \subseteq {"timer", "keyboard"}
      BY <2>6, RegisteredTyped DEF keyboard_init, InterruptsInv
    <3> QED BY <2>6, <3>1, StagesAre DEF keyboard_init, At, InterruptsInv, TypeOK, picVars
  <2> QED BY <2>1, <2>2, <2>3, <2>4, <2>5, <2>6 DEF Boot
<1>4. TypeOK'
  BY <1>2, <1>3 DEF InterruptsInv, TypeOK
<1>5. in_service'.master = {}
  BY <1>2 DEF Boot, idt_init, pic_remap, install_gates, irq_sti, timer_init, keyboard_init,
              picVars, InterruptsInv, ServiceInv
<1>6. eflags_if' => Late'
  <2>1. CASE idt_init \/ pic_remap \/ install_gates
    BY <1>2, <2>1 DEF idt_init, pic_remap, install_gates, At, InterruptsInv, StackInv, Late
  <2>2. CASE irq_sti \/ timer_init \/ keyboard_init
    BY <2>2 DEF irq_sti, timer_init, keyboard_init, At, Late
  <2> QED BY <2>1, <2>2 DEF Boot
<1>7. /\ boot' # "start" => 0..31 \subseteq gates'
      /\ boot' \notin {"start", "idt", "remap"} => 32..47 \subseteq gates'
  BY DEF Boot, idt_init, pic_remap, install_gates, irq_sti, timer_init, keyboard_init, At,
         InterruptsInv, GateInv
<1>8. StackInv'
  BY <1>2, <1>6 DEF StackInv, InHandler
<1>9. CpuInv' /\ GateInv' /\ ServiceInv'
  BY <1>2, <1>5, <1>7 DEF CpuInv, GateInv, GateReady, ServiceInv
<1> QED BY <1>4, <1>8, <1>9 DEF InterruptsInv

LEMMA RaiseStep ==
  ASSUME InterruptsInv, NEW l \in Lines, Raise(l)
  PROVE  InterruptsInv'
<1>1. UNCHANGED <<boot, gates, interrupt_handlers, in_service, cpuVars, int_no, ran>>
  BY DEF Raise
<1>2. TypeOK'
  BY <1>1 DEF Raise, InterruptsInv, TypeOK, cpuVars
<1>3. StackInv'
  BY <1>1 DEF InterruptsInv, StackInv, InHandler, Late, Pushed, Framed, cpuVars
<1>4. CpuInv' /\ GateInv' /\ ServiceInv'
  BY <1>1 DEF InterruptsInv, CpuInv, GateInv, GateReady, ServiceInv, cpuVars
<1> QED BY <1>2, <1>3, <1>4 DEF InterruptsInv

(* Interrupts are on in kernel_main only: the shadow of sti covers iret.   *)
LEMMA DeliverStep ==
  ASSUME InterruptsInv, Deliver
  PROVE  InterruptsInv'
<1>1. /\ pc = "main" /\ pc' = "stub" /\ stack = <<>> /\ Late /\ eflags_if' = FALSE
      /\ eflags_if \in BOOLEAN /\ in_service.master = {}
      /\ UNCHANGED <<boot, gates, interrupt_handlers, sti_shadow, regs, int_no, ran>>
  BY DEF Deliver, Deliverable, InterruptsInv, CpuInv, StackInv, ServiceInv, TypeOK
<1>2. Min(MasterRequests) \in 0..7 /\ Acknowledged \in 0..15
  BY AcknowledgedTyped DEF Deliver, Deliverable, InterruptsInv
<1>3. vector' \in 32..47 /\ vector' \notin CpuPushesError
  BY <1>2 DEF Deliver, IRQ0, CpuPushesError
<1>4. stack' = <<ReturnTo(eflags_if)>>
  BY <1>1 DEF Deliver, ReturnFrame, ReturnTo
<1>5. \A k \in DOMAIN stack' : stack'[k].kind \in {"eip", "err", "no", "gpr", "seg"}
  <2> DEFINE eip == ReturnTo(eflags_if)
  <2>1. eip.kind = "eip"
    BY DEF ReturnTo, Word
  <2> HIDE DEF eip
  <2>2. \A k \in DOMAIN <<eip>> : <<eip>>[k].kind = "eip"
    BY <2>1
  <2> QED BY <1>4, <2>2 DEF eip
<1>6. /\ in_service' \in [master : SUBSET (0..7), slave : SUBSET (8..15)]
      /\ in_service'.master = {Min(MasterRequests)}
  BY <1>1, <1>2 DEF Deliver, InterruptsInv, TypeOK
<1>7. TypeOK'
  <2>1. /\ UNCHANGED <<boot, gates, interrupt_handlers>> /\ vector' \in 0..47
        /\ int_no' \in Words \cup {0} /\ ran' \in {"none", "timer", "keyboard"}
    BY <1>1, <1>3 DEF InterruptsInv, TypeOK
  <2>2. irr' \subseteq Lines /\ regs' \in [gpr : {0, 1}, seg : {0, 1}]
    BY <1>1 DEF Deliver, InterruptsInv, TypeOK
  <2>3. eflags_if' \in BOOLEAN /\ sti_shadow' \in BOOLEAN
    BY <1>1 DEF InterruptsInv, TypeOK
  <2> QED BY <1>1, <1>5, <1>6, <2>1, <2>2, <2>3 DEF InterruptsInv, TypeOK
<1>8. Pushed(eflags_if)' = <<ReturnTo(eflags_if')>>
  BY <1>3 DEF Pushed, ReturnTo
<1>9. StackInv'
  BY <1>1, <1>3, <1>4 DEF StackInv, InHandler, Pushed, ReturnTo, Late
<1>10. GateInv'
  BY <1>1, <1>3 DEF InterruptsInv, GateInv, GateReady, Late
<1>11. CpuInv' /\ ServiceInv'
  BY <1>1, <1>2, <1>3, <1>6 DEF InterruptsInv, CpuInv, ServiceInv, IRQ0
<1> QED BY <1>7, <1>9, <1>10, <1>11 DEF InterruptsInv

LEMMA FaultStep ==
  ASSUME InterruptsInv, NEW v \in Faults, Fault(v)
  PROVE  InterruptsInv'
<1>1. /\ pc = "main" /\ pc' = "stub" /\ stack = <<>> /\ (eflags_if => Late) /\ eflags_if' = FALSE
      /\ eflags_if \in BOOLEAN /\ in_service.master = {} /\ boot # "start" /\ vector' = v
      /\ UNCHANGED <<boot, gates, interrupt_handlers, irr, in_service, sti_shadow, regs, int_no, ran>>
  BY DEF Fault, picVars, InterruptsInv, CpuInv, StackInv, ServiceInv, TypeOK
<1>2. v \in 0..31
  BY InterruptParameters
<1> DEFINE eip == ReturnTo(eflags_if)
           err == Word("err", 1)
<1>3. stack' = IF v \in CpuPushesError THEN <<eip, err>> ELSE <<eip>>
  <2>1. stack' = <<eip>> \o (IF v \in CpuPushesError THEN <<err>> ELSE <<>>)
    BY <1>1 DEF Fault, ReturnFrame, ReturnTo
  <2> HIDE DEF eip, err
  <2>2. <<eip>> \o <<err>> = <<eip, err>>
    BY TwoWords, Zenon
  <2>3. <<eip>> \o <<>> = <<eip>>
    OBVIOUS
  <2>4. CASE v \in CpuPushesError
    <3>1. stack' = <<eip>> \o <<err>>
      BY <2>1, <2>4
    <3> QED BY <2>2, <2>4, <3>1
  <2>5. CASE v \notin CpuPushesError
    <3>1. stack' = <<eip>> \o <<>>
      BY <2>1, <2>5
    <3> QED BY <2>3, <2>5, <3>1
  <2> QED BY <2>4, <2>5
<1>4. \A k \in DOMAIN stack' : stack'[k].kind \in {"eip", "err", "no", "gpr", "seg"}
  <2>1. eip.kind = "eip" /\ err.kind = "err"
    BY DEF ReturnTo, Word
  <2> HIDE DEF eip, err
  <2>2. \A k \in DOMAIN <<eip>> : <<eip>>[k].kind = "eip"
    BY <2>1
  <2>3. \A k \in DOMAIN <<eip, err>> : <<eip, err>>[k].kind \in {"eip", "err"}
    BY <2>1
  <2> QED BY <1>3, <2>2, <2>3
<1>5. TypeOK'
  <2>1. /\ UNCHANGED <<boot, gates, interrupt_handlers, irr, in_service>> /\ vector' \in 0..47
        /\ int_no' \in Words \cup {0} /\ ran' \in {"none", "timer", "keyboard"}
    BY <1>1, <1>2 DEF InterruptsInv, TypeOK
  <2>2. regs' \in [gpr : {0, 1}, seg : {0, 1}]
    BY <1>1 DEF InterruptsInv, TypeOK
  <2>3. eflags_if' \in BOOLEAN /\ sti_shadow' \in BOOLEAN
    BY <1>1 DEF InterruptsInv, TypeOK
  <2> QED BY <1>1, <1>4, <2>1, <2>2, <2>3 DEF InterruptsInv, TypeOK
<1>6. StackInv'
  BY <1>1, <1>3 DEF StackInv, InHandler, Pushed, Late
<1>7. GateInv'
  BY <1>1, <1>2 DEF InterruptsInv, GateInv, GateReady
<1>8. CpuInv' /\ ServiceInv'
  BY <1>1 DEF InterruptsInv, CpuInv, ServiceInv
<1> QED BY <1>5, <1>6, <1>7, <1>8 DEF InterruptsInv

-----------------------------------------------------------------------------
(* The stubs and the handlers.                                             *)
LEMMA StubStep ==
  ASSUME InterruptsInv, Stub
  PROVE  InterruptsInv'
<1>1. /\ pc = "stub" /\ pc' = "handler" /\ regs = [gpr |-> 0, seg |-> 0]
      /\ UNCHANGED <<boot, gates, interrupt_handlers, irr, in_service, eflags_if, sti_shadow,
                     vector, int_no, ran>>
  BY DEF Stub, picVars, InterruptsInv, CpuInv
<1>2. PICK flag \in BOOLEAN : (flag => Late) /\ stack = Pushed(flag)
  BY <1>1 DEF InterruptsInv, StackInv
<1>3. PICK error \in {0, 1} : stack' = Framed(flag, error)
  <2> DEFINE pushed == IF vector \in CpuPushesError THEN 1 ELSE 0
  <2>1. regs.gpr = 0 /\ regs.seg = 0
    BY <1>1
  <2>2. stack' = stack \o (IF vector \in ISR_ERRCODE THEN <<>> ELSE <<Word("err", 0)>>)
                   \o <<Word("no", vector), Word("gpr", 0), Word("seg", 0)>>
    BY <2>1 DEF Stub
  <2>3. stack' = Framed(flag, pushed)
    BY <1>2, <2>2, PushedWords, Zenon
  <2>4. pushed \in {0, 1}
    OBVIOUS
  <2> HIDE DEF pushed
  <2> QED BY <2>3, <2>4
<1>5. Framed(flag, error)' = Framed(flag, error)
  BY <1>1 DEF Framed
<1>6. \A k \in DOMAIN stack' : stack'[k].kind \in {"eip", "err", "no", "gpr", "seg"}
  BY <1>3, FramedKinds
<1>7. regs' = [gpr |-> 1, seg |-> 1]
  BY DEF Stub
<1>8. TypeOK'
  <2>1. regs' \in [gpr : {0, 1}, seg : {0, 1}]
    BY <1>7
  <2> QED BY <1>1, <1>6, <2>1 DEF InterruptsInv, TypeOK
<1>9. StackInv'
  <2>1. (flag => Late') /\ stack' = Framed(flag, error)'
    BY <1>1, <1>2, <1>3, <1>5 DEF Late
  <2> QED BY <1>1, <2>1 DEF StackInv
<1>10. CpuInv' /\ GateInv' /\ ServiceInv'
  BY <1>1 DEF InterruptsInv, CpuInv, GateInv, GateReady, ServiceInv
<1> QED BY <1>8, <1>9, <1>10 DEF InterruptsInv

(* Inside a handler the frame stays what it is.                            *)
LEMMA FrameStays ==
  ASSUME InterruptsInv, InHandler, InHandler', UNCHANGED <<boot, stack, vector>>
  PROVE  StackInv'
<1>1. PICK flag \in BOOLEAN, error \in {0, 1} : (flag => Late) /\ stack = Framed(flag, error)
  BY DEF InterruptsInv, StackInv
<1>2. (flag => Late') /\ stack' = Framed(flag, error)'
  BY <1>1 DEF Late, Framed
<1> QED BY <1>2 DEF StackInv, InHandler

LEMMA ServedIsVector ==
  ASSUME InterruptsInv, InHandler
  PROVE  Served = vector
BY FramedWords DEF InterruptsInv, StackInv

LEMMA IrqHandlerStep ==
  ASSUME InterruptsInv, IrqHandler
  PROVE  InterruptsInv'
<1>1. /\ pc = "handler" /\ pc' = "call" /\ int_no' \in Words /\ in_service' = EndOfInterrupt(int_no')
      /\ UNCHANGED <<boot, gates, interrupt_handlers, irr, eflags_if, sti_shadow, vector, stack,
                     regs, ran>>
  BY DEF IrqHandler
<1>2. StackInv'
  BY <1>1, FrameStays DEF InHandler
<1>3. /\ in_service'.master = {}
      /\ in_service' \in [master : SUBSET (0..7), slave : SUBSET (8..15)]
  <2>1. in_service.master = {} \/ \E l \in 0..7 : in_service.master = {l}
    BY <1>1 DEF InterruptsInv, ServiceInv
  <2>2. Ended(in_service.master) = {}
    BY <2>1, EndedReleases
  <2>3. Ended(in_service.slave) \subseteq in_service.slave
    BY EndedTyped
  <2>4. in_service.slave \subseteq 8..15
    BY DEF InterruptsInv, TypeOK
  <2> QED BY <1>1, <2>2, <2>3, <2>4 DEF EndOfInterrupt
<1>4. TypeOK'
  <2>1. \A k \in DOMAIN stack' : stack'[k].kind \in {"eip", "err", "no", "gpr", "seg"}
    BY <1>1 DEF InterruptsInv, TypeOK
  <2> QED BY <1>1, <1>3, <2>1 DEF InterruptsInv, TypeOK
<1>5. CpuInv' /\ GateInv' /\ ServiceInv'
  BY <1>1, <1>3 DEF InterruptsInv, CpuInv, GateInv, GateReady, ServiceInv
<1> QED BY <1>2, <1>4, <1>5 DEF InterruptsInv

LEMMA RanTyped ==
  ASSUME TypeOK, NEW v \in DOMAIN interrupt_handlers
  PROVE  interrupt_handlers[v] \in {"none", "timer", "keyboard"}
BY DEF TypeOK, Range

(* A fault came while nothing was in service: an empty gate cannot let it  *)
(* in between.                                                             *)
LEMMA IsrHandlerStep ==
  ASSUME InterruptsInv, IsrHandler
  PROVE  InterruptsInv'
<1>1. /\ pc = "handler" /\ pc' \in {"unstack", "halted", "lost"} /\ int_no' \in Words
      /\ Served < IRQ0
      /\ UNCHANGED <<boot, gates, interrupt_handlers, irr, in_service, eflags_if, sti_shadow,
                     vector, stack, regs>>
  BY DEF IsrHandler, picVars
<1>2. StackInv'
  BY <1>1, FrameStays DEF InHandler
<1>3. ran' \in {"none", "timer", "keyboard"}
  BY RanTyped DEF IsrHandler, InterruptsInv
<1>4. TypeOK'
  <2>1. \A k \in DOMAIN stack' : stack'[k].kind \in {"eip", "err", "no", "gpr", "seg"}
    BY <1>1 DEF InterruptsInv, TypeOK
  <2> QED BY <1>1, <1>3, <2>1 DEF InterruptsInv, TypeOK
<1>5. in_service.master = {}
  <2>1. vector < IRQ0 /\ vector \in 0..47
    BY <1>1, ServedIsVector DEF InHandler, InterruptsInv, TypeOK
  <2> QED BY <1>1, <2>1 DEF InterruptsInv, ServiceInv, IRQ0
<1>6. CpuInv' /\ GateInv' /\ ServiceInv'
  BY <1>1, <1>5 DEF InterruptsInv, CpuInv, GateInv, GateReady, ServiceInv
<1> QED BY <1>2, <1>4, <1>6 DEF InterruptsInv

LEMMA CallHandlerStep ==
  ASSUME InterruptsInv, CallHandler
  PROVE  InterruptsInv'
<1>1. /\ pc = "call" /\ pc' \in {"unstack", "lost"}
      /\ UNCHANGED <<boot, gates, interrupt_handlers, irr, in_service, eflags_if, sti_shadow,
                     vector, stack, regs, int_no>>
  BY DEF CallHandler, picVars
<1>2. StackInv'
  BY <1>1, FrameStays DEF InHandler
<1>3. ran' \in {"none", "timer", "keyboard"}
  BY RanTyped DEF CallHandler, InterruptsInv
<1>4. TypeOK'
  <2>1. \A k \in DOMAIN stack' : stack'[k].kind \in {"eip", "err", "no", "gpr", "seg"}
    BY <1>1 DEF InterruptsInv, TypeOK
  <2> QED BY <1>1, <1>3, <2>1 DEF InterruptsInv, TypeOK
<1>5. CpuInv' /\ GateInv' /\ ServiceInv'
  BY <1>1 DEF InterruptsInv, CpuInv, GateInv, GateReady, ServiceInv
<1> QED BY <1>2, <1>4, <1>5 DEF InterruptsInv

(* The stub takes back all it has pushed, with or without an error code.   *)
LEMMA UnstackStep ==
  ASSUME InterruptsInv, Unstack
  PROVE  InterruptsInv'
<1>1. /\ pc = "unstack" /\ pc' = "sti"
      /\ UNCHANGED <<boot, gates, interrupt_handlers, irr, in_service, eflags_if, sti_shadow,
                     vector, int_no, ran>>
  BY DEF Unstack, picVars
<1>2. PICK flag \in BOOLEAN, error \in {0, 1} : (flag => Late) /\ stack = Framed(flag, error)
  BY <1>1 DEF InterruptsInv, StackInv, InHandler
<1>3. regs' = [gpr |-> 0, seg |-> 0] /\ stack' = <<ReturnTo(flag)>>
  <2>1. /\ Last(stack).value = 0 /\ stack[Len(stack) - 1].value = 0
        /\ SubSeq(stack, 1, Len(stack) - 4) = <<ReturnTo(flag)>>
    BY <1>2, FramedWords, Zenon
  <2> QED BY <2>1 DEF Unstack
<1>4. \A k \in DOMAIN stack' : stack'[k].kind \in {"eip", "err", "no", "gpr", "seg"}
  BY <1>3, ReturnKinds
<1>5. TypeOK'
  <2>1. regs' \in [gpr : {0, 1}, seg : {0, 1}]
    BY <1>3
  <2> QED BY <1>1, <1>4, <2>1 DEF InterruptsInv, TypeOK
<1>6. StackInv'
  BY <1>1, <1>2, <1>3 DEF StackInv, InHandler, Late
<1>7. CpuInv' /\ GateInv' /\ ServiceInv'
  BY <1>1, <1>3 DEF InterruptsInv, CpuInv, GateInv, GateReady, ServiceInv
<1> QED BY <1>5, <1>6, <1>7 DEF InterruptsInv

LEMMA StiStep ==
  ASSUME InterruptsInv, Sti
  PROVE  InterruptsInv'
<1>1. /\ pc = "sti" /\ pc' = "iret" /\ eflags_if' = TRUE /\ sti_shadow' = TRUE
      /\ UNCHANGED <<boot, gates, interrupt_handlers, irr, in_service, vector, stack, regs, int_no, ran>>
  BY DEF Sti, picVars
<1>2. TypeOK'
  <2>1. \A k \in DOMAIN stack' : stack'[k].kind \in {"eip", "err", "no", "gpr", "seg"}
    BY <1>1 DEF InterruptsInv, TypeOK
  <2> QED BY <1>1, <2>1 DEF InterruptsInv, TypeOK
<1>3. StackInv'
  BY <1>1 DEF InterruptsInv, StackInv, InHandler, Late
<1>4. CpuInv' /\ GateInv' /\ ServiceInv'
  BY <1>1 DEF InterruptsInv, CpuInv, GateInv, GateReady, ServiceInv
<1> QED BY <1>2, <1>3, <1>4 DEF InterruptsInv

LEMMA IretStep ==
  ASSUME InterruptsInv, Iret
  PROVE  InterruptsInv'
<1>1. PICK flag \in BOOLEAN : (flag => Late) /\ stack = <<ReturnTo(flag)>>
  BY DEF Iret, InterruptsInv, StackInv
<1>2. /\ Last(stack).value[1] = "main" /\ Last(stack).value[2] = flag /\ Front(stack) = <<>>
  BY <1>1, ReturnWords
<1>3. /\ pc = "iret" /\ pc' = "main" /\ eflags_if' = flag /\ stack' = <<>> /\ sti_shadow' = FALSE
      /\ UNCHANGED <<boot, gates, interrupt_handlers, irr, in_service, vector, regs, int_no, ran>>
  BY <1>2 DEF Iret, picVars
<1>4. TypeOK'
  <2>1. \A k \in DOMAIN stack' : stack'[k].kind \in {"eip", "err", "no", "gpr", "seg"}
    BY <1>3
  <2> QED BY <1>3, <2>1 DEF InterruptsInv, TypeOK
<1>5. StackInv'
  BY <1>1, <1>3 DEF StackInv, InHandler, Late
<1>6. CpuInv' /\ GateInv' /\ ServiceInv'
  BY <1>3 DEF InterruptsInv, CpuInv, GateInv, GateReady, ServiceInv
<1> QED BY <1>4, <1>5, <1>6 DEF InterruptsInv

LEMMA StutterStep ==
  ASSUME InterruptsInv, UNCHANGED vars
  PROVE  InterruptsInv'
<1>1. UNCHANGED <<boot, gates, interrupt_handlers, irr, in_service, eflags_if, sti_shadow, pc,
                  vector, stack, regs, int_no, ran>>
  BY DEF vars, picVars, cpuVars
<1>2. TypeOK'
  BY <1>1 DEF InterruptsInv, TypeOK
<1>3. StackInv'
  BY <1>1 DEF InterruptsInv, StackInv, InHandler, Late, Pushed, Framed
<1>4. CpuInv' /\ GateInv' /\ ServiceInv'
  BY <1>1 DEF InterruptsInv, CpuInv, GateInv, GateReady, ServiceInv
<1> QED BY <1>2, <1>3, <1>4 DEF InterruptsInv

-----------------------------------------------------------------------------
(* The boot sequence, the stubs of isr.asm and the two handlers: the whole *)
(* stack at every place, for any lines, faults and words in int_no.        *)
THEOREM InterruptsInvariant == Spec => []InterruptsInv
<1>1. InterruptsInv /\ [Next]_vars => InterruptsInv'
  <2> SUFFICES ASSUME InterruptsInv, [Next]_vars PROVE InterruptsInv'
    OBVIOUS
  <2> QED BY BootStep, RaiseStep, DeliverStep, FaultStep, StubStep, IrqHandlerStep,
             IsrHandlerStep, CallHandlerStep, UnstackStep, StiStep, IretStep, StutterStep
          DEF Next, Handling
<1> QED BY <1>1, InitInv, PTL DEF Spec

(* Every variable of the path keeps its type.                              *)
THEOREM InterruptsTypeOK == Spec => []TypeOK
<1>1. InterruptsInv => TypeOK
  BY DEF InterruptsInv
<1> QED BY <1>1, InterruptsInvariant, PTL

(* sti comes after the controllers are remapped and all gates are there,   *)
(* so no request and no fault ever finds an empty gate, which would be a   *)
(* double fault (irq.c:80-101).                                            *)
THEOREM InterruptsGateReady == Spec => []GateReady
<1>1. InterruptsInv => GateReady
  BY DEF InterruptsInv, GateInv
<1> QED BY <1>1, InterruptsInvariant, PTL

(* Interrupts never nest, and kernel_main gets back the stack and the      *)
(* registers it had, with and without an error code from the CPU           *)
(* (isr.asm:10-27 and 118-141).                                            *)
THEOREM InterruptsContextRestored == Spec => []ContextRestored
<1>1. InterruptsInv => ContextRestored
  <2> SUFFICES ASSUME InterruptsInv PROVE ContextRestored
    OBVIOUS
  <2> DEFINE eips == {k \in DOMAIN stack : stack[k].kind = "eip"}
  <2>1. eips = {} \/ eips = {1}
    <3>1. CASE pc = "main"
      BY <3>1 DEF InterruptsInv, StackInv
    <3>2. CASE pc = "stub"
      <4>1. PICK flag \in BOOLEAN : stack = Pushed(flag)
        BY <3>2 DEF InterruptsInv, StackInv
      <4> QED BY <4>1, PushedOnce
    <3>3. CASE InHandler
      BY <3>3, FramedWords DEF InterruptsInv, StackInv
    <3>4. CASE pc \in {"sti", "iret"}
      BY <3>4, ReturnWords DEF InterruptsInv, StackInv
    <3> QED BY <3>1, <3>2, <3>3, <3>4 DEF InterruptsInv, TypeOK, InHandler
  <2>2. Cardinality(eips) <= 1
    <3>1. Cardinality({}) = 0 /\ Cardinality({1}) = 1
      BY FS_EmptySet, FS_Singleton
    <3> HIDE DEF eips
    <3> QED BY <2>1, <3>1
  <2>3. pc = "iret" => Len(stack) = 1 /\ Last(stack).kind = "eip"
    BY ReturnWords DEF InterruptsInv, StackInv
  <2>4. /\ pc \in {"main", "iret"} => regs = [gpr |-> 0, seg |-> 0]
        /\ pc = "main" => stack = <<>>
    BY DEF InterruptsInv, StackInv, CpuInv
  <2> QED BY <2>2, <2>3, <2>4 DEF ContextRestored
<1> QED BY <1>1, InterruptsInvariant, PTL

(* Whatever regs->int_no reads as, the first controller has nothing in     *)
(* service when kernel_main runs, so no line of it is blocked              *)
(* (irq.c:117-120).                                                        *)
THEOREM InterruptsMasterReleased == Spec => []MasterReleased
<1>1. InterruptsInv => MasterReleased
  BY DEF InterruptsInv, ServiceInv, MasterReleased
<1> QED BY <1>1, InterruptsInvariant, PTL
=============================================================================
