----------------------------- MODULE Interrupts -----------------------------
(***************************************************************************)
(* Interrupts in KnutOS: the IDT (interrupts/idt.c), the stubs with the    *)
(* saving and restoring of registers (interrupts/isr_asm.s,                *)
(* assembly/definitions.inc), isr_handler (interrupts/interrupts.c), the   *)
(* PIC driver (devices/pic/pic.c) and the beginning of the keyboard        *)
(* handler, interleaved with the kernel's own code and the devices.        *)
(*                                                                         *)
(* The kernel's code is a sequence of instructions, of which only those    *)
(* that reach a PIC, the IDT or the keyboard's data port matter; an IRQ    *)
(* may arrive between any two of them.  The empty sequence is the hlt loop *)
(* at the end of kmain, which uses no register.  Code that goes on with    *)
(* other registers than it had is undefined from there on, unless it needs *)
(* none of those that changed: both outcomes are explored.                 *)
(***************************************************************************)
EXTENDS Integers, Sequences, FiniteSets, SequencesExt

CONSTANTS
  Devices,       \* the IRQ lines, 0 to 15, of the devices that raise IRQs
  Calls,         \* the calls the kernel makes once it is up
  FaultVectors,  \* the exceptions that occur
  InitialMasks   \* the masks the firmware leaves in the two PICs

PICs == {"master", "slave"}
Lines == 0 .. 7
Cascade == 2      \* the line of the master the slave is connected to
Keyboard == 1     \* the keyboard's line

\* Sixteen lines, 32 exceptions, and the functions of pic.c and keyboard.c.
ASSUME InterruptsAssumption ==
  /\ Devices \subseteq 0 .. 15 /\ FaultVectors \subseteq 0 .. 31
  /\ InitialMasks \subseteq [PICs -> SUBSET Lines]
  /\ Calls \subseteq {[name |-> "keyboard"]} \cup
                     [name : {"set_mask", "clear_mask"}, line : 0 .. 15]

VARIABLES
  status,      \* "running", "halted" by an exception, or "undefined"
  code,        \* the instructions the kernel still has to execute
  saved,       \* the masks the running function has read and not yet written
  interrupts,  \* the interrupt flag
  idt,         \* the gates created so far
  pics,        \* the two PICs
  regs,        \* the registers of the interrupted code
  stack,       \* what the running handler has on the stack, top first
  obf          \* the keyboard's data register holds a byte

vars == <<status, code, saved, interrupts, idt, pics, regs, stack, obf>>
----------------------------------------------------------------------------
(* Instructions, and the functions that consist of them.                   *)

In(p) == [op |-> "in", pic |-> p]
Command(p, value) == [op |-> "command", pic |-> p, value |-> value]
Data(p, value) == [op |-> "data", pic |-> p, value |-> value]
\* The mask read before is written, with one more line set or clear.
DataSaved(p, set, clear) == [op |-> "saved", pic |-> p, set |-> set, clear |-> clear]
Gates(vectors) == [op |-> "gates", vectors |-> vectors]
Simple(op) == [op |-> op]

PicOf(line) == IF line < 8 THEN "master" ELSE "slave"
LineIn(line) == line % 8

\* The remapping of the two PICs to the given vectors.
RemapTo(master, slave) ==
  << In("master"), In("slave"),
     Command("master", 17),  Command("slave", 17),
     Data("master", master), Data("slave", slave),
     Data("master", 4),      Data("slave", 2),
     Data("master", 1),      Data("slave", 1),
     Data("master", 0),      Data("slave", 0),
     Data("master", 1),      Data("slave", 1),
     DataSaved("master", {}, {}), DataSaved("slave", {}, {}) >>

\* Mutants: the vectors of the firmware; one vector offset for both PICs.
pic_remap_firmware == RemapTo(8, 112)
pic_remap_same == RemapTo(32, 32)

pic_remap == RemapTo(32, 40)

pic_disable == <<Data("slave", 255), Data("master", 255)>>

\* Mutant: the line is not reduced to one of the slave.
pic_set_mask_unreduced(line) ==
  <<In(PicOf(line)), DataSaved(PicOf(line), {line}, {})>>

pic_set_mask(line) ==
  <<In(PicOf(line)), DataSaved(PicOf(line), {LineIn(line)}, {})>>
pic_clear_mask(line) ==
  <<In(PicOf(line)), DataSaved(PicOf(line), {}, {LineIn(line)})>>

idt_init ==
  <<Gates(0 .. 31)>> \o pic_remap \o <<Gates((32 .. 47) \cup {255})>>
    \o pic_set_mask(Keyboard) \o <<Simple("load_idt")>>

apic_init == pic_remap \o pic_disable

\* keyboard_init up to the loop that clears the data register.
keyboard_init == pic_clear_mask(Keyboard) \o <<Simple("poll")>>

\* From idt_init on; "other" is the code between idt_init and apic_init.
kmain == idt_init \o <<Simple("other")>> \o apic_init

CodeOf(call) ==
  CASE call.name = "set_mask"   -> pic_set_mask(call.line)
    [] call.name = "clear_mask" -> pic_clear_mask(call.line)
    [] call.name = "keyboard"   -> keyboard_init
----------------------------------------------------------------------------
(* The 8259 PIC.  icw is the initialization word it expects next, 0 when   *)
(* it is operating.                                                        *)

Pic == [base : 0 .. 255, imr : SUBSET Lines, irr : SUBSET Lines,
        isr : SUBSET Lines, icw : {0, 2, 3, 4}]

Bits(value) == {l \in Lines : (value \div 2 ^ l) % 2 = 1}

\* A non-specific end of interrupt ends the line of highest priority.
EndOfInterrupt(pic) ==
  [pic EXCEPT !.isr = {l \in @ : \E m \in @ : m < l}]

WriteCommand(pic, value) ==
  IF value = 17 THEN [pic EXCEPT !.imr = {}, !.irr = {}, !.isr = {}, !.icw = 2]
  ELSE EndOfInterrupt(pic)

WriteData(pic, value) ==
  CASE pic.icw = 0 -> [pic EXCEPT !.imr = Bits(value)]
    [] pic.icw = 2 -> [pic EXCEPT !.base = value, !.icw = 3]
    [] pic.icw = 3 -> [pic EXCEPT !.icw = 4]
    [] pic.icw = 4 -> [pic EXCEPT !.icw = 0]

\* Line l requests an interrupt of higher priority than any in service.
Requests(pic, l) ==
  /\ pic.icw = 0 /\ l \notin pic.imr
  /\ \A m \in (pic.irr \ pic.imr) \cup pic.isr : l <= m
  /\ l \notin pic.isr
----------------------------------------------------------------------------
(* The IDT.                                                                *)

\* Where a gate leads: _isr_names_asm has 48 stubs, and a larger index reads
\* what lies behind them.
create_descriptor(index, behind) == IF index < 48 THEN "stub" ELSE behind

CreateGates(vectors) ==
  \E behind \in {"stub", "garbage"} :
    idt' = [v \in DOMAIN idt \cup vectors |->
              IF v \in vectors THEN create_descriptor(v, behind) ELSE idt[v]]
----------------------------------------------------------------------------
(* The kernel's own code, one instruction at a time.                       *)

Idle == code = <<>>

Advance == code' = Tail(code)

ExecutePort(i) ==
  \/ /\ i.op = "in"
     /\ saved' = [saved EXCEPT ![i.pic] = pics[i.pic].imr]
     /\ UNCHANGED pics
  \/ /\ i.op = "command"
     /\ pics' = [pics EXCEPT ![i.pic] = WriteCommand(@, i.value)]
     /\ UNCHANGED saved
  \/ /\ i.op = "data"
     /\ pics' = [pics EXCEPT ![i.pic] = WriteData(@, i.value)]
     /\ UNCHANGED saved
  \/ /\ i.op = "saved"
     /\ pics' = [pics EXCEPT ![i.pic].imr = (saved[i.pic] \cup i.set) \ i.clear]
     /\ saved' = [saved EXCEPT ![i.pic] = {}]

Execute ==
  /\ status = "running" /\ stack = <<>> /\ ~Idle
  /\ LET i == Head(code)
     IN \/ ExecutePort(i) /\ Advance /\ UNCHANGED <<interrupts, idt, obf>>
        \/ /\ i.op = "gates" /\ CreateGates(i.vectors) /\ Advance
           /\ UNCHANGED <<saved, interrupts, pics, obf>>
        \/ /\ i.op = "load_idt" /\ interrupts' = TRUE /\ Advance
           /\ UNCHANGED <<saved, idt, pics, obf>>
        \/ /\ i.op = "poll"
           /\ code' = IF obf THEN <<Simple("read")>> \o code ELSE Tail(code)
           /\ UNCHANGED <<saved, interrupts, idt, pics, obf>>
        \/ /\ i.op = "read" /\ obf' = FALSE /\ Advance
           /\ UNCHANGED <<saved, interrupts, idt, pics>>
        \/ /\ i.op = "other" /\ Advance
           /\ UNCHANGED <<saved, interrupts, idt, pics, obf>>
  /\ UNCHANGED <<status, regs, stack>>

Call(call) ==
  /\ status = "running" /\ stack = <<>> /\ Idle
  /\ code' = CodeOf(call)
  /\ UNCHANGED <<status, saved, interrupts, idt, pics, regs, stack, obf>>
----------------------------------------------------------------------------
(* The way into a handler: the CPU's frame, the stub, and pusha64.  A word *)
(* of the stack is a name and, for the number of an interrupt, its value.  *)

PushOrder == <<"rax", "rbx", "rcx", "rdx", "rbp", "rdi", "rsi", "r8", "r9",
               "r10", "r11", "r12", "r13", "r14", "r15">>
PopOrder == PushOrder
Registers == {PushOrder[k] : k \in DOMAIN PushOrder}

\* The words of interrupt_cpu_state_t, from the top of the stack.
interrupt_cpu_state_t ==
  <<"r15", "r14", "r13", "r12", "r11", "r10", "r9", "r8", "rbp", "rdi", "rsi",
    "rdx", "rcx", "rbx", "rax", "isr_number", "error_code",
    "rip", "cs", "rflags", "rsp", "ss">>
Word(name) == <<name, 0>>

\* The exceptions for which the CPU pushes an error code, and the stubs that
\* expect it.
CpuErrorCodes == {8, 10, 11, 12, 13, 14, 17, 21}
\* Mutant: the stub of the alignment check pushes a 0 of its own.
ErrorStubsFewer == {8, 10, 11, 12, 13, 14, 21}
ErrorStubs == {8, 10, 11, 12, 13, 14, 17, 21}

Stub(vector) ==
  Reverse([k \in DOMAIN PushOrder |-> regs[PushOrder[k]]])
    \o <<<<"isr_number", vector>>>>
    \o (IF vector \in ErrorStubs THEN <<>> ELSE <<Word("zero")>>)
    \o (IF vector \in CpuErrorCodes THEN <<Word("error_code")>> ELSE <<>>)
    \o <<Word("rip"), Word("cs"), Word("rflags"), Word("rsp"), Word("ss")>>

Enter(vector) ==
  /\ interrupts' = FALSE
  /\ IF vector \in DOMAIN idt /\ idt[vector] = "stub"
       THEN stack' = Stub(vector) /\ UNCHANGED status
     ELSE status' = "undefined" /\ UNCHANGED stack

\* The CPU takes the IRQ of a line of the master, or of the slave.
DeliverMaster(l) ==
  /\ status = "running" /\ stack = <<>> /\ interrupts
  /\ l \in pics["master"].irr /\ Requests(pics["master"], l)
  /\ pics' = [pics EXCEPT !["master"].irr = @ \ {l}, !["master"].isr = @ \cup {l}]
  /\ Enter(pics["master"].base + l)
  /\ UNCHANGED <<code, saved, idt, regs, obf>>

DeliverSlave(l) ==
  /\ status = "running" /\ stack = <<>> /\ interrupts
  /\ l \in pics["slave"].irr /\ Requests(pics["slave"], l)
  /\ Requests(pics["master"], Cascade)
  /\ pics' = [pics EXCEPT !["master"].isr = @ \cup {Cascade},
                          !["slave"].irr = @ \ {l}, !["slave"].isr = @ \cup {l}]
  /\ Enter(pics["slave"].base + l)
  /\ UNCHANGED <<code, saved, idt, regs, obf>>

\* A request that goes away before the CPU asks for its vector (that of the
\* keyboard stays while its byte is unread): the PIC answers with line 7 and
\* puts nothing in service, but the master its slave.
Withdraw(p, l) ==
  /\ l \in pics[p].irr /\ Requests(pics[p], l)
  /\ ~(p = "master" /\ l = Keyboard /\ obf)

SpuriousMaster(l) ==
  /\ status = "running" /\ stack = <<>> /\ interrupts
  /\ Withdraw("master", l)
  /\ pics' = [pics EXCEPT !["master"].irr = @ \ {l}]
  /\ Enter(pics["master"].base + 7)
  /\ UNCHANGED <<code, saved, idt, regs, obf>>

SpuriousSlave(l) ==
  /\ status = "running" /\ stack = <<>> /\ interrupts
  /\ Withdraw("slave", l) /\ Requests(pics["master"], Cascade)
  /\ pics' = [pics EXCEPT !["master"].isr = @ \cup {Cascade},
                          !["slave"].irr = @ \ {l}]
  /\ Enter(pics["slave"].base + 7)
  /\ UNCHANGED <<code, saved, idt, regs, obf>>

\* An exception, of the kernel's code or of a handler.
Fault(vector) ==
  /\ status = "running" /\ (interrupts \/ stack # <<>>)
  /\ Enter(vector)
  /\ UNCHANGED <<code, saved, idt, pics, regs, obf>>
----------------------------------------------------------------------------
(* isr_handler, and the way back.                                          *)

\* What isr_handler reads as a field of its argument.
Field(name) ==
  stack[CHOOSE k \in DOMAIN interrupt_cpu_state_t : interrupt_cpu_state_t[k] = name]
IsrNumber == Field("isr_number")[2]

\* Mutant: the slave is not told of its first IRQ.
pic_signal_EOI_above(isr_number) ==
  pics' = [p \in PICs |-> IF p = "slave" /\ isr_number <= 40 THEN pics[p]
                          ELSE WriteCommand(pics[p], 32)]

pic_signal_EOI(isr_number) ==
  pics' = [p \in PICs |-> IF p = "slave" /\ isr_number < 40 THEN pics[p]
                          ELSE WriteCommand(pics[p], 32)]

\* Mutant: an inactive keyboard is not read.
keyboard_irq_handler_unread == UNCHANGED obf

\* The byte is read "in any case"; the keyboard is not active, so no more.
keyboard_irq_handler == obf' = FALSE

isr_handler ==
  /\ IsrNumber \in 32 .. 47
  /\ IF IsrNumber = 32 + Keyboard THEN keyboard_irq_handler ELSE UNCHANGED obf
  /\ pic_signal_EOI(IsrNumber)

\* popa64, add rsp 16 and iretq, which enables interrupts again.  The code
\* that goes on may need a register that changed, or none.
Return ==
  /\ regs' = [r \in Registers |->
                stack[CHOOSE k \in DOMAIN PopOrder : PopOrder[k] = r]]
  /\ stack' = <<>> /\ interrupts' = TRUE
  /\ status' \in IF ~Idle /\ regs' # regs THEN {status, "undefined"} ELSE {status}

HandleIRQ ==
  /\ status = "running" /\ stack # <<>>
  /\ isr_handler
  /\ Return
  /\ UNCHANGED <<code, saved, idt>>

\* "clear interrupts and halt forever"
HandleException ==
  /\ status = "running" /\ stack # <<>> /\ IsrNumber <= 31
  /\ status' = "halted" /\ interrupts' = FALSE
  /\ UNCHANGED <<code, saved, idt, pics, regs, stack, obf>>
----------------------------------------------------------------------------
(* The devices.  The keyboard sends no byte before the last one was read.  *)

Raise(line) ==
  /\ status = "running"
  /\ line = Keyboard => ~obf
  /\ obf' = (obf \/ line = Keyboard)
  /\ pics' = [pics EXCEPT ![PicOf(line)].irr = @ \cup {LineIn(line)}]
  /\ UNCHANGED <<status, code, saved, interrupts, idt, regs, stack>>

Init ==
  /\ status = "running" /\ code = kmain /\ interrupts = FALSE
  /\ \E masks \in InitialMasks :
       /\ pics = [p \in PICs |-> [base |-> IF p = "master" THEN 8 ELSE 112,
                                  imr |-> masks[p], irr |-> {}, isr |-> {}, icw |-> 0]]
  /\ saved = [p \in PICs |-> {}]
  /\ idt = [v \in {} |-> "stub"]
  /\ regs = [r \in Registers |-> Word(r)]
  /\ stack = <<>> /\ obf = FALSE

Deliver ==
  \E l \in Lines : \/ DeliverMaster(l) \/ DeliverSlave(l)
                   \/ SpuriousMaster(l) \/ SpuriousSlave(l)

Next ==
  \/ Execute \/ HandleIRQ \/ HandleException \/ Deliver
  \/ \E call \in Calls : Call(call)
  \/ \E vector \in FaultVectors : Fault(vector)
  \/ \E line \in Devices : Raise(line)

Spec == Init /\ [][Next]_vars

\* The CPU goes on executing, and a request the PIC offers it again and again
\* is taken at last.
FairSpec ==
  /\ Spec
  /\ WF_vars(Execute) /\ WF_vars(HandleIRQ) /\ WF_vars(HandleException)
  /\ \A line \in Devices :
       SF_vars(IF line < 8 THEN DeliverMaster(line) ELSE DeliverSlave(LineIn(line)))
----------------------------------------------------------------------------
(* Properties.                                                             *)

\* Each variable has its type.
TypeOK ==
  /\ status \in {"running", "halted", "undefined"}
  /\ saved \in [PICs -> SUBSET Lines] /\ interrupts \in BOOLEAN
  /\ DOMAIN idt \subseteq 0 .. 255 /\ \A v \in DOMAIN idt : idt[v] \in {"stub", "garbage"}
  /\ pics \in [PICs -> Pic]
  /\ regs \in [Registers -> {Word(r) : r \in Registers}]
  /\ obf \in BOOLEAN
  /\ stack # <<>> => Len(stack) = Len(interrupt_cpu_state_t)

\* No line stays in service when its handler has returned (pic.c:107): a PIC
\* that was not told would never again deliver it or a line below it.
NothingLeftInService ==
  status = "running" /\ stack = <<>> => \A p \in PICs : pics[p].isr = {}

\* The IRQs arrive where idt.c:85 has put "the 16 standard ISA IRQs": the line
\* in service is the one the number passed to isr_handler stands for.
NumberMatchesLine ==
  (status = "running" /\ stack # <<>> /\ IsrNumber > 31) =>
    \A p \in PICs, l \in Lines :
      l \in pics[p].isr =>
        \/ IsrNumber = 32 + l + (IF p = "slave" THEN 8 ELSE 0)
        \/ p = "master" /\ l = Cascade /\ IsrNumber >= 40

\* No IRQ is taken for an exception (interrupts.c:67-68): only a fault halts
\* the kernel.
OnlyFaultsHalt == status = "halted" => IsrNumber \in FaultVectors

\* The dump of an exception (interrupts.c:73-86) shows its error code, the
\* frame and the registers of the code it interrupted, whichever stub was used
\* - but for rbp and rsi, each of which it shows as the other: pusha64
\* (definitions.inc:21-23) and the structure (cpu.h:37-39) disagree on them.
DumpShowsCause ==
  stack # <<>> =>
    /\ Field("error_code")
         = Word(IF IsrNumber \in CpuErrorCodes THEN "error_code" ELSE "zero")
    /\ \A name \in {"rip", "cs", "rflags", "rsp", "ss"} : Field(name) = Word(name)
    /\ \A r \in Registers \ {"rbp", "rsi"} : Field(r) = regs[r]
    /\ Field("rbp") = regs["rsi"] /\ Field("rsi") = regs["rbp"]

\* "read from keyboard controller so that in any case it will be able to send
\* more IRQs" (keyboard.c:157): once keyboard_init is done and nobody masks
\* its line again, no byte blocks the keyboard forever.
KeyboardServed ==
  <>[](status = "running" /\ Idle /\ Keyboard \notin pics["master"].imr) => []<>~obf

\* "pop all" (isr_asm.s:31): a handler leaves the registers of the code it
\* interrupted as they were.
RegistersPreserved == [][regs' = regs]_vars
=============================================================================
