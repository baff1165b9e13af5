-------------------------------- MODULE Boot --------------------------------
(***************************************************************************)
(* The kernel's start, kmain in kernel.c: the components one after the     *)
(* other, from the framebuffer to the APIC, together with the UART, which  *)
(* runs on its own.  PMM, VMM, Slab and Interrupts have what pmm_init,     *)
(* vmm_init, slab_init and idt_init do; here they only take their place.   *)
(*                                                                         *)
(* Two phases stand for calls of libraries: one shape is drawn, which no   *)
(* caller does yet, and one text is formatted, for all the texts the       *)
(* kernel's messages have.                                                 *)
(***************************************************************************)
EXTENDS Acpi, Kprintf, Serial, Gdt, Drawing

CONSTANTS
  TagLists, \* the boot loader's tags, in their order
  Shapes,   \* what is drawn
  Calls,    \* what is formatted: the items and count
  CPUs      \* what cpuid may answer

VARIABLES
  phase,         \* where kmain is
  cpu,           \* the processor; chosen when the kernel first asks it
  gate_selector, \* the selector in the gates of the IDT; 0 before it is loaded
  lapic,         \* what was written to the local APIC, by the offset of the register
  kernel         \* "running", or "undefined": on the way with other registers

bootVars == <<phase, cpu, gate_selector, lapic, kernel>>
vars == <<acpiVars, kprintfVars, serialVars, gdtVars, drawingVars, bootVars>>

NoTag == [identifier |-> "none", screen |-> NoScreen]
NoCPU == [cpuid_max |-> 0, ebx |-> <<>>, edx |-> <<>>, ecx |-> <<>>, apic |-> FALSE]
----------------------------------------------------------------------------
(* Helpers.                                                                *)

\* The first tag of the list with the identifier.
stivale2_get_tag(tags, id) ==
  LET n == SelectInSeq(tags, LAMBDA t : t.identifier = id)
  IN IF n = 0 THEN NoTag ELSE tags[n]

\* The boot loader has a framebuffer, as its header asks for, what is drawn
\* lies on the screen, and arguments go with their formats.
ASSUME BootAssumption ==
  /\ \A tags \in TagLists :
       stivale2_get_tag(tags, "STIVALE2_STRUCT_TAG_FRAMEBUFFER_ID").screen \in Screens
  /\ \A s \in Shapes, screen \in Screens : FitsScreen(s, screen)
  /\ \A c \in Calls : WellFormedCall(c)
  /\ \A processor \in CPUs : {processor.ebx, processor.edx, processor.ecx} \subseteq Seq(STRING)

\* Whether the registers are filled; they are 0 otherwise.
cpuid(processor, leaf) == leaf <= processor.cpuid_max

GetVendorString == 0
GetFeatures     == 1

apic_is_available == cpuid(cpu, GetFeatures) /\ cpu.apic

\* Four characters of a register, which no terminator follows.
FourOf(register) ==
  [specifier |-> "s", flags |-> {"PRECISION"}, width |-> 0, precision |-> 4,
   length |-> "", arg |-> {register}]

VendorItems(processor) ==
  IF cpuid(processor, GetVendorString)
    THEN <<FourOf(processor.ebx), FourOf(processor.edx), FourOf(processor.ecx)>>
  ELSE <<FourOf(<<>>), FourOf(<<>>), FourOf(<<>>)>>

\* The string in the buffer.
BufferText ==
  LET end == CHOOSE k \in DOMAIN buffer : buffer[k] = NUL /\ \A l \in 0 .. k - 1 : buffer[l] # NUL
  IN [k \in 1 .. end |-> buffer[k - 1]]

Phase(p) == phase = p
Enter(p) == phase' = p

SameLibraries == UNCHANGED <<kprintfVars, drawingVars>>
SameMachine == UNCHANGED <<acpiVars, gdtVars, cpu, gate_selector, lapic>>

\* A statement that ends with a message on the serial console.
LogAndEnter(status, text, p) ==
  /\ Say(serial_log_impl(status, text))
  /\ Enter(p)
----------------------------------------------------------------------------
(* The framebuffer and the serial port.                                    *)

FramebufferInit ==
  /\ Phase("framebuffer") /\ Enter("draw")
  /\ \E tags \in TagLists :
       framebuffer_init(stivale2_get_tag(tags, "STIVALE2_STRUCT_TAG_FRAMEBUFFER_ID").screen)
  /\ SameMachine /\ UNCHANGED <<kprintfVars, serialVars>>

Draw ==
  /\ Phase("draw")
  /\ \/ /\ UNCHANGED phase
        /\ \E s \in Shapes :
             \/ s.kind = "line" /\ framebuffer_draw_line(s)
             \/ s.kind = "circle" /\ framebuffer_draw_circle(s)
     \/ (DrawNext \/ CircleNext) /\ UNCHANGED phase
     \/ framebuffer_reset_screen /\ Enter("serial")
  /\ SameMachine /\ UNCHANGED <<kprintfVars, serialVars>>

SerialInitPhase ==
  /\ Phase("serial")
  /\ \/ serial_init /\ UNCHANGED phase
     \/ LogAndEnter("INFO", <<"Framebuffer and serial initialized">>, "welcome")
  /\ SameMachine /\ SameLibraries

\* The rest of a string; all statements wait until it is sent.
SendString ==
  /\ serial_send_char
  /\ SameMachine /\ SameLibraries /\ UNCHANGED phase

\* The logo in blue, and "Kernel started".
Welcome ==
  /\ Phase("welcome")
  /\ Say(serial_set_color("blue") \o <<"Welcome to:", "small_logo_text">> \o serial_set_color("reset")
           \o serial_log_impl("INFO", <<"Kernel started">>))
  /\ Enter("format")
  /\ SameMachine /\ SameLibraries

\* vsnprintf, for all messages.
Format ==
  /\ Phase("format") /\ SerialIdle
  /\ \/ Returned /\ call = NoCall /\ UNCHANGED phase /\ snprintf(Calls)
     \/ KprintfNext /\ UNCHANGED phase
     \/ Returned /\ call # NoCall /\ KprintfReset /\ Enter("pmm")
  /\ SameMachine /\ UNCHANGED <<drawingVars, serialVars>>
----------------------------------------------------------------------------
(* Memory, segments and interrupts.                                        *)

PmmInit ==
  /\ Phase("pmm") /\ LogAndEnter("INFO", <<"PMM initialized">>, "vmm")
  /\ SameMachine /\ SameLibraries

VmmInit ==
  /\ Phase("vmm") /\ LogAndEnter("INFO", <<"VMM initialized">>, "gdt")
  /\ SameMachine /\ SameLibraries

GdtPhase ==
  /\ Phase("gdt") /\ gdt_init
  /\ LogAndEnter("INFO", <<"GDT initialized">>, "idt")
  /\ SameLibraries /\ UNCHANGED <<acpiVars, cpu, gate_selector, lapic>>

\* The gates get their selector, and interrupts are enabled.
IdtInit ==
  /\ Phase("idt") /\ gate_selector' = 8
  /\ LogAndEnter("INFO", <<"IDT initialized">>, "slab")
  /\ SameLibraries /\ UNCHANGED <<acpiVars, gdtVars, cpu, lapic>>

SlabInit ==
  /\ Phase("slab") /\ LogAndEnter("INFO", <<"Slab initialized">>, "vendor")
  /\ SameMachine /\ SameLibraries
----------------------------------------------------------------------------
(* The processor, ACPI and the APIC.                                       *)

\* cpu_get_vendor_string, with snprintf(vendor_string, 13, "%.4s%.4s%.4s").
GetVendor ==
  /\ Phase("vendor") /\ SerialIdle
  /\ \/ /\ Returned /\ call = NoCall /\ UNCHANGED <<phase, serialVars>>
        /\ \E processor \in CPUs :
             cpu' = processor /\ snprintf({[items |-> VendorItems(processor), count |-> 13]})
     \/ KprintfNext /\ UNCHANGED <<phase, serialVars, cpu>>
     \/ /\ Returned /\ call # NoCall /\ KprintfReset
        /\ LogAndEnter("INFO", <<"CPU Vendor ID String:">> \o BufferText, "acpi")
        /\ UNCHANGED cpu
  /\ UNCHANGED <<acpiVars, gdtVars, drawingVars, gate_selector, lapic>>

AcpiPhase ==
  /\ Phase("acpi") /\ SerialIdle
  /\ \/ AcpiNext /\ UNCHANGED <<phase, serialVars>>
     \/ step = "done" /\ LogAndEnter("INFO", <<"ACPI initialized">>, "apic") /\ UNCHANGED acpiVars
     \/ step = "halted" /\ LogAndEnter("ERROR", <<"Kernel halted!">>, "halted") /\ UNCHANGED acpiVars
  /\ SameLibraries /\ UNCHANGED <<gdtVars, cpu, gate_selector, lapic>>

lapic_write_register(reg, data) == lapic' = [r \in DOMAIN lapic \cup {reg} |-> IF r = reg THEN data ELSE lapic[r]]

\* APIC_SOFTWARE_ENABLE and the vector 255, to offset 0xF.
lapic_enable == lapic_write_register(15, 256 + 255)

ApicInit ==
  /\ Phase("apic")
  /\ \/ /\ ~apic_is_available /\ UNCHANGED lapic
        /\ LogAndEnter("ERROR", <<"No APIC was found on this computer!", "Kernel halted!">>, "halted")
     \/ apic_is_available /\ lapic_enable /\ SerialIdle /\ Enter("idle") /\ UNCHANGED serialVars
  /\ SameLibraries /\ UNCHANGED <<acpiVars, gdtVars, cpu, gate_selector>>
----------------------------------------------------------------------------
Init ==
  /\ kernel = "running" /\ phase = "framebuffer" /\ cpu = NoCPU /\ gate_selector = 0 /\ lapic = [r \in {} |-> 0]
  /\ AcpiInit /\ KprintfIdle /\ SerialInit /\ GdtInit /\ DrawingInit

kmain ==
  \/ FramebufferInit \/ Draw \/ SerialInitPhase \/ SendString \/ Welcome \/ Format
  \/ PmmInit \/ VmmInit \/ GdtPhase \/ IdtInit \/ SlabInit \/ GetVendor \/ AcpiPhase \/ ApicInit

Run == kernel = "running" /\ kmain /\ UNCHANGED kernel

Uart ==
  /\ UartSend
  /\ SameMachine /\ SameLibraries /\ UNCHANGED <<phase, kernel>>

\* Once idt_init has enabled them, an IRQ comes between two instructions of
\* kmain, and its handler returns with the registers in another order (see
\* Interrupts): what the kernel does from there on is undefined.  It may also
\* need none of those that changed, which is no step here.  The loops at the
\* end, kmain's and those that halt the kernel, need no register.
Interrupt ==
  /\ kernel = "running" /\ gate_selector # 0
  /\ ~(phase \in {"idle", "halted"} /\ str = <<>>)
  /\ kernel' = "undefined"
  /\ SameMachine /\ SameLibraries /\ UNCHANGED <<serialVars, phase>>

Next == Run \/ Uart \/ Interrupt

\* The kernel runs on, as long as no IRQ has changed its registers, and the
\* UART sends on; nothing makes an IRQ come or stay away.
Spec == Init /\ [][Next]_vars /\ WF_vars(Run) /\ WF_vars(Uart)
----------------------------------------------------------------------------
(* Properties.                                                             *)

\* Each variable has its type, and a library is only at work in its phase.
TypeOK ==
  /\ phase \in {"framebuffer", "draw", "serial", "welcome", "format", "pmm", "vmm", "gdt", "idt",
                "slab", "vendor", "acpi", "apic", "idle", "halted"}
  /\ kernel \in {"running", "undefined"}
  /\ cpu \in CPUs \cup {NoCPU} /\ gate_selector \in {0, 8} /\ DOMAIN lapic \subseteq {15}
  /\ AcpiTypeOK /\ KprintfTypeOK /\ SerialTypeOK /\ GdtTypeOK /\ DrawingTypeOK
  /\ phase \notin {"format", "vendor"} => call = NoCall
  /\ phase # "draw" => pixels = {}

\* Whenever the processor may use a segment, it can: the registers refer to
\* descriptors that are present, of ring 0 and of the right kind, and once
\* interrupts may come (gdt.c:117-141, idt.c:37), their gates lead to 64-bit
\* code and the task register has the address of tss, of which gdt_init has
\* put each part into a field of its own.
SegmentsUsable ==
  /\ segment.cs \in KernelCode(gdtr)
  /\ \A r \in {"ds", "es", "fs", "gs", "ss"} : segment[r] \in KernelData(gdtr)
  /\ gate_selector # 0 => gate_selector \in KernelCode(gdtr) /\ tr = tss

\* kmain comes to its end or halts with a message, and all it wrote to the
\* serial port arrives there; only a table whose checksum is never complete
\* stops it, or an IRQ that comes before (kernel.c:39-80, serial.c:61-67,
\* acpi.c:86-105, definitions.inc:34).
BootEnds ==
  \/ <>[](phase \in {"idle", "halted"} /\ str = <<>> /\ line = said)
  \/ <>[](step = "hung" /\ phase = "acpi")
  \/ <>[](kernel = "undefined")
=============================================================================
