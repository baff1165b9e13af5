# A TLA+ model of KnutOS

KnutOS is a small x86-64 kernel: it sets up memory management, segments, interrupts and ACPI,
logs to a serial port, and has a keyboard driver with a shell screen.  This directory holds TLA+ modules that model it, the TLC
configurations that check them, and proofs that TLAPS checks.  `PROJECT.json` maps every
definition to the lines of `src/` it stands for.

Contents: [inventory](#1-inventory), [modules](#2-modules-and-code),
[runs](#3-runs-bounds-and-what-they-show), [fairness](#4-fairness), [proofs](#5-proofs),
[departures of the code](#6-where-the-code-departs-from-what-it-says),
[what is not modelled](#7-what-is-not-modelled), [plan](#8-plan).

To check: `tlc -config PMMSingle.cfg MCPMM.tla` and so on (section 3 names module and
configuration of each run), and `tlapm PMMProofs.tla` and so on for the eight modules whose name
ends in `Proofs` (half a minute to ten minutes each).

## 1. Inventory

Paths are relative to `src/src/kernel/`, or to `src/src/libs/libk/` where they start with `libk/`.

| component | state | operations | must hold |
|---|---|---|---|
| physical memory manager (`memory/pmm.c`, `memory/mem.h`, `libk/alloc/bitmap.c`) | `pmm_info` (memory map, counters), the bitmap | `pmm_init`, `pmm_alloc(n)`, `pmm_free(p, n)` | no page is given out twice or lost; page 0 and the bitmap's own pages are never given out; a free page is not refused |
| slab allocator (`memory/slab.c`) | 11 slabs: full flag, address range, array of free objects | `slab_init`, `slab_alloc(size)`, `slab_free(p)` | objects never overlap, a freed object is free again |
| kernel heap (`libk/alloc/kmalloc.c`) | the metadata word in front of each block | `kmalloc`, `kfree` | `kfree` finds the right allocator and gives back just what `kmalloc` took |
| virtual memory manager (`memory/vmm.c`) | page tables in memory, `root_page_directory`, cr3, the TLB | `vmm_init`, `vmm_create_page_directory`, `vmm_map_page`, `vmm_unmap_page`, `vmm_flush_tlb`, `vmm_activate_page_directory` | a directory maps exactly what it was told; tables belong to nobody else; the TLB is coherent; the kernel can always reach its tables |
| interrupts (`interrupts/`, `assembly/definitions.inc`, `devices/cpu/cpu.h`) | IDT, saved registers on the stack | `idt_init`, stubs, `isr_handler` | an IRQ arrives as its own number, exceptions show their cause, the interrupted code goes on undisturbed |
| PIC driver (`devices/pic/pic.c`) | the two 8259 chips | `pic_remap`, `pic_disable`, `pic_set_mask`, `pic_clear_mask`, `pic_signal_EOI` | every IRQ is ended at every chip it is in service at |
| keyboard driver (`devices/ps2/keyboard/keyboard.c`) | `is_keyboard_active`, modifier and lock flags, `final_handler` | `keyboard_init`, `keyboard_irq_handler`, `activate_keyboard_processing`, `disable_keyboard_processing` | no byte stays unread, no modifier sticks |
| framebuffer console (`devices/framebuffer/framebuffer.c`, `libk/ssfn.h`) | pixels, cursor | print, scroll, reset; lines, circles | the screen shows the text |
| shell screen (`shell/shell_screen.c`) | the barrier | `shell_prompt`, `shell_print_char` | backspace takes back what was typed, and nothing of the prompt |
| ACPI (`firmware/acpi/`), APIC (`devices/apic/apic.c`) | tables found, the MADT's records | `acpi_init`, `apic_init`, register accesses | only verified tables are used, the arrays are not overrun |
| formatted output (`libk/kprintf/`, `libk/log/`, `libk/debug/`, `libk/stdio/`) | the buffer and the index in it | `snprintf`, `vsnprintf`, `debug`, `serial_log` | the text is what C says, and stays inside `count` bytes |
| serial port (`devices/serial/`) | the 16550's registers and FIFO | `serial_init`, `serial_send_char`, `serial_send_string`, `serial_set_color` | every character arrives, once and in order |
| GDT and TSS (`gdt/`) | descriptors, gdtr, tr, segment registers | `gdt_init` | whatever selector the CPU uses is valid; the TSS is found |
| kernel entry (`kernel.c`) | where it is | `kmain` | each component is ready when the next uses it; the boot ends |
| `math`, `string`, boot header, boot screen | none | pure functions, data | |

How they interact: `kmain` calls the initialisations in a fixed order on one CPU.  `slab_init`,
`kmalloc` and the VMM take pages from `pmm_alloc`; `kmalloc` chooses between pages and slab
objects; ACPI allocates its arrays with `kmalloc`.  Page tables are ordinary pages that the
kernel reaches through the map it is building.  From the end of `idt_init` on, interrupts may
come between any two instructions, also between those of `apic_init`, which remaps the PICs a
second time.  The keyboard's handler calls the shell (`final_handler`), which prints on the
console, all with interrupts disabled.

All messages go character by character through a UART that sends at its own pace, from buffers
that `vsnprintf` fills.

What is hard: long sequences of allocations and releases (which the kernel's tests, a few calls
in a row, do not make); arithmetic at boundaries (bitmap size, half-counted ranges, unsigned
counters); memory that runs out in the middle of an operation; the interleaving of interrupts
with the code that configures them; hardware that must be polled and programmed in the right
order; the arithmetic of padding, prefixes and cut-off texts; a screen that wraps and scrolls one character late while
others remember positions on it.  `PROJECT.json` lists these hazards at their lines.

## 2. Modules and code

| module | models | abstracts from |
|---|---|---|
| `PMM` | `pmm.c`, `bitmap.c`, `mem.h`.  One action for `pmm_init` (steps 2 to 7 of its comments, over any memory map), `Allocate` and `Release` for callers of `pmm_alloc` and `pmm_free` | bytes: memory is counted in pages; a pointer is the number of its virtual page.  Widths stay: `int` bit numbers (`IntMod`), `uint32_t` counters (`CounterMod`), the 64-bit address space (`AddrPages`).  A bit behind the bitmap's end reads as anything and writing one sets `stray` |
| `PageAllocator` | what `PMM` promises: disjoint runs of pages of a pool | |
| `PMMProofs`, `SlabProofs`, `KmallocProofs`, `InterruptsProofs`, `TerminalProofs`, `BootProofs` | theorems about the module of that name (section 5) | |
| `ArithmeticProofs` | lemmas about multiples, remainders, powers of two and iteration that the proofs share | |
| `Slab` | `slab.c`: `slab_init` on the pages it may get, `slab_alloc`, `slab_free` with the range test and the first-empty-slot rule | the page allocator, by the sequences of pages it may return |
| `Kmalloc` | `kmalloc.c`, on instances of `PMM` and `Slab`, booted in `kmain`'s order | all memory but the metadata words |
| `VMM` | `vmm.c`: tables as pages of memory with entries, the walk that allocates tables, map and unmap, the directory's creation and activation; beside it the CPU's page walk and TLB | `pmm_alloc(1)` is the lowest free page, which is what `PMM` does; the loops of `vmm_init` run within one action (interrupts are off then) |
| `AddressSpace` | what `VMM` promises: a directory is a partial function; `Map` and `Unmap` change it at one page, which is mapped to the frame told, with flags among those told, or not at all | |
| `Interrupts` | `idt.c`, `isr_asm.s`, `definitions.inc`, `interrupts.c`, `pic.c` and the first part of the keyboard's handler; the kernel's code as a sequence of port accesses, between which IRQs, spurious IRQs and exceptions come | instructions that touch neither a PIC, the IDT nor the keyboard's port; the 8259s are modelled from the port values the code writes |
| `Console` | the text part of `framebuffer.c`, pixel by pixel, with the glyphs of `ssfn_putc` | colours and glyph shapes: a pixel holds the character that covers it |
| `Keyboard` | scancode table, modifiers, locks, characters | key codes are named, not numbered |
| `Shell` | `shell_screen.c` on `Console` | `typed`, what the user sees as entered, is kept beside it to compare the screen with |
| `Terminal` | the keyboard's handler with the shell as `final_handler`, and a user who presses, holds and releases keys | |
| `Boot` | `kmain` from `framebuffer_init` to its idle loop, with `stivale2_get_tag`, `cpuid`, the vendor string, `apic_init` and the register write of `lapic_enable`; it EXTENDS the next five, each of which has its own variables and actions | `pmm_init`, `vmm_init`, `slab_init` and the PICs, which the modules above have: here they take their place in the order.  Of IRQs it has what they do to `kmain`, `Interrupt` |
| `Acpi` | `rsdp.c`, `acpi.c`, `madt.c`: checksums, the search in the RSDT, the collection of the MADT's records | bytes: a table is its signature, length, sum and records |
| `Kprintf` | `kprintf.c`: a call of `snprintf`, one item of the format a step, with all integer, character, string and pointer conversions; below it the text according to the C standard | the format's characters: an item is a record of what they say.  How many values the types have is a constant for each |
| `Serial` | `serial.c`, `debug.c`, `log.c`, one port write or character a step, and a 16550 with divisor latch, FIFO and a transmitter of its own | characters: a colour's code, a caller's place or a text is one of them |
| `Gdt` | `gdt.c`, `gdt_asm.s`, and the CPU's reading of descriptors | a byte has `ByteValues` values |
| `Drawing` | lines and circles of `framebuffer.c`, one pixel (or eight) a step | colours: a pixel has the drawn one or not |
| `Math` | `pow`, from which `slab.c` has its sizes; TLC compares it with `^` | overflow, which no size reaches |
| `MC...` | instances for TLC | |

State corresponds by name wherever TLA+ allows it (`used_pages`, `is_full`, `highest_page`,
`shell_prompt`, ...).  A definition called a mutant is a wrong version of the one that
follows; the runs must be able to tell the two apart.

Decisions a reader should know:

- **Callers.** Clients of an allocator hold at most one block each, free it once and as a whole.
  They do not write outside it, and in `PMM`, `Slab` and `Kmalloc` what they write inside does not
  matter.  In `VMM` it does: a page that comes back holds one of `Contents`.
- **Undefined behaviour.** Bits behind the bitmap's end are any value at every read.  A gate made
  from an index behind `_isr_names_asm` is a stub or garbage.  Code that is resumed with other
  registers goes on or makes the state `undefined`, after which no step of the kernel follows: whether it needs a
  register that changed is a question of what the compiler made of it, so `Interrupts` and `Boot` have both outcomes.  Data behind the scancode table looks like any key.
- **Memory map.** `WellFormedMap` is what stivale2 guarantees (usable entries do not overlap) plus
  page numbers below 2^31, i.e. less than 8 TiB of memory.
- **Tables.** The RSDT's length fits its entries, and a MADT's records, of at least
  six bytes, fill it one behind the other (`AcpiAssumption`), as the ACPI specification says; checksums may be wrong.
- **Segments.** The boot loader's segments are a constant of `Boot`; that they are usable before
  `gdt_init` is an assumption on it, that they stay so is checked.
- **UART.** Writing a full transmitter loses the character; bit 5 of the line status means that
  the FIFO is empty.  The divisor latch replaces two registers while it is on.  The UART starts with any
  of `UartStates`.
- **C standard.** `TextAsInC` compares with definitions written from the standard (7.21.6.1), not from
  the code.  `Departs` says for which conversions the code prints something else, section 6.
- **Firmware state.** Both PICs start at the vectors of a BIOS; masks either all set or open
  for the lines of devices.

## 3. Runs, bounds and what they show

All runs but two allow deadlock (`CHECK_DEADLOCK FALSE`): kernels halt after an exception or when
the boot is over, an access that faults ends the VMM, and allocators whose clients cannot continue stop.

| run | module, configuration | instance | distinct states |
|---|---|---|---|
| `pmm_single` | `MCPMM`, `PMMSingle` | 4 clients, single pages, 6 maps of at most 8 pages | 581 |
| `pmm_run_not_free` | `MCPMM`, `PMMRunsNotFree` | blocks of 1 and 2 pages | violation |
| `slab_use` | `MCSlab`, `SlabUse` | 4 clients, 3 slabs of 8 bytes, one request size without a slab | 5435 |
| `slab_leak` | `MCSlab`, `SlabLeak` | the same | violation |
| `kmalloc_uniform` | `MCKmalloc`, `KmallocUniform` | 3 clients, two small sizes and a big one, 9 pages | 1340 |
| `vmm_use` | `MCVMM`, `VMMUse` | 3 levels of 5 entries, 2 memory maps of 19 and 20 pages, 2 directories, 2 client pages, 2 addresses, read-only and writable | 37034 |
| `vmm_stale` | `MCVMM`, `VMMStale` | memory that was used before | violation |
| `irq_service` | `MCInterrupts`, `IrqService` | lines 1, 3, 8; exceptions 6 and 17; calls of mask functions and `keyboard_init` | 180304 |
| `irq_registers` | `MCInterrupts`, `IrqRegisters` | boot with the keyboard alone | violation |
| `terminal_use` | `MCTerminal`, `TerminalUse` | 2 lines of 4 glyphs, 6 keys, 8 characters a line | 118465 |
| `terminal_tab` | `MCTerminal`, `TerminalTab` | 2 lines of 5 glyphs, with a tab key | violation |
| `kernel_boot` | `MCBoot`, `Boot` | 3 processors, 2 UART states, RSDTs of up to 3 entries over 5 tables, 25 by 23 pixels, integer types of 16, 32, 64 and 256 values | 81475 |

**pmm_single.** `PageConservation`: a page of the pool that has a bit is clear in the bitmap or in exactly one
block.  `NullPageReserved`, `BitmapSafe`: page 0 and the bitmap are never handed out.
`WritesAtBitmapEnd`: usable memory behind the end of the bitmap makes `pmm_init` write there, and only
memory that ends by less than a byte's bits behind what whole pages of bitmap describe reaches so far.  `NeverRefusesFreePage`: the
counter that guards `pmm_alloc` never claims exhaustion while a page is free.
`ImplementsPageAllocator`: refinement, for the pages that have a bit.  Bounds: four maps put the host of the bitmap first,
in the middle, behind an entry that is too short, and consumed whole, with page 0 usable and
not; the bitmaps of two others end one page before memory does, where a usable page or one of the kernel's is; eight pages and four clients exhaust memory and make every order of releases; constants
keep the ratios of the code (`KbFactor` > 1, an `int` narrower than an address).

**slab_use.** `NoOverlap`: no byte is in two objects held or free, although frees permute the
slots.  `RangeConserved`: an object within its slab's recorded range is never lost.  As in the
code a range counts half of a slab's bytes.  Two slabs share a page, one has a page of its own.

**kmalloc_uniform.** `FreeFindsAllocator`: the low bits of a pointer tell blocks of pages from
slab objects, and the size `kfree` reads before a block of pages is the one of this block.  `BlocksDisjoint` (with metadata) and `PagesAccounted`: the bitmap marks exactly
the slabs' pages and the blocks'.  One big size only: with two, blocks overlap for the
reason `pmm_run_not_free` shows.  Blocks made from a NULL below are excluded (section 6).

**vmm_use.** `TablesExclusive`: no table is reachable by two paths, free, or a client's.
`TLBCoherent`: a cached translation is what the active tables say.  `FaultOnlyWithoutMemory`:
the kernel reaches every table it writes through its own map; it faults only when memory is used
up, or when a page above the first 4 GiB has become a table, which can happen with memory left.  `NoTableLost`: every page is free, a client's or a table;
clients unmap only what is mapped (section 6).  `ImplementsAddressSpace`: a call of `vmm_map_page` that returns maps its page to
its frame with flags among those it was told, one of `vmm_unmap_page` leaves it unmapped, and no other
page of any directory changes.  Bounds: `vmm_init` takes 15 tables.  In one memory map four pages
are left, in the other five, two of them above the map of the low pages, so that exhaustion, and a
fault with a page left, occur.  One address needs
tables of two levels, the other lies in a table of the code area, whose upper tables are read-only;
memory is cleared, since on used memory `vmm_stale` shows the properties fail.

**irq_service.** From `idt_init` on, IRQs of the keyboard, a serial port and a device of the slave,
each possibly spurious, and exceptions with and without error code, also inside handlers.
`NothingLeftInService`: when a handler has returned, no chip is blocked.  `NumberMatchesLine`,
`OnlyFaultsHalt`: no IRQ arrives under another number or as an exception, during both remappings
too.  `DumpShowsCause`: the dump's error code, frame and registers are in their fields for either kind of stub, but `rbp`
and `rsi`, which are in each other's.
`KeyboardServed` (liveness): once `keyboard_init` has run and while the line stays unmasked, no
byte blocks the keyboard for good, even if an edge was lost while `apic_init` remapped, or the handler read the
byte between `keyboard_init`'s test of the status and its read of the data.  IRQs that return with other registers into
code that is not idle leave the state as it is or make it `undefined`, so what a kernel does that survives them is checked too.
One line of lower and one of higher priority than the cascade, and one behind it, are the cases
the priority logic knows.

**terminal_use.** `ScreenShowsLine`: through wrapping, scrolling and backspaces over line ends
the pixels before the cursor are the prompt's line and what was typed.
`BackspaceTakesBackTyped`: backspace changes the screen if and only if something typed is left on
it.  `NoModifierStuck`: with all keys up no modifier is set, whatever the order, and whatever the
prefix byte 0xE0 was taken for.  Two lines of four glyphs make the prompt scroll at once, and
eight characters scroll it off the top.  The screen consists of whole glyphs and there is no tab:
sections 6 and `terminal_tab` say why.

**kernel_boot.** The phases of `kmain`, with a UART that sends in between.
`NoCharacterLost`: from the first message on, what has arrived and what the UART still holds is all
the kernel sent; it needs the order of `serial_init`'s writes and the poll before each
character.  `TextAsInC`: a call of `snprintf` leaves in the buffer what C says, cut off and
terminated within `count` bytes, and returns the length of the whole; items that `Departs` are excluded, the combinations
of section 6 among them.  The calls combine eight
types of integer conversion, up to two flags, no precision or 0, 1 or 3, widths of both signs and values of both
signs with a second item behind, and cut strings off at every interesting place; the vendor
string (three `%.4s` into 13 bytes) is formatted from the processor's registers.
`SegmentsUsable`: segment registers and, once interrupts may come, the gates' selector refer to
present descriptors of the right kind, and the CPU finds the TSS where it is: its address has eight
different bytes, so no exchange goes unnoticed.  `PixelsOnCurve`: every pixel of a line is at most half a
pixel off and between the ends, and the line is a chain from its start; those of circles are less than
a pixel and a half inside and half a pixel outside the ideal circle, which is closed and crosses every column and row in reach.
Lines start at 18 points, in all directions and slopes; the radii are 1, 2, 3, 8 and 11, of which the last is the first to
have pixels more than one pixel inside (section 6); unused bytes at the end of a row tell the pitch from the width.  `OnlyVerifiedTables`: records are read only after
the checksums of RSDP, RSDT and MADT were right.  `ListedTableFound`: with ACPI 1.0 the search ends
without a MADT only if no entry is a good one (with later versions it may, section 6).
`RecordsCollected`: every record is in the array of its type, in the table's order, and records of other
types in none.  `ArraysFit`: no array is overrun, although nothing in `madt_init` checks that: tables of
256 bytes and more never get that far.  The tables are one of another kind, a good, a wrong, a full
(35 records) and a too long MADT, in any order and number up to two, and two orders of three.
`BootEnds` (liveness): the kernel idles or halts, with all its messages on the line, unless it sums a
table of 256 bytes or more or an IRQ, which may come once `idt_init` has enabled them, returns to it with other registers.  The phases run one after the other, so the choices that do not depend
on one another (shape, format, processor, firmware) are made when they are first used.

The five violations are described in section 6.

## 4. Fairness

Two modules have a liveness property.  `Boot` assumes weak fairness of `Run`, the steps of `kmain` as long as its
registers are its own: nothing but interrupts takes the CPU from it.  These return, but with the registers permuted
(`irq_registers`), which may end the boot at any point behind `idt_init`; `Interrupt` is that outcome,
and has no fairness.  `Boot` assumes weak fairness of `Uart` too: a transmitter with
a character sends it, without handshake in this configuration.  That is what makes the poll in
`serial_send_char` end.

In `Interrupts`, `FairSpec` assumes weak fairness of the CPU (`Execute`,
`HandleIRQ`, `HandleException`: an enabled instruction is executed) and strong fairness of the
delivery of each device's line: the chip offers a pending request whenever interrupts are enabled
and nothing of higher priority is pending, and the CPU takes it at an instruction boundary sooner
or later.  It is strong because requests of lines above interrupt the offer.  That is justified as
long as no line above is raised without end faster than it is handled; the timer, which has
the highest priority, is therefore not among the devices.  Neither users nor devices nor callers
are assumed to do anything.  All other properties are safety properties, checked without fairness.

## 5. Proofs

Each theorem holds for all values of the constants that satisfy the named assumptions of its
module (which TLC evaluates on every run's instance) and the hypotheses named below.  Every module has one or
more inductive invariants, proved to hold initially and to be kept by each action.

| module | theorems (properties) | inductive invariant | hypotheses |
|---|---|---|---|
| `PMMProofs` | `TypeCorrect` (`TypeOK`), `NullPageStaysReserved` (`NullPageReserved`) | `Inv` | none |
| | `PagesConserved` (`PageConservation`), `PMMImplements` (`ImplementsPageAllocator`) | `CInv` | `SinglePages` |
| | `BitmapStaysSafe` (`BitmapSafe`) | `BInv` | `SinglePages`, `HostsExist` |
| | `StrayBitsAreBehindTheEnd` (`WritesAtBitmapEnd`) | `SInv` | `SinglePages`, `MemoryExists` |
| | `FreePagesAreFound` (`NeverRefusesFreePage`) | `UInv` | `SinglePages`, `BitmapsCover`, `CounterFits` |
| `SlabProofs` | `SlotsHoldOwnObjects` (`TypeOK`), `ObjectsNeverOverlap` (`NoOverlap`), `RangeNeverLoses` (`RangeConserved`), `RangeIsFreed` | `SlabInv` | `NoPageRefused` |
| `KmallocProofs` | `HeapKeepsTypes` (`TypeOK`), `KfreeFindsAllocator` (`FreeFindsAllocator`), `BlocksNeverOverlap` (`BlocksDisjoint`), `EveryPageHasOwner` (`PagesAccounted`) | `HeapInv` | `UniformBlocks`, `CounterFits`, `BitmapsCover`, `EmptyRequestsSafe` |
| `VMMProofs` | `TablesBelongToOne` (`TablesExclusive`), `EveryPageIsKept` (`NoTableLost`) | `VmmInv` | `PagesComeCleared`, `MappedIsUnmapped` |
| | `TLBIsCoherent` (`TLBCoherent`), `NothingElseIsMapped` (`OnlyMappedPages`) | `CpuInv` | the same |
| | `TypeCorrect` (`TypeOK`), `FaultsHaveAReason` (`FaultOnlyWithoutMemory`) | `ClientInv` | the same, `AddressesApart` |
| | `VmmImplementsAddressSpace` (`ImplementsAddressSpace`) | `CpuInv` | the same as the first |
| `InterruptsProofs` | `WordsOfHandler` (`TypeOK`), `HandlersEndTheirIRQs` (`NothingLeftInService`), `NumbersMatchLines` (`NumberMatchesLine`), `NoIRQHalts` (`OnlyFaultsHalt`), `StubsAgreeWithState` (`DumpShowsCause`), `EveryInterruptHasItsGate` | `IrqInv` | none |
| `TerminalProofs` | `ModifiersAreReleased` (`NoModifierStuck`) | `ModifierInv` | `KeysInTable` |
| | `TypeCorrect` (`TypeOK`) | `ModifierInv`, `ShellTyped` | `KeysInTable`, `ScreenOfGlyphs`, `PromptIsText` |
| | `LineIsShown` (`ScreenShowsLine`), `PromptIsNotErased` (`BackspaceTakesBackTyped`) | `TerminalInv` | the same, `PromptFits`, `NoTabKey` |
| `BootProofs` | `CharactersArrive` (`NoCharacterLost`) | `SerialInv` | none |
| | `TablesVerified` (`OnlyVerifiedTables`), `MadtFound` (`ListedTableFound`), `AllRecordsCollected` (`RecordsCollected`) | `AcpiInv` | none |
| | `ArraysNeverOverrun` (`ArraysFit`) | `AcpiInv` | `RoomForSmallest` |
| | `SegmentsStayUsable` (`SegmentsUsable`) | `SegmentInv` | `BootSegmentsUsable` |
| | `CurvesAreDrawn` (`PixelsOnCurve`) | `DrawInv` | none |
| | `TextsAreTerminated`, `TextIsAsInC` (`TextAsInC`) | `KprintfInv` | none |
| | `TypeCorrect` (`TypeOK`) | `KprintfInv`, `AcpiTyped`, `DrawInv`, `MainInv` and the above | none |

Why the invariants are needed, and the hypotheses:

**PMM.** `Inv` adds to `TypeOK` that `highest_page` fits an `int` twice and that before
`pmm_init` the map is one of `MemMaps` and nobody holds a block.  Page 0 needs it because
a release clears the bits its pointer converts to: the invariant keeps pointers to pages from
1 up, and the arithmetic lemmas (`HigherHalfInverse`, `PhysicalPointerBit`) show that conversion
through the higher half and truncation to an `int` lose nothing.  `CInv` adds
`PageConservation`, that the pool lies below `highest_page` and that the bitmap has the size computed from it.  Pages behind the bitmap's end have no bit;
they are in no block, or the block is none of its pages.  The refinement maps `pmm_init` to `Populate` and the others to `Allocate`, `Release`
or a stutter.  `BInv` adds that the pool and the bitmap's pages are disjoint, which is
`Shrink`'s doing.  `SInv` adds that a usable page behind the bitmap
has led to a write there, and that there is no such write unless memory reaches behind it; `MissingBits` is the arithmetic of the two roundings.  `UInv` is an equation for
`used_pages`: 1024 times the number of pages, less all usable pages, plus the pages that are not
free; so 0 means that nothing is free, unless the counter wraps.

Without `SinglePages` the code hands out pages twice (`pmm_run_not_free`).  `HostsExist`: an entry has room for the bitmap, whose own pages
have bits; `BitmapsCover`, which only `FreePagesAreFound` needs: there is no page behind its end; `CounterFits` (less than 16 GiB of memory) keeps the counter
from wrapping, `MemoryExists` says that a map is not empty.

**Slab.** `SlabInv` adds that the slabs' bytes are disjoint, that no object is in two
slots, that what a client holds came from the slab of its size and is free nowhere, that no two clients hold
the same object, and `RangeConserved`.  The last one is a pigeonhole argument: `slab_free` finds a NULL slot in the slab because
an object is in a slot or held and there are as many slots as objects.  Since it frees only the objects of the
address range (`slab_leak`), `RangeIsFreed` speaks of those.  `NoPageRefused`: `slab_init` does not test for NULL.

**Kmalloc.** `KmallocInv` has the two allocators' invariants, that the slabs lie in the pages
taken for them and those are no client's, that a block of pages starts on a page's boundary plus
the metadata, that a small block is an object of the slab of its rounded size, that the metadata word of each holds its
size, and that the marked pages are exactly those with an owner.  kfree's test of the low bits needs that no object
behind its metadata is at a multiple of the page size plus the metadata unless it is a block of pages, hence powers of two and
the sizes of slabs in the assumptions.
`EmptyRequestsSafe`: `kmalloc(0)` returns the address behind its metadata, which must not be a page's first byte; objects of
eight bytes come from slab 2, in the first half of a page, so KnutOS satisfies it by the order of its sizes.  `RunsWereFree`, an action formula, says that the pages
`slab_init` and `kmalloc` get from `pmm_alloc` were free.  For runs of two pages or more, which is what every big block is, `pmm_alloc` does not ensure that
(`pmm_run_not_free`).  It happens to hold where all big blocks take the same number of pages and memory suffices for one of each client, and there it is proved: `UniformBlocks(count)` says
that each big request takes `count` pages and that what `pmm_init` leaves of each map is the slabs' pages, followed by places of `count` pages, one at least for each client.
`HeapInv` adds to `KmallocInv` that the slabs' pages are those, that each big block lies in a place (`PlacesOK`) - so that the first clear bit behind the slabs is the start of a free place - and
that `used_pages` is the number of marked pages and some more (`CountOK`), so that `pmm_alloc` does not refuse.  `CounterFits` keeps that number from wrapping.  `kmalloc_uniform`'s instance satisfies all of it.
Big blocks of several sizes are not covered, and blocks do overlap there.
What `PMMProofs` and `SlabProofs` show is proved again here for the instances `P` and `S`: the prover cannot use a theorem of an
instance.

**VMM.** A directory is the root of a tree of pages.  `VmmInv` says that these trees are a
forest (`Forest`): a table is at one depth of one directory, no two entries point to the same table, an
entry of an upper table that is present points to memory, and every page that is free or a client's is cleared and no
table.  The loops of the walk and of `vmm_init` are recursive functions; `Iteration` gives a function for each of them, and what
a step keeps the loop then keeps (`WalkKeepsForest`, `RangeStays`).  On top of that come lemmas on the CPU's walk: two
walks that meet in a table came there by the same entries (`SamePath`), and the
entries of all levels name the page (`SameDigits`, which is where the powers in `PowersAssumption` are used).
So writing an entry of level 1 changes one page of one directory (`LeafWriteViews`), and a new table, being cleared,
changes none (`TableWriteViews`); `Mapping` is what `vmm_map_page` and `vmm_unmap_page` do then.
`VmmImplementsAddressSpace` follows for the directories from `Mapping`, and for what each call was told (`AsTold`) from the same views (`CallsAreTold`).
`CpuInv` says that the TLB holds what the active directory maps and that this is nothing but the areas and
clients' pages, `ClientInv` that the active directory maps each low page to itself, with which the kernel finds its tables.

`PagesComeCleared` (memory starts cleared, and clients clear what they give back) is what the code
relies on and does not ensure (`vmm_stale`).  `MappedIsUnmapped`: clients unmap only what is mapped (section 6).
`AddressesApart`: clients leave the three areas alone; nothing in the code stops them from unmapping the pages of the kernel's tables.
`vmm_use` satisfies all three.

**Interrupts.** `IrqInv` says at which instruction of `kmain` the kernel is and how far each
PIC's initialisation has got by then (`Booting`), that afterwards both are remapped and all 48 gates are stubs (`Running`), that a handler's
stack is one of the 48 stubs' with its fields in their places (`RegistersWherePushed` has the general registers, of which `rbp` and `rsi` lie in each other's), and that a line in service belongs to
the running handler.  The second remapping, with its masks open, is where `Booting` is needed.
`EveryInterruptHasItsGate` is an action property: only a handler's return with other registers makes the state undefined,
never a missing gate.

**Terminal.** `ModifierInv`: a modifier is set only if one of its keys is down or the release is
among the bytes still to be read, and a driver that is not active has none set.
`KeysInTable`: behind the table any data is a key.

For the screen, the pixels are a row of places, each the size of a glyph, one line after the other;
`Shows` says which character each place in front of the cursor has.  Wrapping leaves the place of
the cursor as it is, scrolling moves the cursor and all glyphs back by one line, a glyph moves it one place on
(`Wrapping`, `Scrolling`, `PutGlyph`), and a backspace goes back over
the end of a line (`Backspacing`).  `framebuffer_print_char` wraps and scrolls
before it looks at its character, so the cursor may rest behind the last place of the screen, and the shell has moved
the barrier by then.  Hence `BarrierInv` does not compare the barrier with the display but with the
settled one (`Settled`), which the next character will find: the cursor is `Len(typed)` places behind the barrier there.
The barrier's row may be negative, once the prompt has scrolled off.  `BarrierTells` derives from it that the cursor is at the
barrier only when nothing is typed, the case of a cursor at the very end included.

`ScreenOfGlyphs`: 1080 lines are no multiple of 16, and then the last line of the screen is cut off (section 6).
`PromptFits`: a last line of the prompt as long as the screen is wide would leave the barrier in a column where no
backspace puts the cursor.  `NoTabKey`: a tab's four blanks can scroll the screen with the barrier
unmoved, which is what `terminal_tab` shows; `TypeCorrect` needs neither of these two.
`terminal_use` satisfies them all.

**Boot.** Lemmas about what a step changes (`SerialSteps`, `AcpiSteps`,
`SegmentSteps`) reduce each theorem to the steps of one component.  `SerialInv` says which registers `serial_init` has
programmed before each of its seven writes, that nothing is sent before the last of them, and that the UART
never has more than one character, which makes a FIFO of any size large enough.
`AcpiInv`: the entries that the search has passed are no good MADT, and while a MADT is read, the pointer is
at a record or at the end, each array has exactly the records before it, and they take up at least six bytes each.
`RoomForSmallest`: an array has room for 35 pointers; 32, what `madt.c` asks
`kmalloc` for, would not do.  `SegmentInv` adds that past `gdt_init` the table is loaded and that before `idt_init` no gate is.
`AddressFromFields` shows that the five fields of the descriptor make up every address again.

`DrawInv` says which points the pixels are (`PointOfIndex`: no two points share a pixel) and where the pen is.  For a line
it is at a point (`LinePen`) whose error is the distance from the ideal line, and whatever the
error, the step it tells to take leaves twice the distance within the longer side (`NearestStep`).  For a circle the pen is
at the end of an arc (`IsArc`), a function from columns to rows that falls by at most one, and d is a linear function of the
coordinates and of x^2 + y^2 - r^2 (`OffCircle`).  `NearCircle` is an invariant that bounds
this number by the radius and is linear in it, so that a step is linear arithmetic (`NearStep`).  That the circle is
closed where the eighths meet depends on how the loop ends, which has three cases (`ArcNeighbours`), and that it
crosses every column is a discrete intermediate value theorem (`ArcCrosses`).
`BootAssumption` says that shapes lie on the screen and that a circle has a radius, which the functions do not check.

`KprintfInv` says that the buffer holds what the items have printed so far, one behind the other (`Joins`), up to the next
character or the end of the room, and nothing behind; `TextsAreTerminated` is what the terminator makes of that, for
every format, also those C promises nothing about.  `TextIsAsInC` compares item by item (`ItemAsInC`), and of these the
numbers are the work.  The code divides and collects the last digit first, C's text is defined from the first digit on:
`DigitsSpellNumeral` shows that one is the reverse of the other, by induction along `value \div base`
(`DivisionRecursion` gives the function that each of the two recursive definitions chooses, `NumeralByDivision` and
`DigitsByDivision` its equation).  `_ntoa_format` then appends zeros, the prefix and the sign to that reverse, each as far
as the buffer has room, replaces zeros by the prefix where the width is reached, and pads at one of three places;
`FormatWithSpaces` and `FormatWithZeros` say that all this is a prefix in front of digits laid out in a width (`Laid`), on
the condition `Admitted` on its parameters and that the result fits.  `NumberAdmitted` derives that condition from
`~Departs`: `NumberZeroed` and `NumberPrefix` are the precision and the prefix, of which the zero of an octal number
(`OctalHead`) depends on the first digit.  `%p` is the `X` conversion of a `long` (`PointerAsInC`), a string is cut off before it is padded
(`StringAsInC`).  Last, `JoinsAsInC` shows that the text of the items is the one the recursive `CFormat` chooses.
`WellFormedCall`, in `BootAssumption`, says what a caller owes: numbers for the conversions of numbers,
strings for those of strings, and flags and lengths that there are.  The number of values of each type, of characters
in the buffer and of bytes a pointer has are any but zero.

`TypeCorrect` needs the invariants of the parts where a type depends on more than one variable: that a driver's string has
a next character, that a table that is read exists, that a point is on the screen.  `MainInv` has
the variables of `kmain` itself and the segments.

Only model-checked: `KeyboardServed` and `BootEnds`, which are liveness properties.  The prover has no rule for fairness and ENABLED.

No module declares a RECURSIVE operator.

## 6. Where the code departs from what it says

Shown by a run:

- `pmm_run_not_free` - `pmm_alloc(n)` checks that the first page is free, not the other n - 1
  (`pmm.c:212-221`).  Every big `kmalloc` asks for at least two pages.
- `slab_leak` - a slab's range ends after 1024 of its 2048 bytes (`slab.c:92`): objects of the
  second half are never taken back.
- `irq_registers` - `popa64` pops in the order in which `pusha64` pushed
  (`definitions.inc:34`): after an IRQ the registers are permuted.  Once `kmain`
  idles in its `hlt` loop, which uses none, that does no harm; before, from the end of `idt_init` on, it may end the boot,
  which is an outcome of `BootEnds`.  In `irq_service` interrupts during other code either leave the state as it is or make it
  `undefined`; its properties speak of the former.
- `vmm_stale` - new page tables are not cleared (`vmm.c:122`), so what their page held before is a
  mapping; only a directory's own page is cleared (`vmm.c:104`).
- `terminal_tab` - a tab that wraps on the last line scrolls without moving the barrier
  (`shell_screen.c:79`), and backspace then eats the prompt.

In the model, and in a passing run whose property says when it happens:

- The bitmap's bytes are rounded down before they are rounded up to pages (`pmm.c:93`): just above
  a boundary, `pmm_init` clears bits behind the bitmap.  `pmm_single` has two such maps (`UncoveredMaps`), and
  `WritesAtBitmapEnd` is the condition.
- `rbp` and `rsi` have each other's place in `interrupt_cpu_state_t` (`cpu.h:37`); `DumpShowsCause` says so.

In the model, with the case left out of the passing runs:

- `pmm_alloc` compares with a counter that starts from a page count 1024 times too large, modulo
  2^32 (`pmm.c:232`): it can read 0 with pages left.  `CounterMod` is large enough in the runs.
- `slab_alloc` sets `is_full` when an allocation fails and nothing clears it (`slab.c:132`).
- `slab_init` uses a NULL page (`slab.c:81`); `PageSupplies` contains none in the runs.
- `kmalloc` without memory writes the metadata through NULL, that is to address 0, and returns the address one page
  behind, or a block at address 8 when a slab is empty (`kmalloc.c:45, 60`); `kfree` of the former clears the bits of
  page 0 and the pages behind it.
- Gate 255 is made from a stub behind the table of 48 (`idt.c:104`); no vector 255 is raised.
- `vmm_unmap_page` of a page that is not mapped allocates tables with flags 0, which are lost
  (`vmm.c:222, 242`); `UnmapUnmapped` is FALSE in the runs, and `NoTableLost`
  does not hold without that.
- During `apic_init`'s remapping the masks are open for a few port writes (`pic.c:34-67`): the run
  has the IRQs that arrive then and shows that they arrive under their numbers and are ended, and that an edge may get lost.
  They return into `apic_init` with other registers, like any IRQ.
- On a screen that is not made of whole glyphs (1080 is no multiple of 16), the last line's cursor
  is never at `fb_height - 16` before the first scroll, so the barrier does not move, and half a
  line is cut off (`framebuffer.c:251`).
- With two shift keys down, releasing one ends shifting (`keyboard.c:180`): the flag is shared.
  0xE0 and scancodes above 0x52 read behind the table (`keyboard.c:174, 185`), and the
  comments of the table's last nine entries name scancodes six above their index.
- The loop that sums a table's bytes counts in a `uint8_t` (`acpi.c:91`): for a table of 256 bytes or
  more it never ends.  `Acpi` has it as `step = "hung"`.  Only tables with the signature searched for
  are summed, so RSDTs of 56 entries and large MADTs are affected.
- With ACPI 2.0 the RSDT is still used, but its entries are counted as if they had eight bytes
  (`acpi.c:126`): the second half is not searched, and a MADT there is not found.
- The arrays for the MADT's records are taken as 256 bytes (`madt.c:57`), 32 pointers, but a MADT of
  255 bytes may have 35 records of one type; they fit because `kmalloc(256)` comes from
  objects of 512 bytes.

- A new table gets the flags of the mapping it is made for (`vmm.c:122`), and the CPU allows what the entries of all
  levels allow: a page mapped as writable below a table made for a read-only one cannot be written.  The tables of the
  code area are such.  `vmm_use` has the case; `AddressSpace` allows a target with fewer flags.
- Tables are written at their physical address, which `vmm_init` maps up to 4 GiB, but `pmm_alloc` gives
  out any page (`vmm.c:118`): `vmm_use` has the fault, and `FaultOnlyWithoutMemory` allows it.
- Of formatted numbers (`Departs`): with `#` and no precision, the prefix overwrites digits when the number is
  just as wide as the width (`kprintf.c:234`); `-` drops the zeros of a precision (`kprintf.c:219`), so `%-.1d` prints nothing for 0;
  `#` with `o` adds a second zero, or none at all; a negative precision counts as 0 instead of as
  none (`kprintf.c:709`); `%p` ignores a width and prints 16 digits, `%b` is not in C; and
  numbers of more than `PRINTF_NTOA_BUFFER_SIZE` characters are cut off.  The kernel's own formats
  meet none of these.
- A line that is not straight ends as soon as one coordinate is reached (`framebuffer.c:159`), so its last
  pixel may be missing; a circle of radius 0 draws four stray pixels.  The loop for circles changes d with the
  new x and y (`framebuffer.c:208`), Bresenham's algorithm with the old ones: it goes inwards early, and some circles, of radius 11
  for instance, have pixels more than a pixel inside.  Shapes outside the screen
  write outside the framebuffer or into the next row.  Nothing calls either function.
- `lapic_enable` writes to offset 0xF (`apic.h:25`), while the spurious vector register is at 0xF0: the local
  APIC is not enabled, contrary to the comment at `apic.c:95`.  `Boot` records the write in `lapic`.

Read in the code and not in the model:

- `lapic_read_register` adds the register to a pointer to `uint32_t` before it reads (`apic.c:84`),
  while `lapic_write_register` adds it before the cast (`apic.c:92`); the I/O APIC is accessed at
  the address of its MADT record, and IOWIN at 0x40 instead of 0x10 (`apic.c:117-123`).
- The user segments of the GDT have DPL 0 (`gdt.c:71, 79`), and the TSS's limit is its size, not
  one less, in units of pages (`gdt.c:104, 130`): harmless as long as there is no user mode.
- `printk`, `debug` and the logs pass -1 as `count` for buffers of 5120 bytes (`stdio.c:32`), which are
  declared `const`; no text of the kernel is that long.
- `pow` promises 0 for negative exponents (`math.c:21`), but gives 1 or -1 for the bases 1 and -1
  and divides by zero for 0; all callers pass positive exponents.
- `kmain` uses the framebuffer's tag without testing that there is one (`framebuffer.c:46`).

## 7. What is not modelled

- `lapic_read_register`, `lapic_signal_eoi`, the I/O APIC's registers, `serial_recv`, `fctprintf` and the
  boot screen, which nothing calls.
- `keyboard_send_command`, which writes only while the controller is busy, and
  `disable_keyboard_processing`, which nobody calls (a modifier held across it would stick).
- The floating point conversions of `kprintf.c`, which are not compiled; the parsing of a format's
  characters (an item says what was parsed); the wording of messages, of which `Boot` has one for
  each phase, and their copy on the framebuffer (`kernel_log`).
- The header for the boot loader, the logo and `definitions.h`: data.  `ssfn.h` and `stivale2.h` are
  vendored; `ssfn_putc` appears in `Console` as the code uses it.  `graphics/` is a stub.
- `memset` and `memcmp` as functions: they are parts of their callers' definitions.
- In `VMM`: what follows the fault when `pmm_alloc` returned NULL (its conversion to a physical address, 0x0000800000000000, is not canonical: the model stops there); CR0.WP,
  since the kernel leaves it as it found it; the choice between four and five levels, which is the constant
  `Levels`.
- Exceptions 29 and 30, whose error codes only AMD's virtualisation has.
- `kfree(NULL)`, which does nothing.

## 8. Plan

Done: all modules of section 2 and the theorems of section 5.

Next: `next_pow_of_two` with overflow against a reference definition.
