-------------------------------- MODULE Gdt --------------------------------
(***************************************************************************)
(* The segments: the descriptor table and the task state segment of        *)
(* gdt/gdt.c, their loading in gdt/gdt_asm.s, and what the processor makes *)
(* of the descriptors.  A descriptor is eight bytes with the fields of     *)
(* GDT_Descriptor; a byte has ByteValues values, so that addresses of      *)
(* eight bytes stay small.                                                 *)
(***************************************************************************)
EXTENDS Integers

CONSTANTS
  ByteValues,     \* 256 in the code
  TssAddresses,   \* where the linker may have put tss
  BootSegments    \* selectors and descriptors as the boot loader leaves them

\* The values of two, four and eight bytes.
Word  == ByteValues * ByteValues
DWord == Word * Word
QWord == DWord * DWord

ASSUME GdtAssumption ==
  /\ ByteValues \in Nat \ {0, 1}
  /\ TssAddresses \subseteq 0 .. QWord - 1
  /\ DOMAIN BootSegments.segment = {"cs", "ds", "es", "fs", "gs", "ss"}

VARIABLES
  tss,       \* the address of tss
  gdtr,      \* the table in use: descriptors by selector
  segment,   \* the selectors in the segment registers
  tr         \* the base address the processor has read from the TSS's descriptor

gdtVars == <<tss, gdtr, segment, tr>>

TssBytes == 104 \* sizeof(tss)

\* (address >> n) & mask, with the powers of two as numbers.
Bytes(address, shift, values) == ((address \div shift) % values)
----------------------------------------------------------------------------
(* The table.                                                              *)

Descriptor(type, flags) ==
  [limit_15_0 |-> 0, base_15_0 |-> 0, base_23_16 |-> 0,
   type |-> type, limit_19_16_and_flags |-> flags, base_31_24 |-> 0]

\* null, kernel_code, kernel_data, null2, user_data, user_code, ovmf_data,
\* ovmf_code, tss_low and tss_high, in the order of struct GDT.
create_descriptors ==
  LET null == Descriptor(0, 0)
      code == Descriptor(154, 160)  \* 0x9A, 0xA0
      data == Descriptor(146, 160)  \* 0x92, 0xA0
      low  == Descriptor(137, 160)  \* 0x89, 0xA0
      entries == <<null, code, data, null, data, code, data, code, low, null>>
  IN [selector \in {8 * k : k \in 0 .. 9} |-> entries[1 + selector \div 8]]

\* Mutant: the bytes 32 to 47 and 48 to 63 change places.
TssHigh_swapped(descriptor) ==
  [descriptor EXCEPT !.limit_15_0 = Bytes(tss, DWord * Word, Word), !.base_15_0 = Bytes(tss, DWord, Word)]

\* The second half of the descriptor has other fields than its type has.
TssHigh(descriptor) ==
  [descriptor EXCEPT !.limit_15_0 = Bytes(tss, DWord, Word), !.base_15_0 = Bytes(tss, DWord * Word, Word)]

TssLow(descriptor) ==
  [descriptor EXCEPT !.base_15_0 = Bytes(tss, 1, Word), !.base_23_16 = Bytes(tss, Word, ByteValues),
                     !.base_31_24 = Bytes(tss, Word * ByteValues, ByteValues), !.limit_15_0 = TssBytes]

gdt ==
  [create_descriptors EXCEPT ![64] = TssLow(create_descriptors[64]),
                             ![72] = TssHigh(create_descriptors[72])]
----------------------------------------------------------------------------
(* The processor.                                                          *)

\* The base of a system segment, from two descriptors.
SystemBase(table, selector) ==
  LET low  == table[selector]
      high == table[selector + 8]
  IN low.base_15_0 + low.base_23_16 * Word + low.base_31_24 * (Word * ByteValues)
       + high.limit_15_0 * DWord + high.base_15_0 * (DWord * Word)

Present(d) == d.type \div 128 = 1
Ring(d) == ((d.type \div 32) % 4)
IsSegment(d) == ((d.type \div 16) % 2) = 1
IsCode(d) == IsSegment(d) /\ ((d.type \div 8) % 2) = 1
IsLong(d) == ((d.limit_19_16_and_flags \div 32) % 2) = 1
IsFreeTss(d) == (d.type % 32) = 9

\* The selectors an exception, an interrupt or a load may use in ring 0.
KernelCode(table) ==
  {s \in DOMAIN table : Present(table[s]) /\ Ring(table[s]) = 0 /\ IsCode(table[s]) /\ IsLong(table[s])}
KernelData(table) ==
  {s \in DOMAIN table : Present(table[s]) /\ Ring(table[s]) = 0 /\ IsSegment(table[s]) /\ ~IsCode(table[s])}

\* lgdt, ltr, the loads of the data segments and the far return to the
\* kernel's code.
_load_gdt_and_tss_asm(table) ==
  /\ IsFreeTss(table[64]) /\ Present(table[64])
  /\ gdtr' = table
  /\ tr' = SystemBase(table, 64)
  /\ segment' = [cs |-> 8, ds |-> 16, es |-> 16, fs |-> 16, gs |-> 16, ss |-> 16]

gdt_init == _load_gdt_and_tss_asm(gdt) /\ UNCHANGED tss

GdtInit ==
  /\ tss \in TssAddresses
  /\ gdtr = BootSegments.table /\ segment = BootSegments.segment
  /\ tr = -1
----------------------------------------------------------------------------
\* Each variable has its type.
GdtTypeOK ==
  /\ tss \in TssAddresses
  /\ tr \in -1 .. QWord - 1
  /\ DOMAIN segment = {"cs", "ds", "es", "fs", "gs", "ss"}
=============================================================================
