-------------------------------- MODULE Acpi --------------------------------
(***************************************************************************)
(* The ACPI tables at boot: rsdp_init (firmware/acpi/tables/rsdp.c), the   *)
(* check of the RSDT and the search in it (firmware/acpi/acpi.c), and the  *)
(* reading of the MADT's records (firmware/acpi/tables/madt.c), one table  *)
(* or record at a time.                                                    *)
(*                                                                         *)
(* A table has a signature, its length and the sum of its bytes; a MADT    *)
(* also has records, by their offset in it, and the RSDT has entries, the   *)
(* addresses of the tables.  Bytes are counted as in the code.             *)
(***************************************************************************)
EXTENDS Integers, Sequences, SequencesExt

CONSTANTS
  Tables,      \* the tables in memory, by physical address
  Firmwares,   \* what the RSDP and the RSDT may be
  HigherHalf,  \* HIGHER_HALF_DATA
  ArraySlots   \* the pointers that fit into the blocks kmalloc(256) returns

NULL == 0
HeaderBytes == 36  \* sizeof(sdt_header_t)
MadtBytes   == 44  \* the header, lapic_address and flags
ByteMod     == 256 \* values of a uint8_t

\* The record types that have an array: local APIC, I/O APIC, interrupt
\* source override, local APIC NMI.
madt_entry_type_t == {0, 1, 2, 4}

\* The ACPI specification of what the code relies on: entries of four bytes,
\* and records that fill the MADT one behind the other.
WellFormedRsdt(rsdt) ==
  /\ rsdt.entries \in Seq(DOMAIN Tables)
  /\ rsdt.length = HeaderBytes + 4 * Len(rsdt.entries)

\* A local APIC NMI's, of two bytes of header and four bytes.
SmallestRecord == 6

WellFormedMadt(table) ==
  LET offsets == DOMAIN table.records
      next(o) == o + table.records[o].length
  IN /\ table.length \in Nat /\ table.length >= MadtBytes
     /\ offsets \subseteq MadtBytes .. table.length - 1
     /\ \A o \in offsets :
          /\ table.records[o].length \in SmallestRecord .. ByteMod - 1
          /\ next(o) \in offsets \cup {table.length}
     /\ \A o, p \in offsets : o < p => next(o) <= p
     /\ MadtBytes \in offsets \cup {table.length}

ASSUME AcpiAssumption ==
  /\ \A fw \in Firmwares : WellFormedRsdt(fw.rsdt) /\ fw.revision \in Nat
  /\ \A a \in DOMAIN Tables : Tables[a].signature = "APIC" => WellFormedMadt(Tables[a])
  /\ HigherHalf \in Nat /\ \A a \in DOMAIN Tables : a \in 1 .. HigherHalf - 1
  /\ ArraySlots \in Nat

VARIABLES
  firmware,      \* the RSDT, and of the RSDP the sum of 20 bytes and the revision;
                 \* chosen when the kernel first looks at them
  step,          \* where acpi_init is; "hung" in a loop that never ends
  has_xsdt_var,
  i,             \* the entry of the RSDT that is looked at next
  madt,
  table_ptr,     \* the record that is looked at next
  arrays         \* madt_lapics and so on, by record type

acpiVars == <<firmware, step, has_xsdt_var, i, madt, table_ptr, arrays>>
----------------------------------------------------------------------------
phys_to_higher_half_data(address) == HigherHalf + address
TableAt(pointer) == Tables[pointer - HigherHalf]

\* Mutant: a wider counter, which reaches every length.
acpi_check_sdt_header_wide(table, signature) ==
  IF table.signature = signature /\ table.sum = 0 THEN "match" ELSE "mismatch"

\* The checksum is only formed if the signature matches; its loop counts
\* the bytes in a uint8_t, which is below every length from 256 on.
acpi_check_sdt_header(table, signature) ==
  CASE table.signature # signature -> "mismatch"
    [] table.signature = signature /\ table.length >= ByteMod -> "endless"
    [] OTHER -> IF table.sum = 0 THEN "match" ELSE "mismatch"

Goto(s) == step' = s

NoFirmware ==
  [rsdp_sum |-> 0, revision |-> 0,
   rsdt |-> [signature |-> "none", sum |-> 0, length |-> HeaderBytes, entries |-> <<>>]]

\* Mutant: the kernel goes on after a wrong checksum.
rsdp_verify_checksum_ignored(fw) == TRUE

rsdp_verify_checksum(fw) == fw.rsdp_sum = 0

rsdp_init ==
  /\ step = "rsdp"
  /\ \E fw \in Firmwares :
       /\ firmware' = fw
       /\ IF rsdp_verify_checksum(fw)
            THEN Goto("rsdt") /\ has_xsdt_var' = (fw.revision >= 2)
          ELSE Goto("halted") /\ UNCHANGED has_xsdt_var
  /\ UNCHANGED <<i, madt, table_ptr, arrays>>

Rsdt == firmware.rsdt

\* "having a RSDT is equivalent to having ACPI supported"
CheckRsdt ==
  /\ step = "rsdt"
  /\ CASE acpi_check_sdt_header(Rsdt, "RSDT") = "match"    -> Goto("search")
       [] acpi_check_sdt_header(Rsdt, "RSDT") = "mismatch" -> Goto("halted")
       [] acpi_check_sdt_header(Rsdt, "RSDT") = "endless"  -> Goto("hung")
  /\ UNCHANGED <<firmware, has_xsdt_var, i, madt, table_ptr, arrays>>

\* Mutant: the last entry is not looked at.
entry_count_one_less == (Rsdt.length - HeaderBytes - 1) \div 4

\* The RSDT is searched whatever the version is, but its entries are counted
\* as those of an XSDT.
entry_count == (Rsdt.length - HeaderBytes) \div (IF has_xsdt_var THEN 8 ELSE 4)

\* Mutant: the physical address is returned.
FoundAtPhysical(entry) == entry
Found(entry) == phys_to_higher_half_data(entry)

\* One round of acpi_find_sdt_table("APIC"), or its end.
acpi_find_sdt_table ==
  /\ step = "search"
  /\ IF i >= entry_count THEN Goto("halted") /\ UNCHANGED <<i, madt, table_ptr>>
     ELSE LET entry  == Rsdt.entries[i + 1]
              result == acpi_check_sdt_header(Tables[entry], "APIC")
          IN \/ /\ result = "match" /\ Goto("parse")
                /\ madt' = Found(entry)
                /\ table_ptr' = Found(entry) + MadtBytes
                /\ UNCHANGED i
             \/ /\ result = "mismatch" /\ i' = i + 1
                /\ UNCHANGED <<step, madt, table_ptr>>
             \/ /\ result = "endless" /\ Goto("hung")
                /\ UNCHANGED <<i, madt, table_ptr>>
  /\ UNCHANGED <<firmware, has_xsdt_var, arrays>>

\* Mutant: the length is counted from behind the header.
madt_table_length_twice == madt + TableAt(madt).length - HeaderBytes
madt_table_length == madt + TableAt(madt).length

\* One round of the loop of madt_init, or its end.
madt_init ==
  /\ step = "parse"
  /\ IF table_ptr >= madt_table_length THEN Goto("done") /\ UNCHANGED <<table_ptr, arrays>>
     ELSE LET record == TableAt(madt).records[table_ptr - madt]
          IN /\ arrays' = [t \in madt_entry_type_t |->
                             IF t = record.type THEN Append(arrays[t], table_ptr)
                             ELSE arrays[t]]
             /\ table_ptr' = table_ptr + record.length
             /\ UNCHANGED step
  /\ UNCHANGED <<firmware, has_xsdt_var, i, madt>>

AcpiInit ==
  /\ firmware = NoFirmware
  /\ step = "rsdp" /\ has_xsdt_var = FALSE /\ i = 0
  /\ madt = NULL /\ table_ptr = NULL
  /\ arrays = [t \in madt_entry_type_t |-> <<>>]

AcpiNext == rsdp_init \/ CheckRsdt \/ acpi_find_sdt_table \/ madt_init
----------------------------------------------------------------------------
(* Properties.                                                             *)

\* Each variable has its type; pointers point to tables in the higher half.
AcpiTypeOK ==
  /\ step \in {"rsdp", "rsdt", "search", "parse", "done", "halted", "hung"}
  /\ has_xsdt_var \in BOOLEAN
  /\ i \in 0 .. Len(Rsdt.entries)
  /\ madt \in {NULL} \cup {HigherHalf + a : a \in DOMAIN Tables}
  /\ table_ptr \in Nat
  /\ DOMAIN arrays = madt_entry_type_t
  /\ \A t \in madt_entry_type_t : \A k \in DOMAIN arrays[t] : arrays[t][k] > HigherHalf

IsGood(table, signature) ==
  table.signature = signature /\ table.sum = 0 /\ table.length < ByteMod

\* Records are only read after every checksum on the way to them was right
\* (rsdp.c:56, acpi.c:65, 76): the RSDP's, the RSDT's and the MADT's.
OnlyVerifiedTables ==
  step \in {"parse", "done"} =>
    /\ firmware.rsdp_sum = 0
    /\ Rsdt.signature = "RSDT" /\ Rsdt.sum = 0
    /\ TableAt(madt).signature = "APIC" /\ TableAt(madt).sum = 0

\* "traverse RSDT to find table according to identifier" (acpi.c:123): with
\* ACPI 1.0, the kernel halts only if a checksum is wrong or no entry is a
\* good MADT.
ListedTableFound ==
  step = "halted" /\ firmware.revision < 2 =>
    \/ firmware.rsdp_sum # 0 \/ ~IsGood(Rsdt, "RSDT")
    \/ \A k \in DOMAIN Rsdt.entries : ~IsGood(Tables[Rsdt.entries[k]], "APIC")

\* After madt_init each array has the records of its type, all of them, in
\* the order of the table (madt.c:67-105).
RecordsCollected ==
  step = "done" =>
    LET records == TableAt(madt).records
    IN \A t \in madt_entry_type_t :
         /\ ToSet(arrays[t]) = {madt + o : o \in {p \in DOMAIN records : records[p].type = t}}
         /\ \A k, l \in DOMAIN arrays[t] : k < l => arrays[t][k] < arrays[t][l]

\* No array is written behind its block (madt.c:57-60): that no MADT of 256
\* bytes or more is ever read is what the fixed sizes rely on.
ArraysFit == \A t \in madt_entry_type_t : Len(arrays[t]) <= ArraySlots
=============================================================================
