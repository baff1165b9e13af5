----------------------------- MODULE BootProofs -----------------------------
(***************************************************************************)
(* Theorems about the kernel's start, for every firmware, UART, processor, *)
(* format and address.  First comes what a step of kmain or of the UART    *)
(* does to the variables of one component; the invariants of a component   *)
(* then only look at its own steps.                                        *)
(***************************************************************************)
EXTENDS Boot, ArithmeticProofs, SequenceTheorems, TLAPS
----------------------------------------------------------------------------
(* Steps by component.                                                     *)

SerialStep ==
  serial_init \/ (\E string : Say(string)) \/ serial_send_char \/ UartSend

\* kmain reaches the serial port only through the driver and the messages.
LEMMA SerialSteps == Next => SerialStep \/ UNCHANGED serialVars
  <1>. SUFFICES ASSUME Next PROVE SerialStep \/ UNCHANGED serialVars
    OBVIOUS
  <1>. USE DEF LogAndEnter, SerialStep
  <1>1. CASE FramebufferInit  BY <1>1 DEF FramebufferInit
  <1>2. CASE Draw  BY <1>2 DEF Draw
  <1>3. CASE SerialInitPhase  BY <1>3 DEF SerialInitPhase
  <1>4. CASE SendString  BY <1>4 DEF SendString
  <1>5. CASE Welcome  BY <1>5 DEF Welcome
  <1>6. CASE Format  BY <1>6 DEF Format
  <1>7. CASE PmmInit \/ VmmInit \/ SlabInit  BY <1>7 DEF PmmInit, VmmInit, SlabInit
  <1>8. CASE GdtPhase \/ IdtInit  BY <1>8 DEF GdtPhase, IdtInit
  <1>9. CASE GetVendor  BY <1>9 DEF GetVendor
  <1>10. CASE AcpiPhase  BY <1>10 DEF AcpiPhase
  <1>11. CASE ApicInit  BY <1>11 DEF ApicInit
  <1>12. CASE Uart  BY <1>12 DEF Uart
  <1>13. CASE Interrupt  BY <1>13 DEF Interrupt
  <1>. QED
    BY <1>1, <1>2, <1>3, <1>4, <1>5, <1>6, <1>7, <1>8, <1>9, <1>10, <1>11, <1>12, <1>13 DEF Next, Run, kmain

\* Only acpi_init changes what is known of the tables.
LEMMA AcpiSteps == Next => AcpiNext \/ UNCHANGED acpiVars
  <1>. SUFFICES ASSUME Next PROVE AcpiNext \/ UNCHANGED acpiVars
    OBVIOUS
  <1>1. CASE AcpiPhase  BY <1>1 DEF AcpiPhase
  <1>2. CASE FramebufferInit \/ Draw \/ SerialInitPhase \/ SendString \/ Welcome \/ Format
    BY <1>2 DEF FramebufferInit, Draw, SerialInitPhase, SendString, Welcome, Format, SameMachine
  <1>3. CASE PmmInit \/ VmmInit \/ SlabInit \/ GdtPhase \/ IdtInit \/ GetVendor \/ ApicInit
    BY <1>3 DEF PmmInit, VmmInit, SlabInit, GdtPhase, IdtInit, GetVendor, ApicInit, SameMachine
  <1>4. CASE Uart \/ Interrupt  BY <1>4 DEF Uart, Interrupt, SameMachine
  <1>. QED  BY <1>1, <1>2, <1>3, <1>4 DEF Next, Run, kmain
----------------------------------------------------------------------------
(* The serial port.                                                        *)

\* The registers serial_init has written before each of its writes, as far
\* as later writes or the UART depend on them.
Programmed ==
  /\ written \in 2 .. 4 => uart.lcr = 128
  /\ written >= 3 => uart.divisor_low = 3
  /\ written >= 4 => uart.divisor_high = 0
  /\ written >= 5 => uart.lcr = 3
  /\ written >= 6 => uart.fcr = 199
  /\ uart \in [Registers -> Byte]

\* Nothing is sent before the port is programmed; from then on the UART has
\* at most one character, since the driver waits until it has none.
SerialInv ==
  /\ written \in 0 .. 7
  /\ Programmed
  /\ written < 7 => str = <<>> /\ fifo = <<>> /\ line = <<>> /\ said = <<>>
  /\ \E S : line \in Seq(S) /\ said \in Seq(S) /\ fifo \in Seq(S)
  /\ Len(fifo) <= 1
  /\ line \o fifo = said

LEMMA SevenWrites == Len(InitWrites) = 7
  BY DEF InitWrites

LEMMA SerialInvInit == Init => SerialInv
  BY SerialAssumption DEF Init, SerialInit, SerialInv, Programmed

LEMMA WriteProgramsRegister ==
  ASSUME NEW offset \in 0 .. 4, NEW value \in Byte, SerialInv,
         WriteRegister(offset, value), offset # 2 \/ fifo = <<>>
  PROVE  /\ uart' = [uart EXCEPT ![RegisterAt(offset)] = value]
         /\ RegisterAt(offset) \in Registers
         /\ uart' \in [Registers -> Byte]
         /\ fifo' = fifo
  <1>1. RegisterAt(offset) \in Registers
    BY DEF RegisterAt, Registers
  <1>. QED  BY <1>1 DEF WriteRegister, SerialInv, Programmed

\* One of the seven writes.
LEMMA InitWriteKeepsInv ==
  ASSUME SerialInv, serial_init
  PROVE  SerialInv'
  <1>. DEFINE write == InitWrites[written + 1]
  <1>1. written \in 0 .. 6 /\ written' = written + 1
    BY SevenWrites DEF SerialInv, serial_init, SerialReady
  <1>2. fifo = <<>> /\ UNCHANGED <<line, str, said>>
    BY <1>1 DEF SerialInv, serial_init
  <1>3. written = 2 => DLAB
    BY DEF SerialInv, Programmed, DLAB
  <1>4. write[1] \in 0 .. 4 /\ write[2] \in Byte /\ (write[1] = 0 => written = 2)
    BY <1>1 DEF InitWrites, Byte
  <1>5. WriteRegister(write[1], write[2])
    BY <1>1, <1>3, <1>4 DEF serial_init
  <1>6. /\ uart' = [uart EXCEPT ![RegisterAt(write[1])] = write[2]]
        /\ uart' \in [Registers -> Byte]
        /\ fifo' = fifo
    BY <1>2, <1>4, <1>5, WriteProgramsRegister
  <1>7. Programmed'
    <2>1. CASE written \in 0 .. 1
      BY <1>1, <1>6, <2>1 DEF SerialInv, Programmed, InitWrites, RegisterAt, Registers
    <2>2. CASE written = 2
      BY <1>1, <1>3, <1>6, <2>2 DEF SerialInv, Programmed, InitWrites, RegisterAt, Registers
    <2>3. CASE written = 3
      <3>1. DLAB
        BY <2>3 DEF SerialInv, Programmed, DLAB
      <3>. QED
        BY <1>1, <1>6, <2>3, <3>1 DEF SerialInv, Programmed, InitWrites, RegisterAt, Registers
    <2>4. CASE written \in 4 .. 6
      BY <1>1, <1>6, <2>4 DEF SerialInv, Programmed, InitWrites, RegisterAt, Registers
    <2>. QED  BY <1>1, <2>1, <2>2, <2>3, <2>4
  <1>. QED  BY <1>1, <1>2, <1>6, <1>7 DEF SerialInv

\* The UART is ready for characters.
LEMMA Ready ==
  ASSUME SerialInv, written = 7
  PROVE  ~DLAB /\ Understood /\ Capacity >= 1
  BY SerialAssumption DEF SerialInv, Programmed, DLAB, Understood, Capacity, FifoEnabled

\* Two lemmas on sequences of at most one more element.
LEMMA AppendedElement ==
  ASSUME NEW S, NEW s \in Seq(S), NEW c
  PROVE  Append(s, c) \in Seq(S \cup {c}) /\ Append(s, c) = s \o <<c>>
  OBVIOUS

LEMMA SingleElement ==
  ASSUME NEW S, NEW s \in Seq(S), s # <<>>, Len(s) <= 1
  PROVE  s = <<Head(s)>> /\ Tail(s) = <<>> /\ Head(s) \in S
  <1>1. Len(s) \in Nat \ {0}
    BY EmptySeq
  <1>2. Head(s) \in S /\ Tail(s) \in Seq(S) /\ Len(Tail(s)) = Len(s) - 1
    BY HeadTailProperties
  <1>3. Len(s) = 1 /\ Head(s) \in S /\ Tail(s) \in Seq(S) /\ Len(Tail(s)) = 0
    BY <1>1, <1>2
  <1>4. Tail(s) = <<>>
    BY <1>3, EmptySeq
  <1>5. <<Head(s)>> \in Seq(S) /\ Len(<<Head(s)>>) = 1 /\ <<Head(s)>>[1] = s[1]
    BY <1>3
  <1>6. s = <<Head(s)>>
    BY <1>3, <1>5, SeqEqual
  <1>. QED  BY <1>3, <1>4, <1>6

\* The driver only writes when the FIFO is empty, so the character is put
\* behind all that were sent before.
LEMMA CharacterKeepsInv ==
  ASSUME SerialInv, serial_send_char
  PROVE  SerialInv'
  <1>. DEFINE c == Head(str)
  <1>1. written = 7 /\ fifo = <<>>
    BY DEF SerialInv, serial_send_char, is_transmit_empty
  <1>2. ~DLAB /\ Capacity >= 1 /\ Len(<<>>) = 0
    BY <1>1, Ready
  <1>3. fifo' = (IF Len(fifo) < Capacity THEN Append(fifo, c) ELSE fifo)
    BY <1>2 DEF serial_send_char, WriteCharacter
  <1>4. Len(fifo) < Capacity
    <2>. Capacity \in Nat
      BY SerialAssumption DEF Capacity
    <2>. QED  BY <1>1, <1>2
  <1>5. fifo' = <<c>> /\ UNCHANGED <<uart, line, written>> /\ said' = Append(said, c)
    <2>1. fifo' = Append(<<>>, c)
      BY <1>1, <1>3, <1>4
    <2>2. Append(<<>>, c) = <<c>>
      OBVIOUS
    <2>3. UNCHANGED <<uart, line, written>> /\ said' = Append(said, c)
      BY <1>2 DEF serial_send_char, WriteCharacter
    <2>. QED  BY <2>1, <2>2, <2>3
  <1>6. PICK S : line \in Seq(S) /\ said \in Seq(S)
    BY DEF SerialInv
  <1>7. line' \in Seq(S \cup {c}) /\ said' \in Seq(S \cup {c}) /\ fifo' \in Seq(S \cup {c})
    BY <1>5, <1>6, AppendedElement, SeqMonotonic
  <1>8. line = said
    BY <1>1, <1>6, ConcatEmptySeq DEF SerialInv
  <1>9. line' \o fifo' = said'
    BY <1>5, <1>6, <1>8, AppendedElement
  <1>10. Len(fifo') <= 1
    BY <1>5
  <1>. HIDE DEF c
  <1>11. Programmed' /\ written' = 7
    BY <1>1, <1>5 DEF SerialInv, Programmed
  <1>. QED  BY <1>7, <1>9, <1>10, <1>11 DEF SerialInv

\* The UART moves its only character to the line.
LEMMA SendKeepsInv ==
  ASSUME SerialInv, UartSend
  PROVE  SerialInv'
  <1>1. written = 7 /\ fifo # <<>>
    BY DEF SerialInv, UartSend
  <1>2. PICK S : line \in Seq(S) /\ said \in Seq(S) /\ fifo \in Seq(S)
    BY DEF SerialInv
  <1>3. fifo = <<Head(fifo)>> /\ Tail(fifo) = <<>> /\ Head(fifo) \in S
    BY <1>1, <1>2, SingleElement DEF SerialInv
  <1>4. line' = Append(line, Head(fifo)) /\ fifo' = <<>> /\ UNCHANGED <<uart, written, str, said>>
    BY <1>1, <1>3, Ready DEF UartSend
  <1>5. line' = said
    <2>1. Append(line, Head(fifo)) = line \o <<Head(fifo)>>
      BY <1>2, AppendedElement
    <2>2. line \o <<Head(fifo)>> = line \o fifo
      BY <1>3
    <2>3. line \o fifo = said
      BY DEF SerialInv
    <2>. QED  BY <1>4, <2>1, <2>2, <2>3
  <1>6. line' \in Seq(S) /\ fifo' \in Seq(S) /\ said' \in Seq(S)
    BY <1>2, <1>4, <1>5, EmptySeq
  <1>7. line' \o fifo' = said'
    BY <1>4, <1>5, <1>6, ConcatEmptySeq
  <1>8. Programmed' /\ written' = 7 /\ Len(fifo') <= 1
    BY <1>1, <1>4 DEF SerialInv, Programmed
  <1>. QED  BY <1>6, <1>7, <1>8 DEF SerialInv

LEMMA SerialInvariance == Spec => []SerialInv
  <1>1. SerialInv /\ [Next]_vars => SerialInv'
    <2>. SUFFICES ASSUME SerialInv, [Next]_vars PROVE SerialInv'
      OBVIOUS
    <2>1. CASE serial_init
      BY <2>1, InitWriteKeepsInv
    <2>2. CASE \E string : Say(string)
      BY <2>2, SevenWrites DEF Say, SerialIdle, SerialReady, SerialInv, Programmed
    <2>3. CASE serial_send_char
      BY <2>3, CharacterKeepsInv
    <2>4. CASE UartSend
      BY <2>4, SendKeepsInv
    <2>5. CASE UNCHANGED serialVars
      BY <2>5 DEF serialVars, SerialInv, Programmed
    <2>. QED
      BY <2>1, <2>2, <2>3, <2>4, <2>5, SerialSteps DEF SerialStep, vars
  <1>. QED  BY <1>1, SerialInvInit, PTL DEF Spec

\* For every UART and every text, what was sent is on the line or in the
\* UART, once each and in order.
THEOREM CharactersArrive == Spec => []NoCharacterLost
  <1>1. SerialInv => NoCharacterLost
    BY DEF SerialInv, NoCharacterLost
  <1>. QED  BY <1>1, SerialInvariance, PTL
----------------------------------------------------------------------------
(* The ACPI tables.                                                        *)

Records == TableAt(madt).records

\* The records of a type that madt_init has passed are in its array, one
\* after the other, and they take up room in the table.
Collected(t) ==
  /\ ToSet(arrays[t]) =
       {madt + o : o \in {p \in DOMAIN Records : Records[p].type = t /\ madt + p < table_ptr}}
  /\ \A k, l \in DOMAIN arrays[t] : k < l => arrays[t][k] < arrays[t][l]
  /\ MadtBytes + SmallestRecord * Len(arrays[t]) <= table_ptr - madt

\* While the MADT is read, the pointer is at a record or at the table's end.
Reading ==
  /\ \E a \in DOMAIN Tables : madt = HigherHalf + a
  /\ IsGood(TableAt(madt), "APIC")
  /\ table_ptr \in Nat
  /\ table_ptr - madt \in DOMAIN Records \cup {TableAt(madt).length}
  /\ \A t \in madt_entry_type_t : Collected(t)

\* The entries acpi_find_sdt_table has passed are no good MADT.
NoneAmong(n) == \A k \in 1 .. n : ~IsGood(Tables[Rsdt.entries[k]], "APIC")

AcpiInv ==
  /\ step \in {"rsdp", "rsdt", "search", "parse", "done", "halted", "hung"}
  /\ arrays \in [madt_entry_type_t -> Seq(Nat)]
  /\ i \in Nat
  /\ step # "rsdp" => firmware \in Firmwares
  /\ step \in {"rsdt", "search", "parse", "done"} =>
       firmware.rsdp_sum = 0 /\ (has_xsdt_var <=> firmware.revision >= 2)
  /\ step \in {"search", "parse", "done"} => IsGood(Rsdt, "RSDT")
  /\ step \in {"rsdp", "rsdt"} => i = 0
  /\ step = "search" => NoneAmong(i)
  /\ step \notin {"parse", "done"} => \A t \in madt_entry_type_t : arrays[t] = <<>>
  /\ step \in {"parse", "done"} => Reading
  /\ step = "done" => table_ptr >= madt_table_length
  /\ ListedTableFound

LEMMA AcpiInvInit == Init => AcpiInv
  BY EmptySeq DEF Init, AcpiInit, AcpiInv, ListedTableFound

LEMMA RsdpKeepsInv ==
  ASSUME AcpiInv, rsdp_init
  PROVE  AcpiInv'
  <1>1. PICK fw \in Firmwares :
          /\ firmware' = fw
          /\ IF rsdp_verify_checksum(fw)
               THEN step' = "rsdt" /\ has_xsdt_var' = (fw.revision >= 2)
               ELSE step' = "halted" /\ UNCHANGED has_xsdt_var
    BY DEF rsdp_init, Goto
  <1>. QED
    BY <1>1 DEF rsdp_init, AcpiInv, ListedTableFound, rsdp_verify_checksum

\* What the ACPI specification says of the RSDT.
LEMMA RsdtEntries ==
  ASSUME firmware \in Firmwares
  PROVE  /\ Rsdt.entries \in Seq(DOMAIN Tables)
         /\ Len(Rsdt.entries) \in Nat
         /\ Rsdt.length = HeaderBytes + 4 * Len(Rsdt.entries)
         /\ firmware.revision \in Nat
  BY AcpiAssumption, LenProperties DEF Rsdt, WellFormedRsdt

\* The check accepts the tables that are good and rejects no good one.
LEMMA HeaderCheck ==
  ASSUME NEW table, NEW signature, table.signature = signature => table.length \in Nat
  PROVE  /\ acpi_check_sdt_header(table, signature) \in {"match", "mismatch", "endless"}
         /\ acpi_check_sdt_header(table, signature) = "match" => IsGood(table, signature)
         /\ acpi_check_sdt_header(table, signature) = "mismatch" => ~IsGood(table, signature)
  <1>1. CASE table.signature # signature
    BY <1>1 DEF acpi_check_sdt_header, IsGood
  <1>2. CASE table.signature = signature /\ table.length >= ByteMod
    BY <1>2 DEF acpi_check_sdt_header
  <1>3. CASE table.signature = signature /\ ~(table.length >= ByteMod)
    BY <1>3 DEF acpi_check_sdt_header, IsGood, ByteMod
  <1>. QED  BY <1>1, <1>2, <1>3

LEMMA CheckKeepsInv ==
  ASSUME AcpiInv, CheckRsdt
  PROVE  AcpiInv'
  <1>. Rsdt.length \in Nat
    BY RsdtEntries DEF AcpiInv, CheckRsdt, HeaderBytes
  <1>1. /\ step = "rsdt" /\ i = 0
        /\ UNCHANGED <<firmware, has_xsdt_var, i, madt, table_ptr, arrays>>
    BY DEF CheckRsdt, AcpiInv
  <1>2. /\ step' \in {"search", "halted", "hung"}
        /\ step' = "search" => acpi_check_sdt_header(Rsdt, "RSDT") = "match"
        /\ step' = "halted" => acpi_check_sdt_header(Rsdt, "RSDT") = "mismatch"
    BY HeaderCheck DEF CheckRsdt, Goto
  <1>3. /\ step' = "search" => IsGood(Rsdt, "RSDT")
        /\ step' = "halted" => ~IsGood(Rsdt, "RSDT")
    BY <1>2, HeaderCheck
  <1>4. NoneAmong(i)'
    BY <1>1 DEF NoneAmong
  <1>. QED  BY <1>1, <1>2, <1>3, <1>4 DEF AcpiInv, ListedTableFound, Rsdt, IsGood

\* With ACPI 1.0 all entries are searched, never more.
LEMMA EntryCount ==
  ASSUME firmware \in Firmwares
  PROVE  /\ entry_count \in Nat
         /\ entry_count <= Len(Rsdt.entries)
         /\ ~has_xsdt_var => entry_count = Len(Rsdt.entries)
  <1>. DEFINE n == Len(Rsdt.entries)
  <1>1. n \in Nat /\ Rsdt.length - HeaderBytes = 4 * n
    BY RsdtEntries DEF HeaderBytes
  <1>. HIDE DEF n
  <1>2. (4 * n) \div 4 = n /\ (4 * n) \div 8 \in 0 .. n
    BY <1>1
  <1>3. entry_count = (4 * n) \div (IF has_xsdt_var THEN 8 ELSE 4)
    BY <1>1 DEF entry_count
  <1>4. entry_count \in Nat /\ entry_count <= n
    BY <1>1, <1>2, <1>3
  <1>5. ~has_xsdt_var => entry_count = n
    BY <1>1, <1>2, <1>3
  <1>. QED  BY <1>4, <1>5 DEF n

\* What the ACPI specification says of a MADT in memory.
LEMMA MadtRecords ==
  ASSUME NEW a \in DOMAIN Tables, Tables[a].signature = "APIC"
  PROVE  LET records == Tables[a].records
         IN /\ Tables[a].length \in Nat
            /\ DOMAIN records \subseteq MadtBytes .. Tables[a].length - 1
            /\ MadtBytes \in DOMAIN records \cup {Tables[a].length}
            /\ \A o \in DOMAIN records :
                 /\ records[o].length \in Nat /\ records[o].length >= SmallestRecord
                 /\ o + records[o].length \in DOMAIN records \cup {Tables[a].length}
            /\ \A o, p \in DOMAIN records : o < p => o + records[o].length <= p
  BY AcpiAssumption DEF WellFormedMadt, SmallestRecord, ByteMod

\* A good MADT is found: its first record is the next to be read.
LEMMA FoundStartsReading ==
  ASSUME NEW a \in DOMAIN Tables, IsGood(Tables[a], "APIC"),
         madt' = HigherHalf + a, table_ptr' = HigherHalf + a + MadtBytes,
         \A t \in madt_entry_type_t : arrays'[t] = <<>>
  PROVE  Reading'
  <1>1. a \in Nat /\ HigherHalf \in Nat
    BY AcpiAssumption
  <1>2. TableAt(madt)' = Tables[a]
    BY <1>1 DEF TableAt
  <1>3. table_ptr' \in Nat /\ table_ptr' - madt' = MadtBytes
    BY <1>1 DEF MadtBytes
  <1>4. DOMAIN Tables[a].records \subseteq MadtBytes .. Tables[a].length - 1
        /\ MadtBytes \in DOMAIN Tables[a].records \cup {Tables[a].length}
        /\ Tables[a].length \in Nat
    BY MadtRecords DEF IsGood
  <1>5. ASSUME NEW t \in madt_entry_type_t
        PROVE  Collected(t)'
    <2>1. \A p \in DOMAIN Records' : ~(madt' + p < table_ptr')
      BY <1>1, <1>2, <1>4 DEF Records, MadtBytes
    <2>2. ToSet(arrays[t])' = {} /\ Len(arrays'[t]) = 0 /\ DOMAIN arrays'[t] = {}
      BY EmptySeq DEF ToSet
    <2>. QED  BY <1>3, <2>1, <2>2 DEF Collected, MadtBytes, SmallestRecord
  <1>. QED  BY <1>2, <1>3, <1>4, <1>5 DEF Reading, Records

LEMMA SearchKeepsInv ==
  ASSUME AcpiInv, acpi_find_sdt_table
  PROVE  AcpiInv'
  <1>. DEFINE entry == Rsdt.entries[i + 1]
              result == acpi_check_sdt_header(Tables[entry], "APIC")
  <1>1. /\ step = "search" /\ firmware \in Firmwares /\ i \in Nat
        /\ IsGood(Rsdt, "RSDT") /\ firmware.rsdp_sum = 0 /\ NoneAmong(i)
        /\ (has_xsdt_var <=> firmware.revision >= 2)
        /\ \A t \in madt_entry_type_t : arrays[t] = <<>>
        /\ UNCHANGED <<firmware, has_xsdt_var, arrays>>
    BY DEF AcpiInv, acpi_find_sdt_table
  <1>2. CASE i >= entry_count
    <2>1. step' = "halted" /\ UNCHANGED <<i, madt, table_ptr>>
      BY <1>2 DEF acpi_find_sdt_table, Goto
    <2>2. firmware.revision < 2 => NoneAmong(Len(Rsdt.entries))
      <3>. SUFFICES ASSUME firmware.revision < 2 PROVE NoneAmong(Len(Rsdt.entries))
        OBVIOUS
      <3>1. ~has_xsdt_var
        BY <1>1, RsdtEntries
      <3>2. Len(Rsdt.entries) \in Nat /\ Len(Rsdt.entries) <= i
        BY <1>1, <1>2, <3>1, EntryCount, RsdtEntries
      <3>. QED  BY <1>1, <3>2 DEF NoneAmong
    <2>3. DOMAIN Rsdt.entries = 1 .. Len(Rsdt.entries)
      BY <1>1, RsdtEntries, LenProperties
    <2>4. ListedTableFound'
      BY <1>1, <2>1, <2>2, <2>3 DEF ListedTableFound, NoneAmong, Rsdt
    <2>. QED  BY <1>1, <2>1, <2>4 DEF AcpiInv, Rsdt
  <1>3. CASE ~(i >= entry_count)
    <2>1. entry \in DOMAIN Tables
      BY <1>1, <1>3, EntryCount, RsdtEntries, ElementOfSeq
    <2>2. Tables[entry].signature = "APIC" => Tables[entry].length \in Nat
      BY <2>1, MadtRecords
    <2>3. \/ /\ result = "match" /\ step' = "parse"
             /\ madt' = Found(entry) /\ table_ptr' = Found(entry) + MadtBytes /\ UNCHANGED i
          \/ /\ result = "mismatch" /\ i' = i + 1 /\ UNCHANGED <<step, madt, table_ptr>>
          \/ /\ result = "endless" /\ step' = "hung" /\ UNCHANGED <<i, madt, table_ptr>>
      BY <1>3 DEF acpi_find_sdt_table, Goto
    <2>. HIDE DEF entry
    <2>4. CASE step' = "parse"
      <3>1. result = "match"
        BY <1>1, <2>3, <2>4
      <3>2. IsGood(Tables[entry], "APIC")
        BY <2>2, <3>1, HeaderCheck
      <3>3. madt' = HigherHalf + entry /\ table_ptr' = HigherHalf + entry + MadtBytes /\ i' = i
        BY <2>3, <3>1 DEF Found, phys_to_higher_half_data
      <3>4. Reading'
        BY <1>1, <2>1, <3>2, <3>3, FoundStartsReading
      <3>. QED  BY <1>1, <2>4, <3>3, <3>4 DEF AcpiInv, ListedTableFound, Rsdt
    <2>5. CASE i' = i + 1 /\ result = "mismatch" /\ UNCHANGED <<step, madt, table_ptr>>
      <3>1. ~IsGood(Tables[entry], "APIC")
        BY <2>2, <2>5, HeaderCheck
      <3>2. NoneAmong(i + 1)
        BY <1>1, <3>1 DEF NoneAmong, entry
      <3>3. NoneAmong(i)'
        BY <1>1, <2>5, <3>2 DEF NoneAmong, Rsdt
      <3>. QED  BY <1>1, <2>5, <3>3 DEF AcpiInv, ListedTableFound, Rsdt
    <2>6. CASE step' = "hung" /\ UNCHANGED <<i, madt, table_ptr>>
      BY <1>1, <2>6 DEF AcpiInv, ListedTableFound
    <2>. QED  BY <2>3, <2>4, <2>5, <2>6
  <1>. QED  BY <1>2, <1>3

LEMMA AppendToArray ==
  ASSUME NEW s \in Seq(Nat), NEW x \in Nat
  PROVE  /\ Append(s, x) \in Seq(Nat)
         /\ Len(Append(s, x)) = Len(s) + 1
         /\ ToSet(Append(s, x)) = ToSet(s) \cup {x}
         /\ (\A y \in ToSet(s) : y < x) /\ (\A k, l \in DOMAIN s : k < l => s[k] < s[l]) =>
              \A k, l \in DOMAIN Append(s, x) : k < l => Append(s, x)[k] < Append(s, x)[l]
  <1>1. /\ Append(s, x) \in Seq(Nat) /\ Len(s) \in Nat
        /\ Len(Append(s, x)) = Len(s) + 1
        /\ DOMAIN s = 1 .. Len(s) /\ DOMAIN Append(s, x) = 1 .. Len(s) + 1
        /\ \A k \in 1 .. Len(s) : Append(s, x)[k] = s[k]
        /\ Append(s, x)[Len(s) + 1] = x
    OBVIOUS
  <1>2. ToSet(Append(s, x)) = ToSet(s) \cup {x}
    <2>1. ASSUME NEW y \in ToSet(Append(s, x)) PROVE y \in ToSet(s) \cup {x}
      BY <1>1, <2>1 DEF ToSet
    <2>2. x \in ToSet(Append(s, x))
      BY <1>1 DEF ToSet
    <2>3. ToSet(s) \subseteq ToSet(Append(s, x))
      BY <1>1 DEF ToSet
    <2>. QED  BY <2>1, <2>2, <2>3
  <1>3. ASSUME \A y \in ToSet(s) : y < x, \A k, l \in DOMAIN s : k < l => s[k] < s[l],
               NEW k \in DOMAIN Append(s, x), NEW l \in DOMAIN Append(s, x), k < l
        PROVE  Append(s, x)[k] < Append(s, x)[l]
    <2>1. k \in DOMAIN s /\ Append(s, x)[k] = s[k]
      BY <1>1, <1>3
    <2>2. CASE l = Len(s) + 1
      BY <1>1, <1>3, <2>1, <2>2 DEF ToSet
    <2>3. CASE l # Len(s) + 1
      BY <1>1, <1>3, <2>1, <2>3
    <2>. QED  BY <2>2, <2>3
  <1>. QED  BY <1>1, <1>2, <1>3

\* One record is put into the array of its type, and the pointer moves to
\* the next one.
LEMMA RecordKeepsReading ==
  ASSUME Reading, arrays \in [madt_entry_type_t -> Seq(Nat)],
         NEW o, o = table_ptr - madt, o \in DOMAIN Records,
         madt' = madt,
         table_ptr' = table_ptr + Records[o].length,
         arrays' = [t \in madt_entry_type_t |->
                      IF t = Records[o].type THEN Append(arrays[t], table_ptr) ELSE arrays[t]]
  PROVE  Reading' /\ arrays' \in [madt_entry_type_t -> Seq(Nat)]
  <1>1. PICK a \in DOMAIN Tables : madt = HigherHalf + a
    BY DEF Reading
  <1>2. a \in Nat /\ HigherHalf \in Nat /\ madt \in Nat /\ table_ptr \in Nat
    BY <1>1, AcpiAssumption DEF Reading
  <1>3. TableAt(madt) = Tables[a] /\ Tables[a].signature = "APIC" /\ Records = Tables[a].records
    BY <1>1, <1>2 DEF TableAt, Reading, IsGood, Records
  <1>4. UNCHANGED <<TableAt(madt), Records>>
    BY DEF TableAt, Records
  <1>5. /\ o \in Nat /\ table_ptr = madt + o
        /\ Records[o].length \in Nat /\ Records[o].length >= SmallestRecord
        /\ o + Records[o].length \in DOMAIN Records \cup {TableAt(madt).length}
        /\ \A p \in DOMAIN Records : p \in Nat /\ (p > o => p >= o + Records[o].length)
    BY <1>2, <1>3, MadtRecords DEF MadtBytes
  <1>6. table_ptr' \in Nat /\ table_ptr' - madt' = o + Records[o].length
    BY <1>2, <1>5
  <1>7. \A p \in DOMAIN Records : madt + p < table_ptr' <=> madt + p < table_ptr \/ p = o
    <2>. DEFINE r == Records[o].length
    <2>. HIDE DEF r
    <2>1. r \in Nat /\ r >= 6 /\ table_ptr' = madt + o + r
      BY <1>2, <1>5, <1>6 DEF r, SmallestRecord
    <2>2. ASSUME NEW p \in DOMAIN Records
          PROVE  madt + p < table_ptr' <=> madt + p < table_ptr \/ p = o
      <3>1. p \in Nat /\ (p > o => p >= o + r)
        BY <1>5 DEF r
      <3>. QED  BY <1>2, <1>5, <2>1, <3>1
    <2>. QED  BY <2>2
  <1>8. ASSUME NEW t \in madt_entry_type_t
         PROVE  /\ MadtBytes + SmallestRecord * Len(arrays[t]) <= o + Records[o].length
                /\ MadtBytes + SmallestRecord * (Len(arrays[t]) + 1) <= o + Records[o].length
    <2>. DEFINE l == Len(arrays[t])  r == Records[o].length
    <2>1. l \in Nat /\ 44 + 6 * l <= o
      BY LenProperties DEF Reading, Collected, MadtBytes, SmallestRecord
    <2>2. r \in Nat /\ r >= 6 /\ o \in Nat
      BY <1>5 DEF SmallestRecord
    <2>. HIDE DEF l, r
    <2>3. 44 + 6 * l <= o + r /\ 44 + 6 * (l + 1) <= o + r
      BY <2>1, <2>2
    <2>. QED  BY <2>3 DEF l, r, MadtBytes, SmallestRecord
  <1>9. ASSUME NEW t \in madt_entry_type_t
        PROVE  Collected(t)' /\ arrays'[t] \in Seq(Nat)
    <2>. DEFINE PassedTo(ptr) == {madt + p : p \in {q \in DOMAIN Records : Records[q].type = t /\ madt + q < ptr}}
    <2>1. Collected(t) /\ arrays[t] \in Seq(Nat) /\ Len(arrays[t]) \in Nat
      BY LenProperties DEF Reading
    <2>2. CASE t = Records[o].type
      <3>1. arrays'[t] = Append(arrays[t], table_ptr)
        BY <2>2
      <3>2. PassedTo(table_ptr') = PassedTo(table_ptr) \cup {table_ptr}
        BY <1>5, <1>7, <2>2
      <3>3. \A y \in ToSet(arrays[t]) : y < table_ptr
        BY <2>1 DEF Collected
      <3>4. ToSet(arrays'[t]) = PassedTo(table_ptr')
        BY <1>2, <2>1, <3>1, <3>2, AppendToArray DEF Collected
      <3>5. \A k, l \in DOMAIN arrays'[t] : k < l => arrays'[t][k] < arrays'[t][l]
        BY <1>2, <2>1, <3>1, <3>3, AppendToArray DEF Collected
      <3>6. MadtBytes + SmallestRecord * Len(arrays'[t]) <= table_ptr' - madt'
        <4>1. Len(arrays'[t]) = Len(arrays[t]) + 1
          BY <1>2, <2>1, <3>1, AppendToArray
        <4>. QED  BY <1>6, <1>8, <4>1
      <3>. QED
        BY <1>2, <1>4, <2>1, <3>1, <3>4, <3>5, <3>6, AppendToArray DEF Collected
    <2>3. CASE t # Records[o].type
      <3>1. arrays'[t] = arrays[t]
        BY <2>3
      <3>2. PassedTo(table_ptr') = PassedTo(table_ptr)
        BY <1>7, <2>3
      <3>3. MadtBytes + SmallestRecord * Len(arrays[t]) <= table_ptr' - madt'
        BY <1>6, <1>8
      <3>. QED  BY <1>4, <2>1, <3>1, <3>2, <3>3 DEF Collected
    <2>. QED  BY <2>2, <2>3
  <1>10. IsGood(TableAt(madt), "APIC")'
    BY <1>4 DEF Reading, IsGood
  <1>. QED  BY <1>1, <1>4, <1>5, <1>6, <1>9, <1>10 DEF Reading

LEMMA ParseKeepsInv ==
  ASSUME AcpiInv, madt_init
  PROVE  AcpiInv'
  <1>1. /\ step = "parse" /\ Reading /\ arrays \in [madt_entry_type_t -> Seq(Nat)]
        /\ firmware \in Firmwares /\ IsGood(Rsdt, "RSDT") /\ firmware.rsdp_sum = 0
        /\ UNCHANGED <<firmware, has_xsdt_var, i, madt>>
    BY DEF AcpiInv, madt_init
  <1>2. CASE table_ptr >= madt_table_length
    <2>1. step' = "done" /\ UNCHANGED <<table_ptr, arrays>>
      BY <1>2 DEF madt_init, Goto
    <2>2. UNCHANGED <<Records, TableAt(madt), madt_table_length>>
      BY <1>1 DEF Records, TableAt, madt_table_length
    <2>3. Reading'
      BY <1>1, <2>1, <2>2 DEF Reading, Collected
    <2>. QED
      BY <1>1, <1>2, <2>1, <2>2, <2>3 DEF AcpiInv, ListedTableFound, Rsdt
  <1>3. CASE ~(table_ptr >= madt_table_length)
    <2>. DEFINE o == table_ptr - madt
    <2>1. o \in DOMAIN Records /\ table_ptr - madt = o
      <3>1. PICK a \in DOMAIN Tables : madt = HigherHalf + a
        BY <1>1 DEF Reading
      <3>2. madt \in Nat /\ table_ptr \in Nat /\ TableAt(madt) = Tables[a]
        BY <1>1, <3>1, AcpiAssumption DEF Reading, TableAt
      <3>3. TableAt(madt).length \in Nat
        BY <1>1, <3>2, MadtRecords DEF Reading, IsGood
      <3>4. o # TableAt(madt).length
        BY <1>3, <3>2, <3>3 DEF madt_table_length
      <3>. QED  BY <1>1, <3>4 DEF Reading
    <2>2. /\ table_ptr' = table_ptr + Records[o].length
          /\ arrays' = [t \in madt_entry_type_t |->
                          IF t = Records[o].type THEN Append(arrays[t], table_ptr) ELSE arrays[t]]
          /\ UNCHANGED step
      <3>1. ASSUME NEW record, record = Records[o]
            PROVE  [t \in madt_entry_type_t |->
                      IF t = record.type THEN Append(arrays[t], table_ptr) ELSE arrays[t]]
                   = [t \in madt_entry_type_t |->
                      IF t = Records[o].type THEN Append(arrays[t], table_ptr) ELSE arrays[t]]
        BY <3>1
      <3>. QED  BY <1>3, <3>1 DEF madt_init, Records
    <2>. HIDE DEF o
    <2>3. Reading' /\ arrays' \in [madt_entry_type_t -> Seq(Nat)]
      BY <1>1, <2>1, <2>2, RecordKeepsReading
    <2>. QED
      BY <1>1, <2>2, <2>3 DEF AcpiInv, ListedTableFound, Rsdt
  <1>. QED  BY <1>2, <1>3

LEMMA AcpiInvariance == Spec => []AcpiInv
  <1>1. AcpiInv /\ [Next]_vars => AcpiInv'
    <2>. SUFFICES ASSUME AcpiInv, [Next]_vars PROVE AcpiInv'
      OBVIOUS
    <2>1. CASE rsdp_init  BY <2>1, RsdpKeepsInv
    <2>2. CASE CheckRsdt  BY <2>2, CheckKeepsInv
    <2>3. CASE acpi_find_sdt_table  BY <2>3, SearchKeepsInv
    <2>4. CASE madt_init  BY <2>4, ParseKeepsInv
    <2>5. CASE UNCHANGED acpiVars
      BY <2>5 DEF acpiVars, AcpiInv, NoneAmong, ListedTableFound, Rsdt, Reading, Collected, Records,
                  TableAt, madt_table_length
    <2>. QED
      BY <2>1, <2>2, <2>3, <2>4, <2>5, AcpiSteps DEF AcpiNext, vars
  <1>. QED  BY <1>1, AcpiInvInit, PTL DEF Spec

\* Whatever tables the firmware left, records are only read after all the
\* checksums on the way to them were right.
THEOREM TablesVerified == Spec => []OnlyVerifiedTables
  <1>1. AcpiInv => OnlyVerifiedTables
    BY DEF AcpiInv, OnlyVerifiedTables, Reading, IsGood
  <1>. QED  BY <1>1, AcpiInvariance, PTL

\* With ACPI 1.0 no good MADT is passed over, however long the RSDT is.
THEOREM MadtFound == Spec => []ListedTableFound
  <1>1. AcpiInv => ListedTableFound
    BY DEF AcpiInv
  <1>. QED  BY <1>1, AcpiInvariance, PTL

\* Every record of every MADT gets into the array of its type, in order.
THEOREM AllRecordsCollected == Spec => []RecordsCollected
  <1>1. AcpiInv => RecordsCollected
    <2>. SUFFICES ASSUME AcpiInv, step = "done", NEW t \in madt_entry_type_t
                  PROVE  /\ ToSet(arrays[t]) = {madt + o : o \in {p \in DOMAIN Records : Records[p].type = t}}
                         /\ \A k, l \in DOMAIN arrays[t] : k < l => arrays[t][k] < arrays[t][l]
      BY DEF RecordsCollected, Records
    <2>1. PICK a \in DOMAIN Tables : madt = HigherHalf + a
      BY DEF AcpiInv, Reading
    <2>2. a \in Nat /\ HigherHalf \in Nat /\ madt \in Nat /\ table_ptr \in Nat
      BY <2>1, AcpiAssumption DEF AcpiInv, Reading
    <2>3. TableAt(madt) = Tables[a] /\ Tables[a].signature = "APIC"
      BY <2>1, <2>2 DEF TableAt, AcpiInv, Reading, IsGood
    <2>4. ASSUME NEW p \in DOMAIN Records
          PROVE  madt + p < table_ptr
      <3>1. Tables[a].length \in Nat /\ DOMAIN Tables[a].records \subseteq MadtBytes .. Tables[a].length - 1
        BY <2>3, MadtRecords
      <3>2. p \in Int /\ p < Tables[a].length
        BY <2>3, <3>1 DEF Records, MadtBytes
      <3>3. table_ptr >= madt + Tables[a].length
        BY <2>3 DEF AcpiInv, madt_table_length
      <3>. QED  BY <2>2, <3>1, <3>2, <3>3
    <2>5. Collected(t)
      BY DEF AcpiInv, Reading
    <2>. QED  BY <2>4, <2>5 DEF Collected
  <1>. QED  BY <1>1, AcpiInvariance, PTL

\* What fits an array of records: a MADT of 255 bytes, full of records of
\* the smallest size.
RoomForSmallest == MadtBytes + SmallestRecord * (ArraySlots + 1) >= ByteMod

\* No MADT is so long or so full that an array would be overrun, if each
\* has room for 35 pointers.
THEOREM ArraysNeverOverrun ==
  ASSUME RoomForSmallest
  PROVE  Spec => []ArraysFit
  <1>1. AcpiInv => ArraysFit
    <2>. SUFFICES ASSUME AcpiInv, NEW t \in madt_entry_type_t PROVE Len(arrays[t]) <= ArraySlots
      BY DEF ArraysFit
    <2>. ArraySlots \in Nat
      BY AcpiAssumption
    <2>1. CASE step \notin {"parse", "done"}
      BY <2>1, EmptySeq DEF AcpiInv
    <2>2. CASE step \in {"parse", "done"}
      <3>. DEFINE l == Len(arrays[t])
      <3>1. Reading /\ Collected(t) /\ l \in Nat
        BY <2>2, LenProperties DEF AcpiInv, Reading
      <3>2. PICK a \in DOMAIN Tables : madt = HigherHalf + a
        BY <3>1 DEF Reading
      <3>3. madt \in Nat /\ table_ptr \in Nat /\ TableAt(madt) = Tables[a]
        BY <3>1, <3>2, AcpiAssumption DEF Reading, TableAt
      <3>4. Tables[a].signature = "APIC" /\ Tables[a].length < 256
        BY <3>1, <3>3 DEF Reading, IsGood, ByteMod
      <3>5. Tables[a].length \in Nat /\ DOMAIN Tables[a].records \subseteq MadtBytes .. Tables[a].length - 1
        BY <3>4, MadtRecords
      <3>6. table_ptr - madt \in DOMAIN Tables[a].records \cup {Tables[a].length}
        BY <3>1, <3>3 DEF Reading, Records
      <3>7. table_ptr - madt < 256
        BY <3>3, <3>4, <3>5, <3>6 DEF MadtBytes
      <3>8. 44 + 6 * l <= table_ptr - madt
        BY <3>1 DEF Collected, MadtBytes, SmallestRecord
      <3>9. 44 + 6 * (ArraySlots + 1) >= 256
        BY DEF RoomForSmallest, MadtBytes, SmallestRecord, ByteMod
      <3>. HIDE DEF l
      <3>10. l <= ArraySlots
        BY <3>1, <3>3, <3>7, <3>8, <3>9
      <3>. QED  BY <3>10 DEF l
    <2>. QED  BY <2>1, <2>2
  <1>. QED  BY <1>1, AcpiInvariance, PTL
----------------------------------------------------------------------------
(* The address of the TSS.                                                 *)

LEMMA Division ==
  ASSUME NEW a \in Nat, NEW m \in Nat \ {0}
  PROVE  /\ a \div m \in Nat
         /\ (a % m) \in 0 .. m - 1
         /\ a = m * (a \div m) + (a % m)
  OBVIOUS

LEMMA ProductPositive ==
  ASSUME NEW m \in Nat \ {0}, NEW n \in Nat \ {0}
  PROVE  m * n \in Nat \ {0}
  OBVIOUS

\* Only one number is the quotient, and one the remainder.
LEMMA DigitsUnique ==
  ASSUME NEW m \in Nat \ {0}, NEW p \in Int, NEW q \in Int,
         NEW r \in 0 .. m - 1, NEW s \in 0 .. m - 1, m * q + r = m * p + s
  PROVE  q = p /\ r = s
  <1>1. m * (q - p) = s - r
    OBVIOUS
  <1>2. CASE q - p >= 1
    <2>1. m * (q - p) >= m  BY <1>2
    <2>. QED  BY <1>1, <2>1
  <1>3. CASE q - p <= -1
    <2>1. m * (q - p) <= -m  BY <1>3
    <2>. QED  BY <1>1, <2>1
  <1>4. CASE q - p = 0
    BY <1>1, <1>4
  <1>. QED  BY <1>2, <1>3, <1>4

\* A digit, or a group of them, and what is left of it.
LEMMA NextDigits ==
  ASSUME NEW a \in Nat, NEW m \in Nat \ {0}, NEW n \in Nat \ {0}
  PROVE  a \div m = n * (a \div (m * n)) + ((a \div m) % n)
  <1>. DEFINE b == a \div m
              r == a % m
              c == b \div n
              d == b % n
  <1>1. b \in Nat /\ r \in 0 .. m - 1 /\ a = m * b + r
    BY Division
  <1>. HIDE DEF b, r
  <1>2. c \in Nat /\ d \in 0 .. n - 1 /\ b = n * c + d
    BY <1>1, Division
  <1>. HIDE DEF c, d
  <1>3. a = (m * n) * c + (m * d + r)
    <2>1. m * b = m * (n * c) + m * d
      BY <1>2
    <2>2. m * (n * c) = (m * n) * c
      BY <1>2
    <2>. QED  BY <1>1, <1>2, <2>1, <2>2
  <1>4. m * d + r \in 0 .. m * n - 1
    <2>1. m * d <= m * (n - 1)
      BY <1>2
    <2>2. m * (n - 1) = m * n - m
      OBVIOUS
    <2>3. m * d \in Nat /\ m * n \in Nat
      BY <1>2
    <2>. QED  BY <1>1, <2>1, <2>2, <2>3
  <1>5. m * n \in Nat \ {0}
    BY ProductPositive
  <1>. DEFINE q == a \div (m * n)
              s == a % (m * n)
  <1>6. q \in Nat /\ s \in 0 .. m * n - 1 /\ a = (m * n) * q + s
    BY <1>5, Division
  <1>. HIDE DEF q, s
  <1>7. q = c
    BY <1>2, <1>3, <1>4, <1>5, <1>6, DigitsUnique
  <1>. QED  BY <1>2, <1>7 DEF b, c, d, q

LEMMA SmallQuotient ==
  ASSUME NEW a \in Nat, NEW m \in Nat \ {0}, a < m
  PROVE  a % m = a
  OBVIOUS

LEMMA Distribute ==
  ASSUME NEW x \in Nat, NEW y \in Nat, NEW z \in Nat, NEW f \in Nat
  PROVE  x * (y * z + f) = (x * y) * z + f * x
  <1>1. x * (y * z + f) = x * (y * z) + x * f
    OBVIOUS
  <1>2. x * (y * z) = (x * y) * z /\ x * f = f * x
    OBVIOUS
  <1>. QED  BY <1>1, <1>2

LEMMA Units ==
  /\ ByteValues \in Nat \ {0} /\ Word \in Nat \ {0} /\ Word * ByteValues \in Nat \ {0}
  /\ DWord \in Nat \ {0} /\ DWord * Word \in Nat \ {0} /\ QWord \in Nat
  /\ (Word * ByteValues) * ByteValues = DWord
  /\ QWord = (DWord * Word) * Word
  <1>1. ByteValues \in Nat \ {0}
    BY GdtAssumption
  <1>2. Word \in Nat \ {0} /\ Word * ByteValues \in Nat \ {0}
    BY <1>1, ProductPositive DEF Word
  <1>3. DWord \in Nat \ {0} /\ DWord * Word \in Nat \ {0}
    BY <1>2, ProductPositive DEF DWord
  <1>4. (Word * ByteValues) * ByteValues = Word * (ByteValues * ByteValues)
    BY <1>1, <1>2
  <1>5. (DWord * Word) * Word = DWord * (Word * Word)
    BY <1>2, <1>3
  <1>6. QWord \in Nat
    BY <1>3 DEF QWord
  <1>. QED  BY <1>1, <1>2, <1>3, <1>4, <1>5, <1>6 DEF Word, DWord, QWord

\* A number from its digits, one group after the other.
LEMMA NumberFromDigits ==
  ASSUME NEW B \in Nat, NEW W \in Nat, NEW WB \in Nat, NEW D \in Nat, NEW DW \in Nat,
         NEW f0 \in Nat, NEW f1 \in Nat, NEW f2 \in Nat, NEW f3 \in Nat, NEW f4 \in Nat,
         NEW q1 \in Nat, NEW q2 \in Nat, NEW q3 \in Nat,
         W * B = WB, WB * B = D, D * W = DW,
         q1 = B * q2 + f1, q2 = B * q3 + f2, q3 = W * f4 + f3
  PROVE  W * q1 + f0 = f0 + f1 * W + f2 * WB + f3 * D + f4 * DW
  <1>1. W * q1 = WB * q2 + f1 * W
    BY Distribute
  <1>2. WB * q2 = D * q3 + f2 * WB
    BY Distribute
  <1>3. D * q3 = DW * f4 + f3 * D
    BY Distribute
  <1>. QED  BY <1>1, <1>2, <1>3

\* The upper quotient of a number below m * n is a digit already.
LEMMA LastDigit ==
  ASSUME NEW a \in Nat, NEW m \in Nat \ {0}, NEW n \in Nat \ {0}, a < m * n
  PROVE  ((a \div m) % n) = a \div m
  <1>. DEFINE q == a \div m
  <1>1. q \in Nat /\ m * q <= a
    BY Division
  <1>. HIDE DEF q
  <1>2. q < n
    <2>1. SUFFICES ASSUME q >= n PROVE FALSE
      BY <1>1
    <2>2. m * q >= m * n
      BY <1>1, <2>1
    <2>. QED  BY <1>1, <2>2
  <1>. QED  BY <1>1, <1>2, SmallQuotient DEF q

\* The five fields of the descriptor make up the address again.
LEMMA AddressFromFields ==
  ASSUME NEW a \in 0 .. QWord - 1
  PROVE  a = Bytes(a, 1, Word) + Bytes(a, Word, ByteValues) * Word
               + Bytes(a, Word * ByteValues, ByteValues) * (Word * ByteValues)
               + Bytes(a, DWord, Word) * DWord + Bytes(a, DWord * Word, Word) * (DWord * Word)
  <1>. DEFINE WB == Word * ByteValues  DW == DWord * Word
              f0 == Bytes(a, 1, Word)
              f1 == Bytes(a, Word, ByteValues)  q1 == a \div Word
              f2 == Bytes(a, WB, ByteValues)    q2 == a \div WB
              f3 == Bytes(a, DWord, Word)       q3 == a \div DWord
              f4 == Bytes(a, DW, Word)
  <1>1. a \in Nat /\ a < QWord /\ a \div 1 = a
    BY Units
  <1>2. /\ ByteValues \in Nat \ {0} /\ Word \in Nat \ {0} /\ DWord \in Nat \ {0}
        /\ WB \in Nat \ {0} /\ DW \in Nat \ {0} /\ WB * ByteValues = DWord /\ QWord = DW * Word
    BY Units
  <1>. HIDE DEF WB, DW
  <1>3. q1 \in Nat /\ q2 \in Nat /\ q3 \in Nat /\ a \div DW \in Nat
    BY <1>1, <1>2, Division
  <1>4. f1 \in Nat /\ f2 \in Nat /\ f3 \in Nat /\ f4 \in Nat
    BY <1>2, <1>3, Division DEF Bytes
  <1>5. f0 \in Nat /\ a = Word * q1 + f0
    BY <1>1, <1>2, Division DEF Bytes
  <1>6. q1 = ByteValues * q2 + f1
    BY <1>1, <1>2, NextDigits DEF Bytes, WB
  <1>7. q2 = ByteValues * q3 + f2
    <2>1. q2 = ByteValues * (a \div (WB * ByteValues)) + f2
      BY <1>1, <1>2, NextDigits DEF Bytes
    <2>. QED  BY <1>2, <2>1
  <1>8. q3 = Word * (a \div DW) + f3
    BY <1>1, <1>2, NextDigits DEF Bytes, DW
  <1>9. f4 = a \div DW
    BY <1>1, <1>2, LastDigit DEF Bytes
  <1>10. q3 = Word * f4 + f3
    BY <1>8, <1>9
  <1>11. Word * ByteValues = WB /\ DWord * Word = DW
    BY DEF WB, DW
  <1>. HIDE DEF f0, f1, f2, f3, f4, q1, q2, q3
  <1>12. Word * q1 + f0 = f0 + f1 * Word + f2 * WB + f3 * DWord + f4 * DW
    BY <1>2, <1>3, <1>4, <1>5, <1>6, <1>7, <1>10, <1>11, NumberFromDigits
  <1>. QED  BY <1>5, <1>12 DEF f0, f1, f2, f3, f4, WB, DW
----------------------------------------------------------------------------
(* The segments.                                                           *)

BeforeGdt == {"framebuffer", "draw", "serial", "welcome", "format", "pmm", "vmm", "gdt"}

\* gdt_init alone changes the segments, idt_init alone the gates, and
\* whoever is past gdt_init stays so.
LEMMA SegmentSteps ==
  ASSUME Next
  PROVE  /\ \/ phase = "gdt" /\ gdt_init /\ UNCHANGED gate_selector
            \/ phase = "idt" /\ gate_selector' = 8 /\ UNCHANGED gdtVars
            \/ UNCHANGED <<gdtVars, gate_selector>>
         /\ phase \notin BeforeGdt => phase' \notin BeforeGdt
         /\ phase \in BeforeGdt /\ phase' \notin BeforeGdt => phase = "gdt" /\ gdt_init
         /\ phase \in BeforeGdt => UNCHANGED gate_selector
  <1>. USE DEF Phase, Enter, LogAndEnter, SameMachine, BeforeGdt
  <1>1. CASE GdtPhase  BY <1>1 DEF GdtPhase
  <1>2. CASE IdtInit  BY <1>2 DEF IdtInit
  <1>3. CASE FramebufferInit  BY <1>3 DEF FramebufferInit
  <1>4. CASE Draw  BY <1>4 DEF Draw
  <1>5. CASE SerialInitPhase  BY <1>5 DEF SerialInitPhase
  <1>6. CASE SendString \/ Uart \/ Interrupt  BY <1>6 DEF SendString, Uart, Interrupt
  <1>7. CASE Welcome  BY <1>7 DEF Welcome
  <1>8. CASE Format  BY <1>8 DEF Format
  <1>9. CASE PmmInit \/ VmmInit  BY <1>9 DEF PmmInit, VmmInit
  <1>10. CASE SlabInit  BY <1>10 DEF SlabInit
  <1>11. CASE GetVendor  BY <1>11 DEF GetVendor
  <1>12. CASE AcpiPhase  BY <1>12 DEF AcpiPhase
  <1>13. CASE ApicInit  BY <1>13 DEF ApicInit
  <1>. QED
    BY <1>1, <1>2, <1>3, <1>4, <1>5, <1>6, <1>7, <1>8, <1>9, <1>10, <1>11, <1>12, <1>13
       DEF Next, Run, kmain

LEMMA Descriptors ==
  /\ DOMAIN gdt = {8 * k : k \in 0 .. 9}
  /\ gdt[8] = Descriptor(154, 160)
  /\ gdt[16] = Descriptor(146, 160)
  /\ gdt[64] = TssLow(Descriptor(137, 160))
  /\ gdt[72] = TssHigh(Descriptor(0, 0))
  <1>1. DOMAIN create_descriptors = {8 * k : k \in 0 .. 9}
    BY DEF create_descriptors
  <1>2. {8, 16, 64, 72} \subseteq {8 * k : k \in 0 .. 9}
    <2>1. 8 = 8 * 1 /\ 16 = 8 * 2 /\ 64 = 8 * 8 /\ 72 = 8 * 9
      OBVIOUS
    <2>2. 1 \in 0 .. 9 /\ 2 \in 0 .. 9 /\ 8 \in 0 .. 9 /\ 9 \in 0 .. 9
      OBVIOUS
    <2>. QED  BY <2>1, <2>2
  <1>3. /\ create_descriptors[8] = Descriptor(154, 160)
        /\ create_descriptors[16] = Descriptor(146, 160)
        /\ create_descriptors[64] = Descriptor(137, 160)
        /\ create_descriptors[72] = Descriptor(0, 0)
    <2>. HIDE DEF Descriptor
    <2>1. 1 + 8 \div 8 = 2 /\ 1 + 16 \div 8 = 3 /\ 1 + 64 \div 8 = 9 /\ 1 + 72 \div 8 = 10
      OBVIOUS
    <2>. QED  BY <1>2, <2>1 DEF create_descriptors
  <1>. QED  BY <1>1, <1>2, <1>3 DEF gdt

\* What gdt_init loads can be used.
LEMMA LoadedUsable ==
  ASSUME tss \in TssAddresses
  PROVE  /\ 8 \in KernelCode(gdt) /\ 16 \in KernelData(gdt)
         /\ SystemBase(gdt, 64) = tss
  <1>1. 8 \in DOMAIN gdt /\ 16 \in DOMAIN gdt
    <2>1. 8 = 8 * 1 /\ 16 = 8 * 2 /\ 1 \in 0 .. 9 /\ 2 \in 0 .. 9
      OBVIOUS
    <2>. QED  BY <2>1, Descriptors
  <1>2. 8 \in KernelCode(gdt)
    BY <1>1, Descriptors DEF KernelCode, Descriptor, Present, Ring, IsSegment, IsCode, IsLong
  <1>3. 16 \in KernelData(gdt)
    BY <1>1, Descriptors DEF KernelData, Descriptor, Present, Ring, IsSegment, IsCode
  <1>4. SystemBase(gdt, 64) = tss
    <2>1. /\ gdt[64].base_15_0 = Bytes(tss, 1, Word)
          /\ gdt[64].base_23_16 = Bytes(tss, Word, ByteValues)
          /\ gdt[64].base_31_24 = Bytes(tss, Word * ByteValues, ByteValues)
      BY Descriptors DEF TssLow, Descriptor
    <2>2. /\ gdt[72].limit_15_0 = Bytes(tss, DWord, Word)
          /\ gdt[72].base_15_0 = Bytes(tss, DWord * Word, Word)
      BY Descriptors DEF TssHigh, Descriptor
    <2>3. tss \in 0 .. QWord - 1
      BY GdtAssumption
    <2>4. 64 + 8 = 72
      OBVIOUS
    <2>. QED  BY <2>1, <2>2, <2>3, <2>4, AddressFromFields DEF SystemBase
  <1>. QED  BY <1>2, <1>3, <1>4

SegmentInv ==
  /\ tss \in TssAddresses
  /\ SegmentsUsable
  /\ phase \in BeforeGdt => gate_selector = 0
  /\ phase \notin BeforeGdt => gdtr = gdt /\ tr = tss

\* The boot loader's segments can be used.
BootSegmentsUsable ==
  /\ BootSegments.segment.cs \in KernelCode(BootSegments.table)
  /\ \A r \in {"ds", "es", "fs", "gs", "ss"} : BootSegments.segment[r] \in KernelData(BootSegments.table)

\* Wherever the linker put the TSS: if the segments can be used before
\* gdt_init, they always can, also by an interrupt at any time.
THEOREM SegmentsStayUsable ==
  ASSUME BootSegmentsUsable
  PROVE  Spec => []SegmentsUsable
  <1>1. Init => SegmentInv
    BY DEF Init, GdtInit, SegmentInv, SegmentsUsable, BootSegmentsUsable, BeforeGdt
  <1>2. SegmentInv /\ [Next]_vars => SegmentInv'
    <2>. SUFFICES ASSUME SegmentInv, [Next]_vars PROVE SegmentInv'
      OBVIOUS
    <2>1. CASE UNCHANGED vars
      BY <2>1 DEF vars, gdtVars, bootVars, SegmentInv, SegmentsUsable, gdt, TssLow, TssHigh
    <2>2. CASE Next /\ phase = "gdt" /\ gdt_init
      <3>1. /\ gdtr' = gdt /\ tr' = SystemBase(gdt, 64) /\ tss' = tss
            /\ segment' = [cs |-> 8, ds |-> 16, es |-> 16, fs |-> 16, gs |-> 16, ss |-> 16]
        BY <2>2 DEF gdt_init, _load_gdt_and_tss_asm
      <3>2. gdt' = gdt
        BY <3>1 DEF gdt, TssLow, TssHigh
      <3>3. gate_selector' = 0
        BY <2>2, SegmentSteps DEF SegmentInv, BeforeGdt
      <3>4. tr' = tss' /\ gdtr' = gdt'
        BY <3>1, <3>2, LoadedUsable DEF SegmentInv
      <3>5. SegmentsUsable'
        BY <3>1, <3>3, LoadedUsable DEF SegmentsUsable, SegmentInv
      <3>. QED  BY <3>1, <3>3, <3>4, <3>5 DEF SegmentInv
    <2>3. CASE Next /\ phase = "idt" /\ gate_selector' = 8 /\ UNCHANGED gdtVars
      <3>1. phase \notin BeforeGdt /\ phase' \notin BeforeGdt
        BY <2>3, SegmentSteps DEF BeforeGdt
      <3>2. gdt' = gdt
        BY <2>3 DEF gdt, TssLow, TssHigh, gdtVars
      <3>. QED
        BY <2>3, <3>1, <3>2, LoadedUsable DEF SegmentInv, SegmentsUsable, gdtVars
    <2>4. CASE Next /\ UNCHANGED <<gdtVars, gate_selector>> /\ ~(phase = "gdt" /\ gdt_init)
      <3>1. phase \in BeforeGdt <=> phase' \in BeforeGdt
        BY <2>4, SegmentSteps
      <3>2. gdt' = gdt
        BY <2>4 DEF gdt, TssLow, TssHigh, gdtVars
      <3>. QED
        BY <2>4, <3>1, <3>2 DEF SegmentInv, SegmentsUsable, gdtVars
    <2>. QED  BY <2>1, <2>2, <2>3, <2>4, SegmentSteps
  <1>3. SegmentInv => SegmentsUsable
    BY DEF SegmentInv
  <1>. QED  BY <1>1, <1>2, <1>3, PTL DEF Spec
----------------------------------------------------------------------------
(* Lines and circles.                                                      *)

\* The pixels of points of a screen, and the points there are.
PointsOf(screen) == (0 .. (screen.fb_width - 1)) \X (0 .. (screen.fb_height - 1))
Indices(screen, points) == {p[2] * screen.fb_pitch + p[1] : p \in points}

\* A pixel's index tells its point, and is within the framebuffer.
LEMMA PointOfIndex ==
  ASSUME NEW screen \in Screens, NEW p \in PointsOf(screen)
  PROVE  LET u == p[2] * screen.fb_pitch + p[1]
         IN /\ u \in 0 .. screen.fb_height * screen.fb_pitch - 1
            /\ <<(u % screen.fb_pitch), u \div screen.fb_pitch>> = p
  <1>. DEFINE m == screen.fb_pitch
              h == screen.fb_height
              x == p[1]
              y == p[2]
              u == y * m + x
  <1>1. /\ screen.fb_width \in Nat \ {0} /\ h \in Nat \ {0} /\ m \in Nat /\ m >= screen.fb_width
        /\ x \in 0 .. (screen.fb_width - 1) /\ y \in 0 .. (h - 1) /\ p = <<x, y>>
    BY DrawingAssumption DEF PointsOf
  <1>2. m \in Nat \ {0} /\ x \in 0 .. (m - 1) /\ x \in Nat /\ y \in Nat
    BY <1>1
  <1>. HIDE DEF m, h, x, y
  <1>3. y * m + m <= h * m
    BY <1>1, <1>2, ProductGap
  <1>4. y * m \in Nat /\ h * m \in Nat
    BY <1>1, <1>2
  <1>5. u = m * y + x /\ u \in Int
    BY <1>2
  <1>6. u \in 0 .. h * m - 1
    BY <1>2, <1>3, <1>4
  <1>. HIDE DEF u
  <1>7. u \div m = y
    BY <1>2, <1>5, QuotientUnique
  <1>8. u % m = x
    <2>1. (u % m) \in 0 .. (m - 1) /\ u = m * (u \div m) + (u % m)
      BY <1>2, <1>5, DivisionWithRemainder
    <2>2. m * y \in Int
      BY <1>2
    <2>. QED  BY <1>2, <1>5, <1>7, <2>1, <2>2
  <1>. QED  BY <1>1, <1>6, <1>7, <1>8 DEF u, m, h, x, y

\* The points of the pixels that were drawn are the points that were drawn.
LEMMA PointsAreDrawn ==
  ASSUME gfx \in Screens, NEW drawn \in SUBSET PointsOf(gfx), pixels = Indices(gfx, drawn)
  PROVE  /\ Points = drawn
         /\ \A u \in pixels : u \in 0 .. gfx.fb_height * gfx.fb_pitch - 1
  <1>. DEFINE At(p) == p[2] * gfx.fb_pitch + p[1]
              Back(u) == <<(u % gfx.fb_pitch), u \div gfx.fb_pitch>>
  <1>1. \A p \in drawn : At(p) \in 0 .. gfx.fb_height * gfx.fb_pitch - 1 /\ Back(At(p)) = p
    BY PointOfIndex
  <1>2. pixels = {At(p) : p \in drawn} /\ Points = {Back(u) : u \in pixels}
    BY DEF Indices, Points
  <1>. HIDE DEF At, Back
  <1>. QED  BY <1>1, <1>2

----------------------------------------------------------------------------
(* Lines.                                                                  *)

\* A line with coordinates.
IsLineShape(l) == l.x0 \in Nat /\ l.x1 \in Nat /\ l.y0 \in Nat /\ l.y1 \in Nat

\* The point that is u steps to the side and v steps up or down.
LinePoint(l, u, v) == <<l.x0 + sx(l) * u, l.y0 + sy(l) * v>>

\* The pen after these steps: the error tells the distance from the line.
LinePen(l, u, v) ==
  [x |-> l.x0 + sx(l) * u, y |-> l.y0 + sy(l) * v,
   error |-> dx(l) + dy(l) + dx(l) * v + dy(l) * u, down |-> TRUE]

LEMMA Extents ==
  ASSUME NEW l, IsLineShape(l)
  PROVE  /\ dx(l) \in Nat /\ dy(l) \in Int /\ -dy(l) \in Nat
         /\ sx(l) \in {1, -1} /\ sy(l) \in {1, -1}
         /\ l.x1 = l.x0 + sx(l) * dx(l) /\ l.y1 = l.y0 + sy(l) * (-dy(l))
         /\ dx(l) = 0 <=> l.x0 = l.x1
         /\ dy(l) = 0 <=> l.y0 = l.y1
  <1>1. /\ dx(l) \in Nat /\ sx(l) \in {1, -1} /\ l.x1 = l.x0 + sx(l) * dx(l)
        /\ dx(l) = 0 <=> l.x0 = l.x1
    BY DEF IsLineShape, dx, sx, Abs
  <1>2. /\ dy(l) \in Int /\ -dy(l) \in Nat /\ sy(l) \in {1, -1} /\ l.y1 = l.y0 + sy(l) * (-dy(l))
        /\ dy(l) = 0 <=> l.y0 = l.y1
    BY DEF IsLineShape, dy, sy, Abs
  <1>. QED  BY <1>1, <1>2

\* Steps within the extents stay between the ends.
LEMMA BetweenEnds ==
  ASSUME NEW a \in Nat, NEW b \in Nat, NEW s \in {1, -1}, NEW d \in Nat, b = a + s * d,
         NEW u \in 0 .. d
  PROVE  a + s * u \in Between(a, b)
  <1>1. CASE s = 1
    BY <1>1 DEF Between
  <1>2. CASE s = -1
    BY <1>2 DEF Between
  <1>. QED  BY <1>1, <1>2

\* The distance from the line in terms of the steps.
Crosses(s, t, w, h, u, v) == Abs((s * w) * (t * v) - (t * h) * (s * u)) = Abs(w * v - h * u)

LEMMA CrossProduct ==
  ASSUME NEW s \in {1, -1}, NEW t \in {1, -1}, NEW w \in Nat, NEW h \in Nat,
         NEW u \in Nat, NEW v \in Nat
  PROVE  Crosses(s, t, w, h, u, v)
  <1>. USE DEF Crosses
  <1>1. w * v \in Nat /\ h * u \in Nat
    OBVIOUS
  <1>2. CASE s = 1 /\ t = 1
    BY <1>2
  <1>3. CASE s = 1 /\ t = -1
    <2>1. (s * w) * (t * v) = -(w * v) /\ (t * h) * (s * u) = -(h * u)
      BY <1>3
    <2>. QED  BY <1>1, <2>1 DEF Abs
  <1>4. CASE s = -1 /\ t = 1
    <2>1. (s * w) * (t * v) = -(w * v) /\ (t * h) * (s * u) = -(h * u)
      BY <1>4
    <2>. QED  BY <1>1, <2>1 DEF Abs
  <1>5. CASE s = -1 /\ t = -1
    <2>1. (s * w) * (t * v) = w * v /\ (t * h) * (s * u) = h * u
      BY <1>5
    <2>. QED  BY <1>1, <2>1 DEF Abs
  <1>. QED  BY <1>2, <1>3, <1>4, <1>5

Longer(w, h) == IF w > h THEN w ELSE h

LEMMA OnLineAt ==
  ASSUME NEW l, IsLineShape(l), NEW u \in 0 .. dx(l), NEW v \in 0 .. (-dy(l))
  PROVE  OnLine(l, LinePoint(l, u, v)) <=>
           2 * Abs(dx(l) * v - (-dy(l)) * u) <= Longer(dx(l), -dy(l))
  <1>. DEFINE w == dx(l)
              h == -dy(l)
              s == sx(l)
              t == sy(l)
              p == LinePoint(l, u, v)
  <1>1. /\ w \in Nat /\ h \in Nat /\ s \in {1, -1} /\ t \in {1, -1}
        /\ l.x0 \in Nat /\ l.x1 \in Nat /\ l.y0 \in Nat /\ l.y1 \in Nat
        /\ l.x1 = l.x0 + s * w /\ l.y1 = l.y0 + t * h
    BY Extents DEF IsLineShape
  <1>2. p[1] = l.x0 + s * u /\ p[2] = l.y0 + t * v
    BY DEF LinePoint
  <1>. HIDE DEF w, h, s, t, p
  <1>3. u \in 0 .. w /\ v \in 0 .. h
    BY DEF w, h
  <1>4. p[1] \in Between(l.x0, l.x1) /\ p[2] \in Between(l.y0, l.y1)
    BY <1>1, <1>2, <1>3, BetweenEnds
  <1>5. /\ l.x1 - l.x0 = s * w /\ l.y1 - l.y0 = t * h
        /\ p[1] - l.x0 = s * u /\ p[2] - l.y0 = t * v
    BY <1>1, <1>2, <1>3
  <1>6. Abs(s * w) = w /\ Abs(t * h) = h
    BY <1>1 DEF Abs
  <1>7. Abs((s * w) * (t * v) - (t * h) * (s * u)) = Abs(w * v - h * u)
    <2>1. /\ s \in {1, -1} /\ t \in {1, -1} /\ w \in Nat /\ h \in Nat
          /\ u \in Nat /\ v \in Nat
      BY <1>1, <1>3
    <2>2. Crosses(s, t, w, h, u, v)
      BY <2>1, CrossProduct
    <2>. QED  BY <2>2, Zenon DEF Crosses
  <1>8. OnLine(l, p) <=> 2 * Abs((s * w) * (t * v) - (t * h) * (s * u))
                            <= (IF Abs(s * w) > Abs(t * h) THEN Abs(s * w) ELSE Abs(t * h))
    BY <1>4, <1>5, Zenon DEF OnLine
  <1>. QED  BY <1>6, <1>7, <1>8 DEF Longer, w, h, p

\* Bresenham's decision: the step that the error tells to take stays as near
\* to the line as any step can.
LEMMA NearestStep ==
  ASSUME NEW w \in Nat \ {0}, NEW h \in Nat \ {0}, NEW c \in Int, 2 * Abs(c) <= Longer(w, h)
  PROVE  LET e     == c + w - h
             right == 2 * e >= -h
             down  == 2 * e <= w
             next  == c + (IF down THEN w ELSE 0) - (IF right THEN h ELSE 0)
         IN (right \/ down) /\ 2 * Abs(next) <= Longer(w, h)
BY DEF Abs, Longer

\* Steps in one direction, seen from the start and from each other.
Strides(a, s, u, k, x, y) ==
  (x = a + s * u /\ y = a + s * (u + k)) =>
    Abs(x - a) = u /\ Abs(y - a) = u + k /\ Abs(y - x) = k /\ (k = 1 => x # y)

LEMMA Stride ==
  ASSUME NEW a \in Nat, NEW s \in {1, -1}, NEW u \in Nat, NEW k \in {0, 1}, NEW x, NEW y
  PROVE  Strides(a, s, u, k, x, y)
  <1>. SUFFICES ASSUME x = a + s * u, y = a + s * (u + k)
                PROVE  Abs(x - a) = u /\ Abs(y - a) = u + k /\ Abs(y - x) = k /\ (k = 1 => x # y)
    BY Zenon DEF Strides
  <1>1. CASE s = 1
    <2>1. x = a + u /\ y = a + u + k /\ a \in Nat /\ u \in Nat /\ k \in Nat
      BY <1>1
    <2>. QED  BY ONLY <2>1 DEF Abs
  <1>2. CASE s = -1
    <2>1. x = a - u /\ y = a - u - k /\ a \in Nat /\ u \in Nat /\ k \in Nat
      BY <1>2
    <2>. QED  BY ONLY <2>1 DEF Abs
  <1>. QED  BY <1>1, <1>2

\* Of two points on a line that are at most a step in each direction apart,
\* the one behind is nearer to the start.
LEMMA NextPoint ==
  ASSUME NEW l, IsLineShape(l), NEW u \in Nat, NEW v \in Nat, NEW a \in {0, 1}, NEW b \in {0, 1},
         a = 1 \/ b = 1
  PROVE  LET p == LinePoint(l, u, v)
             q == LinePoint(l, u + a, v + b)
         IN /\ Neighbours(q, p)
            /\ Abs(p[1] - l.x0) + Abs(p[2] - l.y0) < Abs(q[1] - l.x0) + Abs(q[2] - l.y0)
  <1>. DEFINE s == sx(l)
              t == sy(l)
              p == LinePoint(l, u, v)
              q == LinePoint(l, u + a, v + b)
  <1>1. s \in {1, -1} /\ t \in {1, -1} /\ l.x0 \in Nat /\ l.y0 \in Nat
    BY Extents DEF IsLineShape
  <1>2. /\ p[1] = l.x0 + s * u /\ q[1] = l.x0 + s * (u + a)
        /\ p[2] = l.y0 + t * v /\ q[2] = l.y0 + t * (v + b)
    BY DEF LinePoint
  <1>. HIDE DEF s, t, p, q
  <1>3. /\ Abs(p[1] - l.x0) = u /\ Abs(q[1] - l.x0) = u + a
        /\ Abs(q[1] - p[1]) = a /\ (a = 1 => p[1] # q[1])
    <2>1. Strides(l.x0, s, u, a, p[1], q[1])
      BY <1>1, Stride
    <2>. QED  BY <1>2, <2>1, Zenon DEF Strides
  <1>4. /\ Abs(p[2] - l.y0) = v /\ Abs(q[2] - l.y0) = v + b
        /\ Abs(q[2] - p[2]) = b /\ (b = 1 => p[2] # q[2])
    <2>1. Strides(l.y0, t, v, b, p[2], q[2])
      BY <1>1, Stride
    <2>. QED  BY <1>2, <2>1, Zenon DEF Strides
  <1>5. Neighbours(q, p)
    BY <1>3, <1>4 DEF Neighbours
  <1>6. Abs(p[1] - l.x0) + Abs(p[2] - l.y0) < Abs(q[1] - l.x0) + Abs(q[2] - l.y0)
    BY <1>3, <1>4
  <1>. QED  BY <1>5, <1>6 DEF p, q

\* While a line is drawn, its points are a chain and the pen is at one of them.
LineInv(l, q, drawn) ==
  /\ IsLine(l, drawn, ~q.down)
  /\ q.down => /\ dx(l) # 0 /\ dy(l) # 0
               /\ \E u \in 0 .. dx(l), v \in 0 .. (-dy(l)) :
                    q = LinePen(l, u, v) /\ LinePoint(l, u, v) \in drawn

\* One more point at the end of the chain.
LEMMA LongerChain ==
  ASSUME NEW l, NEW drawn, NEW p \in drawn, NEW q, IsLine(l, drawn, FALSE), OnLine(l, q),
         Neighbours(q, p),
         Abs(p[1] - l.x0) + Abs(p[2] - l.y0) < Abs(q[1] - l.x0) + Abs(q[2] - l.y0)
  PROVE  IsLine(l, drawn \cup {q}, FALSE)
BY Zenon DEF IsLine

LEMMA FirstPoint ==
  ASSUME NEW l, IsLineShape(l), dx(l) # 0, dy(l) # 0
  PROVE  /\ LineInv(l, LinePen(l, 0, 0), {<<l.x0, l.y0>>})
         /\ LinePen(l, 0, 0) = [x |-> l.x0, y |-> l.y0, error |-> dx(l) + dy(l), down |-> TRUE]
  <1>1. /\ dx(l) \in Nat /\ -dy(l) \in Nat /\ dy(l) \in Int /\ l.x0 \in Nat /\ l.y0 \in Nat
        /\ sx(l) \in {1, -1} /\ sy(l) \in {1, -1}
    BY Extents DEF IsLineShape
  <1>2. 0 \in 0 .. dx(l) /\ 0 \in 0 .. (-dy(l))
    BY <1>1
  <1>3. LinePoint(l, 0, 0) = <<l.x0, l.y0>>
    BY <1>1 DEF LinePoint
  <1>4. OnLine(l, <<l.x0, l.y0>>)
    <2>1. 2 * Abs(dx(l) * 0 - (-dy(l)) * 0) <= Longer(dx(l), -dy(l))
      BY <1>1 DEF Abs, Longer
    <2>. QED  BY <1>2, <1>3, <2>1, OnLineAt
  <1>5. IsLine(l, {<<l.x0, l.y0>>}, FALSE)
    BY <1>4, Zenon DEF IsLine
  <1>6. /\ l.x0 + sx(l) * 0 = l.x0 /\ l.y0 + sy(l) * 0 = l.y0
        /\ dx(l) + dy(l) + dx(l) * 0 + dy(l) * 0 = dx(l) + dy(l)
    BY <1>1
  <1>7. LinePen(l, 0, 0) = [x |-> l.x0, y |-> l.y0, error |-> dx(l) + dy(l), down |-> TRUE]
    BY <1>6 DEF LinePen
  <1>8. LinePen(l, 0, 0).down
    BY DEF LinePen
  <1>9. LinePoint(l, 0, 0) \in {<<l.x0, l.y0>>}
    BY <1>3
  <1>10. LineInv(l, LinePen(l, 0, 0), {<<l.x0, l.y0>>})
    BY <1>2, <1>5, <1>8, <1>9, Zenon DEF LineInv
  <1>. QED  BY <1>7, <1>10

\* The decisions of a step and what they are in terms of the steps so far.
LEMMA StepAsPen ==
  ASSUME NEW l, IsLineShape(l), NEW u \in Nat, NEW v \in Nat
  PROVE  LET e     == dx(l) + dy(l) + dx(l) * v + dy(l) * u
             a     == IF 2 * e >= dy(l) THEN 1 ELSE 0
             b     == IF 2 * e <= dx(l) THEN 1 ELSE 0
         IN LineStep(l, LinePen(l, u, v)) = LinePen(l, u + a, v + b)
  <1>. DEFINE s == sx(l)
              t == sy(l)
              w == dx(l)
              g == dy(l)
              e == w + g + w * v + g * u
              a == IF 2 * e >= g THEN 1 ELSE 0
              b == IF 2 * e <= w THEN 1 ELSE 0
              q == LinePen(l, u, v)
  <1>1. /\ s \in {1, -1} /\ t \in {1, -1} /\ w \in Int /\ g \in Int
        /\ l.x0 \in Nat /\ l.y0 \in Nat
    BY Extents DEF IsLineShape
  <1>2. q.x = l.x0 + s * u /\ q.y = l.y0 + t * v /\ q.error = e
    BY DEF LinePen
  <1>3. a \in {0, 1} /\ b \in {0, 1}
    OBVIOUS
  <1>4. /\ LineStep(l, q).x = q.x + (IF 2 * e >= g THEN s ELSE 0)
        /\ LineStep(l, q).y = q.y + (IF 2 * e <= w THEN t ELSE 0)
        /\ LineStep(l, q).error = e + (IF 2 * e >= g THEN g ELSE 0) + (IF 2 * e <= w THEN w ELSE 0)
        /\ LineStep(l, q) = [x |-> LineStep(l, q).x, y |-> LineStep(l, q).y,
                             error |-> LineStep(l, q).error, down |-> TRUE]
    BY <1>2 DEF LineStep
  <1>5. /\ (IF 2 * e >= g THEN s ELSE 0) = s * a
        /\ (IF 2 * e <= w THEN t ELSE 0) = t * b
        /\ (IF 2 * e >= g THEN g ELSE 0) = g * a
        /\ (IF 2 * e <= w THEN w ELSE 0) = w * b
    <2>. HIDE DEF s, t, w, g, e
    <2>. QED  BY <1>1
  <1>6. /\ l.x0 + s * u + s * a = l.x0 + s * (u + a)
        /\ l.y0 + t * v + t * b = l.y0 + t * (v + b)
        /\ e + g * a + w * b = w + g + w * (v + b) + g * (u + a)
    <2>. HIDE DEF s, t, w, g, a, b
    <2>1. s * (u + a) = s * u + s * a /\ s * u \in Int /\ s * a \in Int
      BY <1>1, <1>3
    <2>2. t * (v + b) = t * v + t * b /\ t * v \in Int /\ t * b \in Int
      BY <1>1, <1>3
    <2>3. w * (v + b) = w * v + w * b /\ w * v \in Int /\ w * b \in Int
      BY <1>1, <1>3
    <2>4. g * (u + a) = g * u + g * a /\ g * u \in Int /\ g * a \in Int
      BY <1>1, <1>3
    <2>5. e = w + g + w * v + g * u
      OBVIOUS
    <2>. HIDE DEF e
    <2>6. l.x0 + s * u + s * a = l.x0 + s * (u + a) /\ l.y0 + t * v + t * b = l.y0 + t * (v + b)
      BY <1>1, <2>1, <2>2
    <2>7. e + g * a + w * b = w + g + w * (v + b) + g * (u + a)
      BY ONLY <1>1, <2>3, <2>4, <2>5
    <2>. QED  BY <2>6, <2>7
  <1>7. /\ LineStep(l, q).x = l.x0 + s * (u + a)
        /\ LineStep(l, q).y = l.y0 + t * (v + b)
        /\ LineStep(l, q).error = w + g + w * (v + b) + g * (u + a)
    <2>. HIDE DEF s, t, w, g, a, b, e, q
    <2>. QED  BY <1>2, <1>4, <1>5, <1>6
  <1>. HIDE DEF q
  <1>8. LineStep(l, q) = LinePen(l, u + a, v + b)
    <2>. HIDE DEF s, t, w, g, a, b, e
    <2>1. LineStep(l, q) = [x |-> l.x0 + s * (u + a), y |-> l.y0 + t * (v + b),
                            error |-> w + g + w * (v + b) + g * (u + a), down |-> TRUE]
      BY <1>4, <1>7
    <2>. QED  BY <2>1, Zenon DEF LinePen, s, t, w, g
  <1>. QED  BY <1>8 DEF q

LEMMA StepKeepsLine ==
  ASSUME NEW l, IsLineShape(l), NEW q, NEW drawn, LineInv(l, q, drawn), q.down,
         q.x # l.x1, q.y # l.y1
  PROVE  LET p == LineStep(l, q) IN LineInv(l, p, drawn \cup {<<p.x, p.y>>})
  <1>. DEFINE w == dx(l)
              h == -dy(l)
  <1>1. PICK u \in 0 .. w, v \in 0 .. h : q = LinePen(l, u, v) /\ LinePoint(l, u, v) \in drawn
    BY DEF LineInv
  <1>. DEFINE e == dx(l) + dy(l) + dx(l) * v + dy(l) * u
              c == w * v - h * u
              a == IF 2 * e >= dy(l) THEN 1 ELSE 0
              b == IF 2 * e <= dx(l) THEN 1 ELSE 0
              p == LinePen(l, u + a, v + b)
  <1>2. /\ w \in Nat \ {0} /\ h \in Nat \ {0} /\ dy(l) = -h /\ sx(l) \in {1, -1} /\ sy(l) \in {1, -1}
        /\ l.x1 = l.x0 + sx(l) * w /\ l.y1 = l.y0 + sy(l) * h
        /\ l.x0 \in Nat /\ l.y0 \in Nat /\ u \in Nat /\ v \in Nat
    BY Extents DEF LineInv, IsLineShape
  <1>3. IsLine(l, drawn, FALSE)
    BY Zenon DEF LineInv, IsLine
  <1>4. 2 * Abs(c) <= Longer(w, h)
    <2>1. OnLine(l, LinePoint(l, u, v))
      BY <1>1, <1>3, Zenon DEF IsLine
    <2>. QED  BY <1>1, <2>1, OnLineAt
  <1>5. LineStep(l, q) = p
    BY <1>1, <1>2, StepAsPen
  <1>6. u # w /\ v # h
    <2>1. q.x = l.x0 + sx(l) * u /\ q.y = l.y0 + sy(l) * v
      BY <1>1 DEF LinePen
    <2>. QED  BY <1>2, <2>1
  <1>. HIDE DEF w, h
  <1>7. e = c + w - h
    <2>1. e = w - h + w * v + (-h) * u
      BY <1>2 DEF w
    <2>2. (-h) * u = -(h * u) /\ h * u \in Int /\ w * v \in Int
      BY <1>2
    <2>. HIDE DEF e
    <2>. QED  BY <1>2, <2>1, <2>2
  <1>8. c \in Int
    BY <1>2
  <1>9. /\ a = 1 \/ b = 1
        /\ a \in {0, 1} /\ b \in {0, 1}
        /\ 2 * Abs(c + w * b - h * a) <= Longer(w, h)
    <2>1. a = (IF 2 * (c + w - h) >= -h THEN 1 ELSE 0) /\ b = (IF 2 * (c + w - h) <= w THEN 1 ELSE 0)
      BY <1>2, <1>7 DEF w
    <2>. HIDE DEF a, b, c, e
    <2>2. /\ 2 * (c + w - h) >= -h \/ 2 * (c + w - h) <= w
          /\ 2 * Abs(c + (IF 2 * (c + w - h) <= w THEN w ELSE 0)
                       - (IF 2 * (c + w - h) >= -h THEN h ELSE 0)) <= Longer(w, h)
      BY <1>2, <1>4, <1>8, NearestStep
    <2>3. w * b = (IF 2 * (c + w - h) <= w THEN w ELSE 0)
      BY <1>2, <2>1
    <2>4. h * a = (IF 2 * (c + w - h) >= -h THEN h ELSE 0)
      BY <1>2, <2>1
    <2>. QED  BY <2>1, <2>2, <2>3, <2>4
  <1>. HIDE DEF a, b, e
  <1>10. c + w * b - h * a = w * (v + b) - h * (u + a)
    BY <1>2, <1>9
  <1>11. u + a \in 0 .. w /\ v + b \in 0 .. h
    BY <1>1, <1>2, <1>6, <1>9
  <1>12. OnLine(l, LinePoint(l, u + a, v + b))
    <2>1. u + a \in 0 .. dx(l) /\ v + b \in 0 .. (-dy(l))
      BY <1>11 DEF w, h
    <2>2. 2 * Abs(dx(l) * (v + b) - (-dy(l)) * (u + a)) <= Longer(dx(l), -dy(l))
      BY <1>9, <1>10, Zenon DEF w, h
    <2>. HIDE DEF c, p
    <2>. QED  BY <2>1, <2>2, OnLineAt
  <1>. DEFINE from == LinePoint(l, u, v)
              to   == LinePoint(l, u + a, v + b)
  <1>13. /\ Neighbours(to, from)
         /\ Abs(from[1] - l.x0) + Abs(from[2] - l.y0) < Abs(to[1] - l.x0) + Abs(to[2] - l.y0)
    BY <1>2, <1>9, NextPoint
  <1>14. from \in drawn
    BY <1>1
  <1>15. <<p.x, p.y>> = to /\ p.down
    BY DEF LinePen, LinePoint
  <1>. HIDE DEF from, to, p
  <1>16. IsLine(l, drawn \cup {to}, FALSE)
    BY <1>3, <1>12, <1>13, <1>14, LongerChain DEF to
  <1>17. LineInv(l, p, drawn \cup {to})
    <2>1. dx(l) # 0 /\ dy(l) # 0
      BY <1>2 DEF w
    <2>2. u + a \in 0 .. dx(l) /\ v + b \in 0 .. (-dy(l))
      BY <1>11 DEF w, h
    <2>3. \E m \in 0 .. dx(l), n \in 0 .. (-dy(l)) :
             p = LinePen(l, m, n) /\ LinePoint(l, m, n) \in drawn \cup {to}
      BY <2>2, Zenon DEF p, to
    <2>. QED  BY <1>15, <1>16, <2>1, <2>3, Zenon DEF LineInv
  <1>. QED  BY <1>5, <1>15, <1>17

\* When the loop ends, the last point has one of the end's coordinates.
LEMMA LastPoint ==
  ASSUME NEW l, IsLineShape(l), NEW q, NEW drawn, LineInv(l, q, drawn), q.down,
         q.x = l.x1 \/ q.y = l.y1
  PROVE  IsLine(l, drawn, TRUE)
  <1>1. PICK u \in 0 .. dx(l), v \in 0 .. (-dy(l)) :
               q = LinePen(l, u, v) /\ LinePoint(l, u, v) \in drawn
    BY DEF LineInv
  <1>2. LinePoint(l, u, v)[1] = q.x /\ LinePoint(l, u, v)[2] = q.y
    BY <1>1 DEF LinePen, LinePoint
  <1>3. IsLine(l, drawn, FALSE)
    BY Zenon DEF LineInv, IsLine
  <1>4. \E p \in drawn : p[1] = l.x1 \/ p[2] = l.y1
    BY <1>1, <1>2
  <1>. QED  BY <1>3, <1>4, Zenon DEF IsLine

\* One coordinate nearer to the start.
LEMMA Nearer ==
  ASSUME NEW a \in Nat, NEW b \in Nat, NEW n \in Between(a, b), n # a
  PROVE  \E m \in Between(a, b) : /\ Abs(n - m) = 1 /\ Abs(m - n) = 1 /\ m # n
                                  /\ Abs(m - a) < Abs(n - a)
  <1>1. CASE a <= n
    <2>1. n - 1 \in Between(a, b)
      BY <1>1 DEF Between
    <2>2. n \in Nat
      BY DEF Between
    <2>. QED  BY <1>1, <2>1, <2>2 DEF Abs
  <1>2. CASE n < a
    <2>1. n + 1 \in Between(a, b)
      BY <1>2 DEF Between
    <2>2. n \in Nat
      BY DEF Between
    <2>. QED  BY <1>2, <2>1, <2>2 DEF Abs
  <1>3. n \in Nat
    BY DEF Between
  <1>. QED  BY <1>1, <1>2, <1>3

\* Vertical and horizontal lines.
LEMMA StraightLine ==
  ASSUME NEW l, IsLineShape(l), l.x0 = l.x1 \/ l.y0 = l.y1
  PROVE  IsLine(l, Between(l.x0, l.x1) \X Between(l.y0, l.y1), TRUE)
  <1>. DEFINE columns == Between(l.x0, l.x1)
              rows    == Between(l.y0, l.y1)
              start   == <<l.x0, l.y0>>
              way(p)  == Abs(p[1] - l.x0) + Abs(p[2] - l.y0)
  <1>1. l.x0 \in Nat /\ l.x1 \in Nat /\ l.y0 \in Nat /\ l.y1 \in Nat
    BY DEF IsLineShape
  <1>2. l.x0 \in columns /\ l.x1 \in columns /\ l.y0 \in rows /\ l.y1 \in rows
    BY <1>1 DEF Between
  <1>3. columns \subseteq Nat /\ rows \subseteq Nat
    BY <1>1 DEF Between
  <1>4. /\ l.x0 = l.x1 => columns = {l.x0}
        /\ l.y0 = l.y1 => rows = {l.y0}
    BY <1>1 DEF Between
  <1>5. ASSUME NEW p \in columns \X rows PROVE OnLine(l, p)
    <2>1. /\ p[1] \in columns /\ p[2] \in rows /\ p[1] \in Nat /\ p[2] \in Nat
          /\ \/ l.x1 - l.x0 = 0 /\ p[1] - l.x0 = 0
             \/ l.y1 - l.y0 = 0 /\ p[2] - l.y0 = 0
      BY <1>1, <1>3, <1>4
    <2>2. (l.x1 - l.x0) * (p[2] - l.y0) - (l.y1 - l.y0) * (p[1] - l.x0) = 0
      <3>1. CASE l.x1 - l.x0 = 0 /\ p[1] - l.x0 = 0
        BY <1>1, <2>1, <3>1
      <3>2. CASE l.y1 - l.y0 = 0 /\ p[2] - l.y0 = 0
        BY <1>1, <2>1, <3>2
      <3>. QED  BY <2>1, <3>1, <3>2
    <2>. DEFINE longer == IF Abs(l.x1 - l.x0) > Abs(l.y1 - l.y0) THEN Abs(l.x1 - l.x0)
                          ELSE Abs(l.y1 - l.y0)
    <2>3. 2 * Abs(0) <= longer
      BY <1>1 DEF Abs
    <2>. HIDE DEF longer
    <2>4. 2 * Abs((l.x1 - l.x0) * (p[2] - l.y0) - (l.y1 - l.y0) * (p[1] - l.x0)) <= longer
      BY ONLY <2>2, <2>3, Zenon
    <2>. QED  BY <2>1, <2>4, Zenon DEF OnLine, longer
  <1>6. ASSUME NEW p \in columns \X rows, p # start
        PROVE  \E q \in columns \X rows : Neighbours(p, q) /\ way(q) < way(p)
    <2>1. /\ p[1] \in columns /\ p[2] \in rows /\ p[1] \in Nat /\ p[2] \in Nat /\ p = <<p[1], p[2]>>
      BY <1>3
    <2>2. CASE p[1] # l.x0
      <3>1. PICK m \in columns : /\ Abs(p[1] - m) = 1 /\ m # p[1]
                                 /\ Abs(m - l.x0) < Abs(p[1] - l.x0)
        BY <1>1, <2>1, <2>2, Nearer
      <3>2. p[2] = l.y0 /\ Abs(p[2] - p[2]) = 0
        BY <1>2, <1>4, <2>1, <2>2 DEF Abs
      <3>. DEFINE q == <<m, p[2]>>
      <3>3. q \in columns \X rows /\ q[1] = m /\ q[2] = p[2] /\ p # q
        BY <2>1, <3>1
      <3>. HIDE DEF q
      <3>4. Neighbours(p, q)
        BY <3>1, <3>2, <3>3 DEF Neighbours
      <3>5. way(q) < way(p)
        <4>1. Abs(l.y0 - l.y0) = 0 /\ Abs(m - l.x0) \in Int /\ Abs(p[1] - l.x0) \in Int
          BY <1>1, <1>3, <2>1 DEF Abs
        <4>. QED  BY <3>1, <3>2, <3>3, <4>1
      <3>. QED  BY <3>3, <3>4, <3>5
    <2>3. CASE p[2] # l.y0
      <3>1. PICK m \in rows : /\ Abs(p[2] - m) = 1 /\ m # p[2]
                              /\ Abs(m - l.y0) < Abs(p[2] - l.y0)
        BY <1>1, <2>1, <2>3, Nearer
      <3>2. p[1] = l.x0 /\ Abs(p[1] - p[1]) = 0
        BY <1>2, <1>4, <2>1, <2>3 DEF Abs
      <3>. DEFINE q == <<p[1], m>>
      <3>3. q \in columns \X rows /\ q[1] = p[1] /\ q[2] = m /\ p # q
        BY <2>1, <3>1
      <3>. HIDE DEF q
      <3>4. Neighbours(p, q)
        BY <3>1, <3>2, <3>3 DEF Neighbours
      <3>5. way(q) < way(p)
        <4>1. Abs(l.x0 - l.x0) = 0 /\ Abs(m - l.y0) \in Int /\ Abs(p[2] - l.y0) \in Int
          BY <1>1, <1>3, <2>1 DEF Abs
        <4>. QED  BY <3>1, <3>2, <3>3, <4>1
      <3>. QED  BY <3>3, <3>4, <3>5
    <2>. QED  BY <1>6, <2>1, <2>2, <2>3
  <1>7. start \in columns \X rows /\ <<l.x1, l.y1>> \in columns \X rows
    BY <1>2
  <1>8. \E p \in columns \X rows : p[1] = l.x1 \/ p[2] = l.y1
    BY <1>7
  <1>. HIDE DEF columns, rows
  <1>9. IsLine(l, columns \X rows, TRUE)
    BY <1>5, <1>6, <1>7, <1>8, Zenon DEF IsLine
  <1>. QED  BY <1>9 DEF columns, rows
----------------------------------------------------------------------------
(* Circles.                                                                *)

\* How far outside the circle the pen is, in squares: it goes straight on while
\* that is little, and inwards when it gets more.
OffCircle(r, x, y) == x * x + y * y - r * r

NearCircle(r, x, y, s) ==
  /\ x = 0 => y = r /\ s = 0
  /\ s <= r
  /\ y >= x => s <= r - 2 \/ x = 0 \/ (r = 2 /\ x = 1 /\ y = 2 /\ s = 1)
  /\ s >= 0 \/ s >= y - 2 * x - 2 * r + 4
  /\ y >= x - 2 /\ y <= r

\* d tells the distance from the circle.
CircleError(r, x, y, s) == 2 * s + 8 * x - 6 * y + 4 * r + 3

LEMMA NearStep ==
  ASSUME NEW r \in Nat \ {0}, NEW x \in Nat, NEW y \in Int, NEW s \in Int,
         NearCircle(r, x, y, s), y >= x
  PROVE  IF CircleError(r, x, y, s) > 0
           THEN NearCircle(r, x + 1, y - 1, s + 2 * x - 2 * y + 2)
         ELSE NearCircle(r, x + 1, y, s + 2 * x + 1)
  <1>1. CASE x = 0
    BY <1>1 DEF NearCircle, CircleError
  <1>2. CASE x # 0 /\ CircleError(r, x, y, s) > 0
    BY <1>2 DEF NearCircle, CircleError
  <1>3. CASE x # 0 /\ ~(CircleError(r, x, y, s) > 0)
    BY <1>3 DEF NearCircle, CircleError
  <1>. QED  BY <1>1, <1>2, <1>3

LEMMA SquareOrder ==
  ASSUME NEW a \in Nat, NEW b \in Nat, a <= b
  PROVE  a * a <= b * b
  <1>1. PICK k \in Nat : b = a + k
    BY b - a \in Nat
  <1>2. b * b = a * a + 2 * (a * k) + k * k
    BY <1>1
  <1>3. a * k \in Nat /\ k * k \in Nat /\ a * a \in Nat
    OBVIOUS
  <1>. QED  BY <1>2, <1>3

\* A point that is not far outside the circle is in the square around it.
LEMMA InSquare ==
  ASSUME NEW r \in Nat, NEW w \in Int, NEW h \in Int, w * w + h * h - r * r <= r
  PROVE  w \in (-r) .. r
  <1>. DEFINE a == IF w < 0 THEN -w ELSE w
  <1>1. a \in Nat /\ a * a = w * w /\ h * h \in Nat /\ r * r \in Nat /\ w * w \in Nat
    OBVIOUS
  <1>2. ASSUME a >= r + 1 PROVE FALSE
    <2>1. (r + 1) * (r + 1) <= a * a
      BY <1>1, <1>2, SquareOrder
    <2>2. (r + 1) * (r + 1) = r * r + 2 * r + 1
      OBVIOUS
    <2>. HIDE DEF a
    <2>. QED  BY <1>1, <2>1, <2>2
  <1>. QED  BY <1>1, <1>2

\* The pen keeps near the circle.
LEMMA NearIsOn ==
  ASSUME NEW r \in Nat \ {0}, NEW x \in Nat, NEW y \in Int,
         NearCircle(r, x, y, OffCircle(r, x, y))
  PROVE  -3 * r + 3 <= OffCircle(r, x, y) /\ OffCircle(r, x, y) <= r
  <1>. DEFINE s == OffCircle(r, x, y)
  <1>1. s \in Int /\ x * x \in Nat /\ y * y \in Nat /\ r * r \in Nat
    BY DEF OffCircle
  <1>2. s = x * x + y * y - r * r
    BY DEF OffCircle
  <1>3. NearCircle(r, x, y, s)
    OBVIOUS
  <1>. HIDE DEF s
  <1>4. x >= r => s >= 0
    <2>1. x >= r => r * r <= x * x
      BY SquareOrder
    <2>. QED  BY <1>1, <1>2, <2>1
  <1>5. -3 * r + 3 <= s /\ s <= r
    BY <1>1, <1>3, <1>4 DEF NearCircle
  <1>. QED  BY <1>5 DEF s

Signs == {1, -1} \X {1, -1}

\* The points of an eighth of the circle and their mirror images, and the
\* circle they are a quarter of.
Arc(n, f) == {<<m, f[m]>> : m \in 0 .. n} \cup {<<f[m], m>> : m \in 0 .. n}

At(c, e, g) == <<c.xc + e[1] * g[1], c.yc + e[2] * g[2]>>

CirclePoints(c, n, f) == {At(c, e, g) : e \in Signs, g \in Arc(n, f)}

\* The pen went to the side n times; f tells how high it was.
IsArc(r, n, f) ==
  /\ f \in [0 .. n -> Int] /\ f[0] = r
  /\ \A m \in 0 .. n : NearCircle(r, m, f[m], OffCircle(r, m, f[m]))
  /\ \A m \in 0 .. (n - 1) : f[m] >= m /\ f[m + 1] \in {f[m], f[m] - 1}

CirclePen(r, x, y) ==
  [x |-> x, y |-> y, error |-> CircleError(r, x, y, OffCircle(r, x, y)), down |-> TRUE]

IsCircleShape(c) == c.xc \in Nat /\ c.yc \in Nat /\ c.r \in Nat \ {0}

LEMMA ArcMembers ==
  ASSUME NEW r \in Nat \ {0}, NEW n \in Nat, NEW f, IsArc(r, n, f), NEW g \in Arc(n, f)
  PROVE  /\ g[1] \in Int /\ g[2] \in Int /\ g = <<g[1], g[2]>>
         /\ -3 * r + 3 <= g[1] * g[1] + g[2] * g[2] - r * r
         /\ g[1] * g[1] + g[2] * g[2] - r * r <= r
  <1>1. PICK m \in 0 .. n : g = <<m, f[m]>> \/ g = <<f[m], m>>
    BY DEF Arc
  <1>2. m \in Nat /\ f[m] \in Int /\ NearCircle(r, m, f[m], OffCircle(r, m, f[m]))
    BY DEF IsArc
  <1>3. -3 * r + 3 <= OffCircle(r, m, f[m]) /\ OffCircle(r, m, f[m]) <= r
    BY <1>2, NearIsOn
  <1>4. CASE g = <<m, f[m]>>
    <2>1. g[1] = m /\ g[2] = f[m]
      BY <1>4
    <2>. QED  BY <1>2, <1>3, <1>4, <2>1 DEF OffCircle
  <1>5. CASE g = <<f[m], m>>
    <2>1. g[1] = f[m] /\ g[2] = m
      BY <1>5
    <2>2. m * m \in Int /\ f[m] * f[m] \in Int /\ r * r \in Int
      BY <1>2
    <2>. QED  BY <1>2, <1>3, <1>5, <2>1, <2>2 DEF OffCircle
  <1>. QED  BY <1>1, <1>4, <1>5

\* A sign leaves the square and the distance of two numbers.
SignedSquare(a, e, x, p) == p = a + e * x => p \in Int /\ (p - a) * (p - a) = x * x
LEMMA SignOfSquare ==
  ASSUME NEW a \in Int, NEW e \in {1, -1}, NEW x \in Int, NEW p
  PROVE  SignedSquare(a, e, x, p)
  <1>. SUFFICES ASSUME p = a + e * x PROVE p \in Int /\ (p - a) * (p - a) = x * x
    BY Zenon DEF SignedSquare
  <1>1. CASE e = 1
    <2>1. p - a = x /\ p \in Int
      BY <1>1
    <2>. QED  BY <2>1
  <1>2. CASE e = -1
    <2>1. p - a = -x /\ p \in Int
      BY <1>2
    <2>2. (-x) * (-x) = x * x
      OBVIOUS
    <2>. QED  BY <2>1, <2>2
  <1>. QED  BY <1>1, <1>2

SignedGap(a, e, x, y, p, q) ==
  p = a + e * x /\ q = a + e * y => Abs(p - q) = Abs(x - y) /\ (p = q <=> x = y)
LEMMA SignOfGap ==
  ASSUME NEW a \in Int, NEW e \in {1, -1}, NEW x \in Int, NEW y \in Int, NEW p, NEW q
  PROVE  SignedGap(a, e, x, y, p, q)
  <1>. SUFFICES ASSUME p = a + e * x, q = a + e * y
                PROVE  Abs(p - q) = Abs(x - y) /\ (p = q <=> x = y)
    BY Zenon DEF SignedGap
  <1>1. CASE e = 1
    <2>1. p = a + x /\ q = a + y /\ a \in Int /\ x \in Int /\ y \in Int
      BY <1>1
    <2>. QED  BY ONLY <2>1 DEF Abs
  <1>2. CASE e = -1
    <2>1. p = a - x /\ q = a - y /\ a \in Int /\ x \in Int /\ y \in Int
      BY <1>2
    <2>. QED  BY ONLY <2>1 DEF Abs
  <1>. QED  BY <1>1, <1>2

\* All points of the circle are near it, and in the square around it.
LEMMA PointsNearCircle ==
  ASSUME NEW c, IsCircleShape(c), NEW n \in Nat, NEW f, IsArc(c.r, n, f),
         NEW p \in CirclePoints(c, n, f)
  PROVE  /\ OnCircle(c, p)
         /\ p = <<p[1], p[2]>> /\ p[1] \in (c.xc - c.r) .. (c.xc + c.r)
         /\ p[2] \in (c.yc - c.r) .. (c.yc + c.r)
  <1>1. PICK e \in Signs, g \in Arc(n, f) : p = At(c, e, g)
    BY DEF CirclePoints
  <1>2. e[1] \in {1, -1} /\ e[2] \in {1, -1}
    BY DEF Signs
  <1>3. /\ g[1] \in Int /\ g[2] \in Int
        /\ -3 * c.r + 3 <= g[1] * g[1] + g[2] * g[2] - c.r * c.r
        /\ g[1] * g[1] + g[2] * g[2] - c.r * c.r <= c.r
    BY ArcMembers DEF IsCircleShape
  <1>4. c.xc \in Nat /\ c.yc \in Nat /\ c.r \in Nat \ {0}
    BY DEF IsCircleShape
  <1>5. p[1] = c.xc + e[1] * g[1] /\ p[2] = c.yc + e[2] * g[2] /\ p = <<p[1], p[2]>>
    BY <1>1 DEF At
  <1>6. p[1] \in Int /\ (p[1] - c.xc) * (p[1] - c.xc) = g[1] * g[1]
    <2>1. SignedSquare(c.xc, e[1], g[1], p[1])
      BY <1>2, <1>3, <1>4, SignOfSquare
    <2>. QED  BY <1>5, <2>1 DEF SignedSquare
  <1>7. p[2] \in Int /\ (p[2] - c.yc) * (p[2] - c.yc) = g[2] * g[2]
    <2>1. SignedSquare(c.yc, e[2], g[2], p[2])
      BY <1>2, <1>3, <1>4, SignOfSquare
    <2>. QED  BY <1>5, <2>1 DEF SignedSquare
  <1>8. OnCircle(c, p)
    BY <1>3, <1>6, <1>7, Zenon DEF OnCircle
  <1>. DEFINE w == p[1] - c.xc
              h == p[2] - c.yc
  <1>9. /\ w \in Int /\ h \in Int /\ w * w + h * h - c.r * c.r <= c.r
        /\ h * h + w * w - c.r * c.r <= c.r /\ p[1] = c.xc + w /\ p[2] = c.yc + h
    BY <1>3, <1>4, <1>6, <1>7
  <1>. HIDE DEF w, h
  <1>10. w \in (-c.r) .. c.r /\ h \in (-c.r) .. c.r
    BY <1>4, <1>9, InSquare
  <1>11. p[1] \in (c.xc - c.r) .. (c.xc + c.r) /\ p[2] \in (c.yc - c.r) .. (c.yc + c.r)
    BY ONLY <1>4, <1>9, <1>10
  <1>. QED  BY <1>5, <1>8, <1>11

\* The whole circle around the origin.
Around(n, f) == {<<e[1] * g[1], e[2] * g[2]>> : e \in Signs, g \in Arc(n, f)}

LEMMA AroundMembers ==
  ASSUME NEW n \in Nat, NEW f \in [0 .. n -> Int], NEW m \in 0 .. n
  PROVE  /\ <<m, f[m]>> \in Around(n, f) /\ <<f[m], m>> \in Around(n, f)
         /\ <<-m, f[m]>> \in Around(n, f) /\ <<m, -f[m]>> \in Around(n, f)
         /\ <<f[m], -m>> \in Around(n, f)
  <1>1. <<m, f[m]>> \in Arc(n, f) /\ <<f[m], m>> \in Arc(n, f)
    BY DEF Arc
  <1>2. <<1, 1>> \in Signs /\ <<-1, 1>> \in Signs /\ <<1, -1>> \in Signs
    BY DEF Signs
  <1>3. \A e \in Signs, g \in Arc(n, f) : <<e[1] * g[1], e[2] * g[2]>> \in Around(n, f)
    BY DEF Around
  <1>4. m \in Int /\ f[m] \in Int
    OBVIOUS
  <1>. DEFINE v == f[m]
  <1>5. /\ 1 * m = m /\ 1 * v = v /\ (-1) * m = -m /\ (-1) * v = -v
    BY <1>4
  <1>. HIDE DEF v
  <1>6. /\ <<1 * m, 1 * v>> \in Around(n, f) /\ <<1 * v, 1 * m>> \in Around(n, f)
        /\ <<(-1) * m, 1 * v>> \in Around(n, f) /\ <<1 * m, (-1) * v>> \in Around(n, f)
        /\ <<1 * v, (-1) * m>> \in Around(n, f)
    <2>1. ASSUME NEW a \in {1, -1}, NEW b \in {1, -1}, NEW x, NEW y, <<x, y>> \in Arc(n, f)
          PROVE  <<a * x, b * y>> \in Around(n, f)
      <3>1. <<a, b>> \in Signs /\ <<a, b>>[1] = a /\ <<a, b>>[2] = b
            /\ <<x, y>>[1] = x /\ <<x, y>>[2] = y
        BY DEF Signs
      <3>. QED  BY <1>3, <2>1, <3>1
    <2>2. <<m, v>> \in Arc(n, f) /\ <<v, m>> \in Arc(n, f)
      BY <1>1 DEF v
    <2>3. 1 \in {1, -1} /\ (-1) \in {1, -1}
      OBVIOUS
    <2>. QED  BY <2>1, <2>2, <2>3, Zenon
  <1>. QED  BY <1>5, <1>6 DEF v

\* Points of the complete arc have neighbours on two sides.
LEMMA ArcNeighbours ==
  ASSUME NEW r \in Nat \ {0}, NEW n \in Nat, NEW f, IsArc(r, n, f), f[n] < n, NEW m \in 0 .. n
  PROVE  \E p, q \in Around(n, f) :
           Neighbours(<<m, f[m]>>, p) /\ Neighbours(<<m, f[m]>>, q) /\ p # q
  <1>1. /\ f \in [0 .. n -> Int] /\ f[0] = r /\ n # 0
        /\ \A k \in 0 .. (n - 1) : f[k] >= k /\ f[k + 1] \in {f[k], f[k] - 1}
    BY DEF IsArc
  <1>2. \A k \in 0 .. n : f[k] \in Int
    BY <1>1
  <1>3. \A k \in 0 .. n :
          /\ <<k, f[k]>> \in Around(n, f) /\ <<f[k], k>> \in Around(n, f)
          /\ <<-k, f[k]>> \in Around(n, f) /\ <<k, -f[k]>> \in Around(n, f)
          /\ <<f[k], -k>> \in Around(n, f)
    BY <1>1, AroundMembers
  <1>. DEFINE Close(a, b) == -1 <= a - b /\ a - b <= 1
  <1>4. ASSUME NEW a \in Int, NEW b \in Int, NEW x \in Int, NEW y \in Int,
               Close(a, x), Close(b, y), a # x \/ b # y
        PROVE  Neighbours(<<a, b>>, <<x, y>>)
    BY <1>4 DEF Neighbours, Abs
  <1>5. ASSUME NEW a \in Int, NEW b \in Int, NEW x \in Int, NEW y \in Int, a # x \/ b # y
        PROVE  <<a, b>> # <<x, y>>
    BY <1>5
  <1>6. CASE m # 0 /\ m # n
    <2>1. /\ m - 1 \in 0 .. (n - 1) /\ m \in 0 .. (n - 1) /\ m + 1 \in 0 .. n /\ m - 1 \in 0 .. n
          /\ (m - 1) + 1 = m /\ m \in Int /\ m - 1 \in Int /\ m + 1 \in Int
      BY <1>6
    <2>2. /\ f[m] \in {f[m - 1], f[m - 1] - 1} /\ f[m + 1] \in {f[m], f[m] - 1}
      BY <1>1, <2>1
    <2>3. Neighbours(<<m, f[m]>>, <<m - 1, f[m - 1]>>)
      <3>1. Close(m, m - 1) /\ Close(f[m], f[m - 1]) /\ m # m - 1
        BY <1>2, <2>1, <2>2
      <3>. QED  BY <1>2, <1>4, <2>1, <3>1
    <2>4. Neighbours(<<m, f[m]>>, <<m + 1, f[m + 1]>>)
      <3>1. Close(m, m + 1) /\ Close(f[m], f[m + 1]) /\ m # m + 1
        BY <1>2, <2>1, <2>2
      <3>. QED  BY <1>2, <1>4, <2>1, <3>1
    <2>5. <<m - 1, f[m - 1]>> # <<m + 1, f[m + 1]>>
      BY <1>2, <1>5, <2>1
    <2>6. <<m - 1, f[m - 1]>> \in Around(n, f) /\ <<m + 1, f[m + 1]>> \in Around(n, f)
      BY <1>3, <2>1, Zenon
    <2>. QED  BY <2>3, <2>4, <2>5, <2>6, Zenon
  <1>7. CASE m = 0
    <2>1. 0 \in 0 .. (n - 1) /\ 1 \in 0 .. n /\ 0 \in 0 .. n /\ 0 + 1 = 1
      BY <1>1
    <2>2. f[1] \in {f[0], f[0] - 1}
      BY <1>1, <2>1
    <2>3. Neighbours(<<0, f[0]>>, <<1, f[1]>>) /\ Neighbours(<<0, f[0]>>, <<-1, f[1]>>)
      <3>1. Close(0, 1) /\ Close(0, -1) /\ Close(f[0], f[1])
        BY <1>2, <2>1, <2>2
      <3>. QED  BY <1>2, <1>4, <2>1, <3>1
    <2>4. <<1, f[1]>> # <<-1, f[1]>>
      BY <1>2, <1>5, <2>1
    <2>. QED  BY <1>3, <1>7, <2>1, <2>3, <2>4
  <1>8. CASE m = n
    <2>1. /\ n - 1 \in 0 .. (n - 1) /\ n - 1 \in 0 .. n /\ n \in 0 .. n
          /\ (n - 1) + 1 = n /\ n \in Int /\ n - 1 \in Int
      BY <1>1
    <2>2. /\ f[n] \in {f[n - 1], f[n - 1] - 1} /\ f[n - 1] >= n - 1
      BY <1>1, <2>1
    <2>3. Neighbours(<<n, f[n]>>, <<n - 1, f[n - 1]>>)
      <3>1. Close(n, n - 1) /\ Close(f[n], f[n - 1]) /\ n # n - 1
        BY <1>2, <2>1, <2>2
      <3>. QED  BY <1>2, <1>4, <2>1, <3>1
    <2>. SUFFICES \E q \in Around(n, f) : Neighbours(<<n, f[n]>>, q) /\ <<n - 1, f[n - 1]>> # q
      BY <1>3, <1>8, <2>1, <2>3
    <2>4. CASE f[n - 1] = n - 1 /\ f[n] = n - 1
      <3>1. Close(n, f[n]) /\ Close(f[n], n) /\ n # f[n]
        BY <2>1, <2>4
      <3>2. Neighbours(<<n, f[n]>>, <<f[n], n>>)
        BY <1>2, <1>4, <2>1, <3>1
      <3>3. <<n - 1, f[n - 1]>> # <<f[n], n>>
        BY <1>2, <1>5, <2>1, <2>4
      <3>. QED  BY <1>3, <2>1, <3>2, <3>3
    <2>5. CASE f[n - 1] = n - 1 /\ f[n] = n - 2
      <3>1. n # 1
        BY <1>1, <2>5
      <3>2. /\ n - 2 \in 0 .. (n - 1) /\ n - 2 \in 0 .. n /\ (n - 2) + 1 = n - 1 /\ n - 2 \in Int
        BY <1>1, <3>1
      <3>3. f[n - 1] \in {f[n - 2], f[n - 2] - 1}
        BY <1>1, <3>2
      <3>4. CASE f[n - 2] = n - 1
        <4>1. Close(n, f[n - 2]) /\ Close(f[n], n - 2) /\ n # f[n - 2] /\ n - 2 # f[n - 1]
          BY <2>1, <2>5, <3>4
        <4>2. Neighbours(<<n, f[n]>>, <<f[n - 2], n - 2>>)
          BY <1>2, <1>4, <2>1, <3>2, <4>1
        <4>3. <<n - 1, f[n - 1]>> # <<f[n - 2], n - 2>>
          BY <1>2, <1>5, <2>1, <3>2, <4>1
        <4>. QED  BY <1>3, <3>2, <4>2, <4>3
      <3>5. CASE f[n - 2] = n /\ n = 2
        <4>1. 1 \in 0 .. n /\ f[1] = 1 /\ f[2] = 0
          BY <2>1, <2>5, <3>5
        <4>2. Close(2, 1) /\ Close(0, -1) /\ 2 # 1
          OBVIOUS
        <4>3. Neighbours(<<2, 0>>, <<1, -1>>)
          BY <1>4, <4>2
        <4>4. <<1, -f[1]>> \in Around(n, f)
          BY <1>3, <4>1
        <4>5. <<1, 1>> # <<1, -1>>
          OBVIOUS
        <4>6. <<n, f[n]>> = <<2, 0>> /\ <<n - 1, f[n - 1]>> = <<1, 1>> /\ <<1, -f[1]>> = <<1, -1>>
          BY <2>5, <3>5, <4>1
        <4>. QED  BY <4>3, <4>4, <4>5, <4>6
      <3>6. CASE f[n - 2] = n /\ n # 2
        <4>1. /\ n - 3 \in 0 .. (n - 1) /\ n - 3 \in 0 .. n /\ (n - 3) + 1 = n - 2 /\ n - 3 \in Int
          BY <3>1, <3>6, <1>1
        <4>2. f[n - 2] \in {f[n - 3], f[n - 3] - 1}
          BY <1>1, <4>1
        <4>3. Close(n, f[n - 3]) /\ Close(f[n], n - 3) /\ n - 3 # f[n] /\ n - 3 # f[n - 1]
          BY <1>2, <2>1, <2>5, <3>6, <4>1, <4>2
        <4>4. Neighbours(<<n, f[n]>>, <<f[n - 3], n - 3>>)
          BY <1>2, <1>4, <2>1, <4>1, <4>3
        <4>5. <<n - 1, f[n - 1]>> # <<f[n - 3], n - 3>>
          BY <1>2, <1>5, <2>1, <4>1, <4>3
        <4>. QED  BY <1>3, <4>1, <4>4, <4>5
      <3>. QED  BY <1>2, <2>5, <3>2, <3>3, <3>4, <3>5, <3>6
    <2>6. CASE f[n - 1] = n /\ f[n] = n - 1
      <3>1. CASE n = 1
        <4>1. f[0] = 1 /\ f[1] = 0 /\ 0 \in 0 .. n
          BY <2>6, <3>1, <2>1
        <4>2. Close(1, 0) /\ Close(0, -1) /\ 1 # 0
          OBVIOUS
        <4>3. Neighbours(<<1, 0>>, <<0, -1>>)
          BY <1>4, <4>2
        <4>4. <<0, -f[0]>> \in Around(n, f)
          BY <1>3, <4>1
        <4>5. <<0, 1>> # <<0, -1>>
          OBVIOUS
        <4>6. <<n, f[n]>> = <<1, 0>> /\ <<n - 1, f[n - 1]>> = <<0, 1>> /\ <<0, -f[0]>> = <<0, -1>>
          BY <3>1, <4>1
        <4>. QED  BY <4>3, <4>4, <4>5, <4>6
      <3>2. CASE n # 1
        <4>1. /\ n - 2 \in 0 .. (n - 1) /\ n - 2 \in 0 .. n /\ (n - 2) + 1 = n - 1 /\ n - 2 \in Int
          BY <1>1, <3>2
        <4>2. f[n - 1] \in {f[n - 2], f[n - 2] - 1}
          BY <1>1, <4>1
        <4>3. Close(n, f[n - 2]) /\ Close(f[n], n - 2) /\ n - 2 # f[n] /\ n - 2 # f[n - 1]
          BY <1>2, <2>1, <2>6, <4>1, <4>2
        <4>4. Neighbours(<<n, f[n]>>, <<f[n - 2], n - 2>>)
          BY <1>2, <1>4, <2>1, <4>1, <4>3
        <4>5. <<n - 1, f[n - 1]>> # <<f[n - 2], n - 2>>
          BY <1>2, <1>5, <2>1, <4>1, <4>3
        <4>. QED  BY <1>3, <4>1, <4>4, <4>5
      <3>. QED  BY <3>1, <3>2
    <2>7. f[n - 1] \in Int /\ f[n] \in Int
      BY <1>2, <2>1
    <2>. QED  BY <2>1, <2>2, <2>4, <2>5, <2>6, <2>7
  <1>. QED  BY <1>6, <1>7, <1>8

\* Points of the mirrored arc have them as well.
LEMMA MirroredNeighbours ==
  ASSUME NEW r \in Nat \ {0}, NEW n \in Nat, NEW f, IsArc(r, n, f), f[n] < n, NEW g \in Arc(n, f)
  PROVE  \E p, q \in Around(n, f) : Neighbours(g, p) /\ Neighbours(g, q) /\ p # q
  <1>1. PICK m \in 0 .. n : g = <<m, f[m]>> \/ g = <<f[m], m>>
    BY DEF Arc
  <1>2. PICK p, q \in Around(n, f) :
               Neighbours(<<m, f[m]>>, p) /\ Neighbours(<<m, f[m]>>, q) /\ p # q
    BY ArcNeighbours
  <1>3. CASE g = <<m, f[m]>>
    BY <1>2, <1>3
  <1>4. CASE g = <<f[m], m>>
    <2>1. ASSUME NEW t \in Around(n, f), Neighbours(<<m, f[m]>>, t)
          PROVE  /\ <<t[2], t[1]>> \in Around(n, f) /\ t = <<t[1], t[2]>>
                 /\ Neighbours(<<f[m], m>>, <<t[2], t[1]>>)
      <3>1. PICK e \in Signs, h \in Arc(n, f) : t = <<e[1] * h[1], e[2] * h[2]>>
        BY DEF Around
      <3>. DEFINE d == <<e[2], e[1]>>
                  k == <<h[2], h[1]>>
      <3>2. d \in Signs /\ d[1] = e[2] /\ d[2] = e[1]
        BY DEF Signs
      <3>3. k \in Arc(n, f) /\ k[1] = h[2] /\ k[2] = h[1]
        BY DEF Arc
      <3>4. t[1] = e[1] * h[1] /\ t[2] = e[2] * h[2] /\ t = <<t[1], t[2]>>
        BY <3>1
      <3>. HIDE DEF d, k
      <3>5. <<d[1] * k[1], d[2] * k[2]>> \in Around(n, f)
        BY <3>2, <3>3 DEF Around
      <3>6. <<t[2], t[1]>> \in Around(n, f)
        BY <3>2, <3>3, <3>4, <3>5, Zenon
      <3>7. Neighbours(<<f[m], m>>, <<t[2], t[1]>>)
        <4>1. /\ Abs(m - t[1]) <= 1 /\ Abs(f[m] - t[2]) <= 1 /\ <<m, f[m]>> # t
          BY <2>1 DEF Neighbours
        <4>2. <<f[m], m>> # <<t[2], t[1]>>
          BY <3>4, <4>1
        <4>. QED  BY <4>1, <4>2 DEF Neighbours
      <3>. QED  BY <3>4, <3>6, <3>7
    <2>2. <<p[2], p[1]>> # <<q[2], q[1]>>
      BY <1>2, <2>1
    <2>. QED  BY <1>2, <1>4, <2>1, <2>2
  <1>. QED  BY <1>1, <1>3, <1>4

\* A complete circle is closed.
LEMMA CircleClosed ==
  ASSUME NEW c, IsCircleShape(c), NEW n \in Nat, NEW f, IsArc(c.r, n, f), f[n] < n,
         NEW p \in CirclePoints(c, n, f)
  PROVE  \E q, r \in CirclePoints(c, n, f) : Neighbours(p, q) /\ Neighbours(p, r) /\ q # r
  <1>1. PICK e \in Signs, g \in Arc(n, f) : p = At(c, e, g)
    BY DEF CirclePoints
  <1>2. c.xc \in Int /\ c.yc \in Int /\ c.r \in Nat \ {0} /\ e[1] \in {1, -1} /\ e[2] \in {1, -1}
    BY DEF IsCircleShape, Signs
  <1>3. g[1] \in Int /\ g[2] \in Int /\ g = <<g[1], g[2]>>
    BY <1>2, ArcMembers
  <1>4. ASSUME NEW t \in Around(n, f)
        PROVE  /\ At(c, e, t) \in CirclePoints(c, n, f)
               /\ t[1] \in Int /\ t[2] \in Int /\ t = <<t[1], t[2]>>
    <2>1. PICK d \in Signs, h \in Arc(n, f) : t = <<d[1] * h[1], d[2] * h[2]>>
      BY DEF Around
    <2>2. h[1] \in Int /\ h[2] \in Int /\ d[1] \in {1, -1} /\ d[2] \in {1, -1}
      BY <1>2, ArcMembers DEF Signs
    <2>3. t[1] = d[1] * h[1] /\ t[2] = d[2] * h[2] /\ t = <<t[1], t[2]>>
      BY <2>1
    <2>. DEFINE de == <<e[1] * d[1], e[2] * d[2]>>
    <2>4. de \in Signs /\ de[1] = e[1] * d[1] /\ de[2] = e[2] * d[2]
      <3>1. e[1] * d[1] \in {1, -1} /\ e[2] * d[2] \in {1, -1}
        BY <1>2, <2>2
      <3>. QED  BY <3>1 DEF Signs
    <2>. HIDE DEF de
    <2>5. e[1] * t[1] = de[1] * h[1] /\ e[2] * t[2] = de[2] * h[2]
      BY <1>2, <2>2, <2>3, <2>4
    <2>6. At(c, e, t) = At(c, de, h)
      BY <2>5, Zenon DEF At
    <2>7. t[1] \in Int /\ t[2] \in Int
      BY <2>2, <2>3
    <2>. QED  BY <2>3, <2>4, <2>6, <2>7 DEF CirclePoints
  <1>5. ASSUME NEW a \in Int, NEW b \in Int, NEW x \in Int, NEW y \in Int
        PROVE  /\ Abs(At(c, e, <<a, b>>)[1] - At(c, e, <<x, y>>)[1]) = Abs(a - x)
               /\ Abs(At(c, e, <<a, b>>)[2] - At(c, e, <<x, y>>)[2]) = Abs(b - y)
               /\ At(c, e, <<a, b>>) = At(c, e, <<x, y>>) => a = x /\ b = y
    <2>1. /\ At(c, e, <<a, b>>)[1] = c.xc + e[1] * a /\ At(c, e, <<a, b>>)[2] = c.yc + e[2] * b
          /\ At(c, e, <<x, y>>)[1] = c.xc + e[1] * x /\ At(c, e, <<x, y>>)[2] = c.yc + e[2] * y
      BY DEF At
    <2>2. /\ SignedGap(c.xc, e[1], a, x, At(c, e, <<a, b>>)[1], At(c, e, <<x, y>>)[1])
          /\ SignedGap(c.yc, e[2], b, y, At(c, e, <<a, b>>)[2], At(c, e, <<x, y>>)[2])
      BY <1>2, SignOfGap
    <2>3. /\ Abs(At(c, e, <<a, b>>)[1] - At(c, e, <<x, y>>)[1]) = Abs(a - x)
          /\ Abs(At(c, e, <<a, b>>)[2] - At(c, e, <<x, y>>)[2]) = Abs(b - y)
          /\ At(c, e, <<a, b>>)[1] = At(c, e, <<x, y>>)[1] <=> a = x
          /\ At(c, e, <<a, b>>)[2] = At(c, e, <<x, y>>)[2] <=> b = y
      BY <2>1, <2>2, Zenon DEF SignedGap
    <2>. QED  BY <2>3, Zenon
  <1>6. PICK h, k \in Around(n, f) : Neighbours(g, h) /\ Neighbours(g, k) /\ h # k
    BY <1>2, MirroredNeighbours
  <1>7. ASSUME NEW t \in Around(n, f), Neighbours(g, t) PROVE Neighbours(p, At(c, e, t))
    <2>1. /\ Abs(At(c, e, g)[1] - At(c, e, t)[1]) = Abs(g[1] - t[1])
          /\ Abs(At(c, e, g)[2] - At(c, e, t)[2]) = Abs(g[2] - t[2])
          /\ At(c, e, g) = At(c, e, t) => g = t
      BY <1>3, <1>4, <1>5
    <2>. QED  BY <1>1, <1>7, <2>1, Zenon DEF Neighbours
  <1>8. At(c, e, h) # At(c, e, k)
    BY <1>4, <1>5, <1>6
  <1>. QED  BY <1>4, <1>6, <1>7, <1>8

\* A complete circle crosses every column and row.
LEMMA ArcCrosses ==
  ASSUME NEW r \in Nat \ {0}, NEW n \in Nat, NEW f, IsArc(r, n, f), f[n] < n, NEW k \in 0 .. r
  PROVE  \E g \in Arc(n, f) : g[1] = k
  <1>1. /\ f \in [0 .. n -> Int] /\ f[0] = r
        /\ \A m \in 0 .. (n - 1) : f[m] >= m /\ f[m + 1] \in {f[m], f[m] - 1}
    BY DEF IsArc
  <1>2. CASE k <= n
    <2>1. <<k, f[k]>> \in Arc(n, f) /\ <<k, f[k]>>[1] = k
      BY <1>2 DEF Arc
    <2>. QED  BY <2>1
  <1>3. CASE k > n
    <2>. DEFINE low == {m \in 0 .. n : f[m] <= k}
    <2>1. low \in SUBSET Nat /\ n \in low
      BY <1>1, <1>3
    <2>2. PICK m \in low : \A l \in low : m <= l
      BY <2>1, LeastElement
    <2>3. CASE m = 0
      <3>1. <<f[0], 0>> \in Arc(n, f) /\ <<f[0], 0>>[1] = k
        BY <1>1, <2>2, <2>3 DEF Arc
      <3>. QED  BY <3>1
    <2>4. CASE m # 0
      <3>1. m - 1 \in 0 .. (n - 1) /\ m - 1 \notin low /\ m \in 0 .. n /\ m - 1 + 1 = m
        BY <2>2, <2>4
      <3>2. f[m - 1] > k /\ f[m - 1] \in Int
        BY <1>1, <3>1
      <3>3. f[m] \in {f[m - 1], f[m - 1] - 1}
        BY <1>1, <3>1
      <3>4. f[m] = k
        BY <2>2, <3>2, <3>3
      <3>5. <<f[m], m>> \in Arc(n, f) /\ <<f[m], m>>[1] = k
        BY <3>1, <3>4 DEF Arc
      <3>. QED  BY <3>5
    <2>. QED  BY <2>3, <2>4
  <1>. QED  BY <1>1, <1>2, <1>3

LEMMA CircleCrosses ==
  ASSUME NEW c, IsCircleShape(c), NEW n \in Nat, NEW f, IsArc(c.r, n, f), f[n] < n,
         NEW k \in (-c.r) .. c.r
  PROVE  /\ \E p \in CirclePoints(c, n, f) : p[1] = c.xc + k
         /\ \E p \in CirclePoints(c, n, f) : p[2] = c.yc + k
  <1>. DEFINE a == IF k < 0 THEN -1 ELSE 1
              m == IF k < 0 THEN -k ELSE k
  <1>1. c.r \in Nat \ {0} /\ c.xc \in Int /\ c.yc \in Int
    BY DEF IsCircleShape
  <1>2. a \in {1, -1} /\ m \in 0 .. c.r /\ a * m = k
    BY <1>1
  <1>. HIDE DEF a, m
  <1>3. PICK g \in Arc(n, f) : g[1] = m
    BY <1>1, <1>2, ArcCrosses
  <1>4. g[1] \in Int /\ g[2] \in Int
    BY <1>1, ArcMembers
  <1>. DEFINE h == <<g[2], g[1]>>
              d == <<a, a>>
  <1>5. h \in Arc(n, f) /\ h[1] = g[2] /\ h[2] = g[1]
    BY DEF Arc
  <1>6. d \in Signs /\ d[1] = a /\ d[2] = a
    BY <1>2 DEF Signs
  <1>. HIDE DEF h, d
  <1>7. At(c, d, g) \in CirclePoints(c, n, f) /\ At(c, d, h) \in CirclePoints(c, n, f)
    BY <1>5, <1>6 DEF CirclePoints
  <1>8. At(c, d, g)[1] = c.xc + k /\ At(c, d, h)[2] = c.yc + k
    BY <1>2, <1>3, <1>5, <1>6 DEF At
  <1>. QED  BY <1>7, <1>8

\* While a circle is drawn, the pen is at the end of an arc.
CircleInv(c, q, drawn) ==
  /\ IsCircle(c, drawn, ~q.down)
  /\ \A p \in drawn : /\ p = <<p[1], p[2]>> /\ p[1] \in (c.xc - c.r) .. (c.xc + c.r)
                      /\ p[2] \in (c.yc - c.r) .. (c.yc + c.r)
  /\ q.down => \E n \in Nat : \E f : /\ IsArc(c.r, n, f) /\ q = CirclePen(c.r, n, f[n])
                                     /\ drawn = CirclePoints(c, n, f)

\* What follows from the arc.
LEMMA ArcKeepsInv ==
  ASSUME NEW c, IsCircleShape(c), NEW n \in Nat, NEW f, IsArc(c.r, n, f)
  PROVE  CircleInv(c, CirclePen(c.r, n, f[n]), CirclePoints(c, n, f))
  <1>. DEFINE q == CirclePen(c.r, n, f[n])
              drawn == CirclePoints(c, n, f)
  <1>1. \A p \in drawn : OnCircle(c, p)
    BY PointsNearCircle
  <1>2. q.down
    BY DEF CirclePen
  <1>3. IsCircle(c, drawn, ~q.down)
    BY <1>1, <1>2, Zenon DEF IsCircle
  <1>4. \A p \in drawn : /\ p = <<p[1], p[2]>> /\ p[1] \in (c.xc - c.r) .. (c.xc + c.r)
                         /\ p[2] \in (c.yc - c.r) .. (c.yc + c.r)
    BY PointsNearCircle
  <1>. QED  BY <1>3, <1>4, Zenon DEF CircleInv

\* The points of some part of the circle and all its mirror images.
Mirrored(c, part) == {At(c, e, p) : e \in Signs, p \in part}

LEMMA EightMirrored ==
  ASSUME NEW c, NEW x, NEW y
  PROVE  EightPoints(c, x, y) = Mirrored(c, {<<x, y>>, <<y, x>>})
BY DEF EightPoints, Mirrored, At, Signs

LEMMA CircleMirrored ==
  ASSUME NEW c, NEW n, NEW f
  PROVE  CirclePoints(c, n, f) = Mirrored(c, Arc(n, f))
BY DEF CirclePoints, Mirrored

LEMMA MirroredUnion ==
  ASSUME NEW c, NEW S, NEW T
  PROVE  Mirrored(c, S \cup T) = Mirrored(c, S) \cup Mirrored(c, T)
BY DEF Mirrored

\* The eight points of a step.
LEMMA LongerArc ==
  ASSUME NEW c, NEW n \in Nat, NEW f, NEW g,
         \A m \in 0 .. n : g[m] = f[m]
  PROVE  CirclePoints(c, n + 1, g) = CirclePoints(c, n, f) \cup EightPoints(c, n + 1, g[n + 1])
  <1>. DEFINE last == {<<n + 1, g[n + 1]>>, <<g[n + 1], n + 1>>}
  <1>1. Arc(n + 1, g) = Arc(n, f) \cup last
    <2>1. 0 .. (n + 1) = (0 .. n) \cup {n + 1}
      OBVIOUS
    <2>. HIDE DEF last
    <2>2. Arc(n + 1, g) = Arc(n, g) \cup {<<n + 1, g[n + 1]>>} \cup {<<g[n + 1], n + 1>>}
      BY <2>1, Zenon DEF Arc
    <2>3. Arc(n, g) = Arc(n, f)
      BY Zenon DEF Arc
    <2>. QED  BY <2>2, <2>3 DEF last
  <1>2. EightPoints(c, n + 1, g[n + 1]) = Mirrored(c, last)
    BY EightMirrored, Zenon
  <1>. HIDE DEF last
  <1>3. CirclePoints(c, n + 1, g) = Mirrored(c, Arc(n, f) \cup last)
    BY <1>1, CircleMirrored
  <1>4. Mirrored(c, Arc(n, f) \cup last) = Mirrored(c, Arc(n, f)) \cup Mirrored(c, last)
    BY MirroredUnion
  <1>5. CirclePoints(c, n, f) = Mirrored(c, Arc(n, f))
    BY CircleMirrored
  <1>. QED  BY <1>2, <1>3, <1>4, <1>5, Zenon

LEMMA FirstEight ==
  ASSUME NEW c, IsCircleShape(c)
  PROVE  LET f == [m \in 0 .. 0 |-> c.r]
         IN /\ IsArc(c.r, 0, f) /\ f[0] = c.r
            /\ CirclePoints(c, 0, f) = EightPoints(c, 0, c.r)
            /\ CirclePen(c.r, 0, f[0]) = [x |-> 0, y |-> c.r, error |-> 3 - 2 * c.r, down |-> TRUE]
  <1>. DEFINE f == [m \in 0 .. 0 |-> c.r]
  <1>1. c.r \in Nat \ {0}
    BY DEF IsCircleShape
  <1>2. f[0] = c.r /\ f \in [0 .. 0 -> Int] /\ 0 .. 0 = {0}
    BY <1>1
  <1>3. OffCircle(c.r, 0, c.r) = 0
    <2>1. c.r * c.r \in Int
      BY <1>1
    <2>. QED  BY <2>1 DEF OffCircle
  <1>4. NearCircle(c.r, 0, c.r, 0)
    BY <1>1 DEF NearCircle
  <1>. HIDE DEF f
  <1>5. IsArc(c.r, 0, f)
    <2>1. \A m \in 0 .. 0 : NearCircle(c.r, m, f[m], OffCircle(c.r, m, f[m]))
      BY <1>2, <1>3, <1>4
    <2>2. 0 .. (0 - 1) = {}
      OBVIOUS
    <2>. QED  BY <1>2, <2>1, <2>2 DEF IsArc
  <1>6. Arc(0, f) = {<<0, c.r>>, <<c.r, 0>>}
    BY <1>2 DEF Arc
  <1>7. CirclePoints(c, 0, f) = EightPoints(c, 0, c.r)
    BY <1>6, CircleMirrored, EightMirrored, Zenon
  <1>8. CircleError(c.r, 0, c.r, 0) = 3 - 2 * c.r
    BY <1>1 DEF CircleError
  <1>9. CirclePen(c.r, 0, f[0]) = [x |-> 0, y |-> c.r, error |-> 3 - 2 * c.r, down |-> TRUE]
    BY <1>2, <1>3, <1>8, Zenon DEF CirclePen
  <1>. QED  BY <1>2, <1>5, <1>7, <1>9 DEF f

\* A step in terms of the arc.
LEMMA CircleStepAsPen ==
  ASSUME NEW r \in Nat \ {0}, NEW x \in Nat, NEW y \in Int
  PROVE  CircleStep(CirclePen(r, x, y)) =
           IF CircleError(r, x, y, OffCircle(r, x, y)) > 0 THEN CirclePen(r, x + 1, y - 1)
           ELSE CirclePen(r, x + 1, y)
  <1>. DEFINE s == OffCircle(r, x, y)
              d == CircleError(r, x, y, s)
              q == CirclePen(r, x, y)
  <1>1. x * x \in Int /\ y * y \in Int /\ r * r \in Int
    OBVIOUS
  <1>2. s \in Int /\ d \in Int
    BY <1>1 DEF OffCircle, CircleError
  <1>3. OffCircle(r, x + 1, y) = s + 2 * x + 1
    <2>1. (x + 1) * (x + 1) = x * x + 2 * x + 1
      OBVIOUS
    <2>. QED  BY <1>1, <2>1 DEF OffCircle
  <1>4. OffCircle(r, x + 1, y - 1) = s + 2 * x - 2 * y + 2
    <2>1. (x + 1) * (x + 1) = x * x + 2 * x + 1 /\ (y - 1) * (y - 1) = y * y - 2 * y + 1
      OBVIOUS
    <2>. QED  BY <1>1, <2>1 DEF OffCircle
  <1>. HIDE DEF s
  <1>5. d + 4 * (x + 1) + 6 = CircleError(r, x + 1, y, s + 2 * x + 1)
    BY <1>2 DEF CircleError
  <1>6. d + 4 * (x + 1 - (y - 1)) + 10 = CircleError(r, x + 1, y - 1, s + 2 * x - 2 * y + 2)
    BY <1>2 DEF CircleError
  <1>7. q = [x |-> x, y |-> y, error |-> d, down |-> TRUE]
    BY Zenon DEF CirclePen, s
  <1>. HIDE DEF q, d
  <1>8. q.x = x /\ q.y = y /\ q.error = d
    BY <1>7
  <1>9. CASE d > 0
    <2>. DEFINE e == d + 4 * (x + 1 - (y - 1)) + 10
                u == x + 1
                v == y - 1
    <2>1. CircleStep(q) = [q EXCEPT !.x = u, !.y = v, !.error = e]
      BY <1>8, <1>9, Zenon DEF CircleStep
    <2>. HIDE DEF e, u, v
    <2>2. CircleStep(q) = [x |-> u, y |-> v, error |-> e, down |-> TRUE]
      BY <1>7, <2>1
    <2>3. CircleStep(q) = CirclePen(r, u, v)
      BY <1>4, <1>6, <2>2, Zenon DEF CirclePen, e, u, v
    <2>. QED  BY <1>9, <2>3, Zenon DEF q, d, s, u, v
  <1>10. CASE ~(d > 0)
    <2>. DEFINE e == d + 4 * (x + 1) + 6
                u == x + 1
    <2>1. CircleStep(q) = [q EXCEPT !.x = u, !.error = e]
      BY <1>8, <1>10, Zenon DEF CircleStep
    <2>. HIDE DEF e, u
    <2>2. CircleStep(q) = [x |-> u, y |-> y, error |-> e, down |-> TRUE]
      BY <1>7, <2>1
    <2>3. CircleStep(q) = CirclePen(r, u, y)
      BY <1>3, <1>5, <2>2, Zenon DEF CirclePen, e, u
    <2>. QED  BY <1>10, <2>3, Zenon DEF q, d, s, u
  <1>. QED  BY <1>9, <1>10, Zenon

LEMMA StepKeepsCircle ==
  ASSUME NEW c, IsCircleShape(c), NEW q, NEW drawn, CircleInv(c, q, drawn), q.down, q.y >= q.x
  PROVE  LET p == CircleStep(q) IN CircleInv(c, p, drawn \cup EightPoints(c, p.x, p.y))
  <1>0. PICK n \in Nat : \E f : /\ IsArc(c.r, n, f) /\ q = CirclePen(c.r, n, f[n])
                                 /\ drawn = CirclePoints(c, n, f)
    BY Zenon DEF CircleInv
  <1>1. PICK f : /\ IsArc(c.r, n, f) /\ q = CirclePen(c.r, n, f[n])
                 /\ drawn = CirclePoints(c, n, f)
    BY <1>0, Zenon
  <1>. DEFINE r == c.r
              y == f[n]
              s == OffCircle(r, n, y)
              z == IF CircleError(r, n, y, s) > 0 THEN y - 1 ELSE y
              g == [m \in 0 .. (n + 1) |-> IF m = n + 1 THEN z ELSE f[m]]
  <1>2. /\ r \in Nat \ {0} /\ f \in [0 .. n -> Int] /\ f[0] = r /\ y \in Int
        /\ \A m \in 0 .. n : NearCircle(r, m, f[m], OffCircle(r, m, f[m]))
        /\ \A m \in 0 .. (n - 1) : f[m] >= m /\ f[m + 1] \in {f[m], f[m] - 1}
    BY <1>1 DEF IsArc, IsCircleShape
  <1>3. y >= n
    BY <1>1 DEF CirclePen
  <1>4. CircleStep(q) = CirclePen(r, n + 1, z)
    BY <1>1, <1>2, CircleStepAsPen
  <1>5. z \in {y, y - 1} /\ z \in Int
    BY <1>2
  <1>6. NearCircle(r, n + 1, z, OffCircle(r, n + 1, z))
    <2>1. s \in Int /\ OffCircle(r, n + 1, y) = s + 2 * n + 1
          /\ OffCircle(r, n + 1, y - 1) = s + 2 * n - 2 * y + 2
      <3>. HIDE DEF r, y
      <3>1. n * n \in Int /\ y * y \in Int /\ r * r \in Int
        BY <1>2
      <3>2. (n + 1) * (n + 1) = n * n + 2 * n + 1 /\ (y - 1) * (y - 1) = y * y - 2 * y + 1
        BY <1>2
      <3>. QED  BY <1>2, <3>1, <3>2 DEF OffCircle
    <2>2. NearCircle(r, n, y, s)
      BY <1>2
    <2>. HIDE DEF s, r, y
    <2>3. IF CircleError(r, n, y, s) > 0
            THEN NearCircle(r, n + 1, y - 1, s + 2 * n - 2 * y + 2)
          ELSE NearCircle(r, n + 1, y, s + 2 * n + 1)
      BY <1>2, <1>3, <2>1, <2>2, NearStep
    <2>. QED  BY <2>1, <2>3
  <1>. HIDE DEF z
  <1>7. g[n + 1] = z /\ \A m \in 0 .. n : g[m] = f[m]
    OBVIOUS
  <1>8. g \in [0 .. (n + 1) -> Int]
    BY <1>2, <1>5
  <1>. HIDE DEF g
  <1>9. IsArc(r, n + 1, g)
    <2>1. g[0] = r
      BY <1>2, <1>7
    <2>2. ASSUME NEW m \in 0 .. (n + 1) PROVE NearCircle(r, m, g[m], OffCircle(r, m, g[m]))
      <3>1. CASE m = n + 1
        BY <1>6, <1>7, <3>1
      <3>2. CASE m \in 0 .. n
        BY <1>2, <1>7, <3>2
      <3>. QED  BY <3>1, <3>2
    <2>3. ASSUME NEW m \in 0 .. n PROVE g[m] >= m /\ g[m + 1] \in {g[m], g[m] - 1}
      <3>1. CASE m = n
        BY <1>3, <1>5, <1>7, <3>1
      <3>2. CASE m # n
        <4>1. m \in 0 .. (n - 1) /\ m + 1 \in 0 .. n
          BY <3>2
        <4>. QED  BY <1>2, <1>7, <4>1
      <3>. QED  BY <3>1, <3>2
    <2>4. (n + 1) - 1 = n
      OBVIOUS
    <2>. QED  BY <1>8, <2>1, <2>2, <2>3, <2>4, Zenon DEF IsArc
  <1>10. CirclePoints(c, n + 1, g) = drawn \cup EightPoints(c, n + 1, z)
    <2>1. CirclePoints(c, n + 1, g) = CirclePoints(c, n, f) \cup EightPoints(c, n + 1, g[n + 1])
      <3>1. \A m \in 0 .. n : g[m] = f[m]
        BY <1>7
      <3>. QED  BY ONLY n \in Nat, <3>1, LongerArc
    <2>. QED  BY <1>1, <1>7, <2>1, Zenon
  <1>11. CircleInv(c, CirclePen(r, n + 1, z), CirclePoints(c, n + 1, g))
    <2>1. n + 1 \in Nat
      OBVIOUS
    <2>. QED  BY <1>7, <1>9, <2>1, ArcKeepsInv
  <1>12. CirclePen(r, n + 1, z).x = n + 1 /\ CirclePen(r, n + 1, z).y = z
    BY DEF CirclePen
  <1>. QED  BY <1>4, <1>10, <1>11, <1>12, Zenon

LEMMA LastEight ==
  ASSUME NEW c, IsCircleShape(c), NEW q, NEW drawn, CircleInv(c, q, drawn), q.down, ~(q.y >= q.x)
  PROVE  IsCircle(c, drawn, TRUE)
  <1>0. PICK n \in Nat : \E f : /\ IsArc(c.r, n, f) /\ q = CirclePen(c.r, n, f[n])
                                 /\ drawn = CirclePoints(c, n, f)
    BY Zenon DEF CircleInv
  <1>1. PICK f : /\ IsArc(c.r, n, f) /\ q = CirclePen(c.r, n, f[n])
                 /\ drawn = CirclePoints(c, n, f)
    BY <1>0, Zenon
  <1>2. f[n] < n
    <2>1. f[n] \in Int
      BY <1>1 DEF IsArc
    <2>. QED  BY <1>1, <2>1 DEF CirclePen
  <1>3. \A p \in drawn : OnCircle(c, p)
    BY <1>1, PointsNearCircle
  <1>4. \A p \in drawn : \E u, v \in drawn : Neighbours(p, u) /\ Neighbours(p, v) /\ u # v
    BY <1>1, <1>2, CircleClosed
  <1>5. \A k \in (-c.r) .. c.r :
          (\E p \in drawn : p[1] = c.xc + k) /\ (\E p \in drawn : p[2] = c.yc + k)
    BY <1>1, <1>2, CircleCrosses
  <1>. QED  BY <1>3, <1>4, <1>5, Zenon DEF IsCircle
----------------------------------------------------------------------------
(* The framebuffer's steps.                                                *)

\* What is drawn, as points, while something is drawn.
Drawn(drawn) ==
  /\ drawn \in SUBSET PointsOf(gfx) /\ pixels = Indices(gfx, drawn)
  /\ shape.kind = "line" => LineInv(shape, pen, drawn)
  /\ shape.kind = "circle" => CircleInv(shape, pen, drawn)

DrawInv ==
  /\ gfx \in Screens \cup {NoScreen}
  /\ phase = "draw" => gfx \in Screens
  /\ phase # "draw" => shape = NoShape
  /\ shape = NoShape => pen = PenUp /\ pixels = {}
  /\ shape # NoShape => /\ FitsScreen(shape, gfx) /\ pen.down \in BOOLEAN
                        /\ \E drawn : Drawn(drawn)

\* Only the first two phases change what is drawn.
LEMMA DrawSteps ==
  ASSUME Next
  PROVE  \/ FramebufferInit \/ Draw
         \/ /\ UNCHANGED drawingVars
            /\ phase' = phase \/ (phase # "draw" /\ phase' # "draw")
  <1>. USE DEF Phase, Enter, LogAndEnter, SameLibraries
  <1>1. CASE FramebufferInit \/ Draw  BY <1>1
  <1>2. CASE SerialInitPhase  BY <1>2, Zenon DEF SerialInitPhase
  <1>3. CASE SendString \/ Uart \/ Interrupt  BY <1>3 DEF SendString, Uart, Interrupt
  <1>4. CASE Welcome  BY <1>4, Zenon DEF Welcome
  <1>5. CASE Format  BY <1>5 DEF Format
  <1>6. CASE PmmInit \/ VmmInit \/ SlabInit  BY <1>6, Zenon DEF PmmInit, VmmInit, SlabInit
  <1>7. CASE GdtPhase \/ IdtInit  BY <1>7, Zenon DEF GdtPhase, IdtInit
  <1>8. CASE GetVendor  BY <1>8, Zenon DEF GetVendor
  <1>9. CASE AcpiPhase  BY <1>9, Zenon DEF AcpiPhase
  <1>10. CASE ApicInit  BY <1>10, Zenon DEF ApicInit
  <1>. QED
    BY <1>1, <1>2, <1>3, <1>4, <1>5, <1>6, <1>7, <1>8, <1>9, <1>10 DEF Next, Run, kmain

\* A shape's coordinates.
LEMMA ShapeKinds ==
  ASSUME NEW screen \in Screens, NEW s, FitsScreen(s, screen)
  PROVE  /\ s # NoShape /\ s.kind \in {"line", "circle"}
         /\ s.kind = "line" => IsLineShape(s)
         /\ s.kind = "circle" => IsCircleShape(s)
  <1>1. screen.fb_width \in Nat \ {0} /\ screen.fb_height \in Nat \ {0}
    BY DrawingAssumption
  <1>. QED  BY <1>1 DEF FitsScreen, NoShape, IsLineShape, IsCircleShape

\* The pixels of more points.
LEMMA MorePixels ==
  ASSUME NEW drawn, NEW points, pixels = Indices(gfx, drawn), framebuffer_draw_pixel(points)
  PROVE  pixels' = Indices(gfx, drawn \cup points)
BY DEF Indices, framebuffer_draw_pixel, fb_index

\* The background covers all there is.
LEMMA BackgroundClears ==
  ASSUME NEW drawn \in SUBSET PointsOf(gfx), pixels = Indices(gfx, drawn), gfx' = gfx,
         framebuffer_set_background_color
  PROVE  pixels' = {}
  <1>. DEFINE all == {y * gfx'.fb_pitch + x : x \in 0 .. gfx'.fb_width - 1, y \in 0 .. gfx'.fb_height - 1}
  <1>1. ASSUME NEW u \in pixels PROVE u \in all
    <2>1. PICK p \in drawn : u = p[2] * gfx.fb_pitch + p[1]
      BY DEF Indices
    <2>2. p[1] \in 0 .. gfx.fb_width - 1 /\ p[2] \in 0 .. gfx.fb_height - 1
      BY DEF PointsOf
    <2>. QED  BY <2>1, <2>2
  <1>. QED  BY <1>1 DEF framebuffer_set_background_color

\* The points of a line or circle lie on the screen where it does.
LEMMA LineOnScreen ==
  ASSUME NEW screen \in Screens, NEW l, l.kind = "line", FitsScreen(l, screen),
         NEW x \in Between(l.x0, l.x1), NEW y \in Between(l.y0, l.y1)
  PROVE  <<x, y>> \in PointsOf(screen)
  <1>1. screen.fb_width \in Nat \ {0} /\ screen.fb_height \in Nat \ {0}
    BY DrawingAssumption
  <1>2. /\ l.x0 \in 0 .. (screen.fb_width - 1) /\ l.x1 \in 0 .. (screen.fb_width - 1)
        /\ l.y0 \in 0 .. (screen.fb_height - 1) /\ l.y1 \in 0 .. (screen.fb_height - 1)
    BY DEF FitsScreen
  <1>3. x \in 0 .. (screen.fb_width - 1) /\ y \in 0 .. (screen.fb_height - 1)
    BY <1>1, <1>2 DEF Between
  <1>. QED  BY <1>3 DEF PointsOf

LEMMA CircleOnScreen ==
  ASSUME NEW screen \in Screens, NEW c, c.kind = "circle", FitsScreen(c, screen), NEW p,
         p = <<p[1], p[2]>>, p[1] \in (c.xc - c.r) .. (c.xc + c.r),
         p[2] \in (c.yc - c.r) .. (c.yc + c.r)
  PROVE  p \in PointsOf(screen)
  <1>1. screen.fb_width \in Nat \ {0} /\ screen.fb_height \in Nat \ {0}
    BY DrawingAssumption
  <1>2. /\ c.xc \in Nat /\ c.yc \in Nat /\ c.r \in Nat
        /\ c.xc - c.r \in 0 .. (screen.fb_width - 1) /\ c.xc + c.r \in 0 .. (screen.fb_width - 1)
        /\ c.yc - c.r \in 0 .. (screen.fb_height - 1) /\ c.yc + c.r \in 0 .. (screen.fb_height - 1)
    BY DEF FitsScreen
  <1>3. p[1] \in 0 .. (screen.fb_width - 1) /\ p[2] \in 0 .. (screen.fb_height - 1)
    BY <1>1, <1>2
  <1>. QED  BY <1>3, Zenon DEF PointsOf

LEMMA DrawInvInit == Init => DrawInv
BY DEF Init, DrawingInit, DrawInv

LEMMA BeginsDrawing ==
  ASSUME DrawInv, FramebufferInit PROVE DrawInv'
  <1>1. phase = "framebuffer" /\ phase' = "draw" /\ shape = NoShape /\ pen = PenUp /\ pixels = {}
    BY DEF FramebufferInit, Phase, Enter, DrawInv
  <1>2. PICK tags \in TagLists :
          framebuffer_init(stivale2_get_tag(tags, "STIVALE2_STRUCT_TAG_FRAMEBUFFER_ID").screen)
    BY Zenon DEF FramebufferInit
  <1>3. gfx' \in Screens
    BY <1>2, BootAssumption, Zenon DEF framebuffer_init
  <1>4. shape' = NoShape /\ pen' = PenUp /\ pixels' = {}
    BY <1>1, <1>2 DEF framebuffer_init, framebuffer_set_background_color
  <1>. QED  BY <1>1, <1>3, <1>4, Zenon DEF DrawInv

\* Points that are drawn with the first call and with later ones.
LEMMA FirstPoints ==
  ASSUME pixels = {}, gfx' = gfx, NEW points \in SUBSET PointsOf(gfx), framebuffer_draw_pixel(points)
  PROVE  pixels' = Indices(gfx', points)
BY DEF Indices, framebuffer_draw_pixel, fb_index

LEMMA StartsLine ==
  ASSUME DrawInv, phase = "draw", UNCHANGED phase, NEW s, FitsScreen(s, gfx), s.kind = "line",
         framebuffer_draw_line(s)
  PROVE  DrawInv'
  <1>1. gfx \in Screens /\ gfx' = gfx /\ phase' = "draw" /\ shape' = s /\ pixels = {}
    BY DEF DrawInv, framebuffer_draw_line
  <1>2. s # NoShape /\ IsLineShape(s)
    BY <1>1, ShapeKinds
  <1>3. s.x0 \in Between(s.x0, s.x1) /\ s.y0 \in Between(s.y0, s.y1)
    BY <1>2 DEF IsLineShape, Between
  <1>4. ASSUME NEW points \in SUBSET PointsOf(gfx), framebuffer_draw_pixel(points),
               pen'.down \in BOOLEAN, LineInv(s, pen', points)
        PROVE  DrawInv'
    <2>1. pixels' = Indices(gfx', points)
      BY <1>1, <1>4, FirstPoints
    <2>2. Drawn(points)'
      BY <1>1, <1>4, <2>1 DEF Drawn
    <2>. QED  BY <1>1, <1>2, <1>4, <2>2, Zenon DEF DrawInv
  <1>5. CASE DrawStraight(s)
    <2>. DEFINE points == Between(s.x0, s.x1) \X Between(s.y0, s.y1)
    <2>1. points \in SUBSET PointsOf(gfx)
      BY <1>1, LineOnScreen
    <2>2. framebuffer_draw_pixel(points) /\ pen' = PenUp /\ (s.x0 = s.x1 \/ s.y0 = s.y1)
      BY <1>5, Zenon DEF DrawStraight
    <2>3. pen'.down = FALSE
      BY <2>2 DEF PenUp
    <2>4. IsLine(s, points, TRUE)
      BY <1>2, <2>2, StraightLine
    <2>. HIDE DEF points
    <2>5. LineInv(s, pen', points)
      BY <2>3, <2>4, Zenon DEF LineInv
    <2>. QED  BY <1>4, <2>1, <2>2, <2>3, <2>5
  <1>6. CASE DrawFirst(s)
    <2>. DEFINE points == {<<s.x0, s.y0>>}
    <2>1. points \in SUBSET PointsOf(gfx)
      BY <1>1, <1>3, LineOnScreen
    <2>2. /\ framebuffer_draw_pixel(points) /\ s.x0 # s.x1 /\ s.y0 # s.y1
          /\ pen' = [x |-> s.x0, y |-> s.y0, error |-> dx(s) + dy(s), down |-> TRUE]
      BY <1>6, Zenon DEF DrawFirst
    <2>3. dx(s) # 0 /\ dy(s) # 0
      BY <1>2, <2>2, Extents
    <2>4. LineInv(s, pen', points)
      <3>1. LineInv(s, LinePen(s, 0, 0), points) /\ LinePen(s, 0, 0) = pen'
        BY <1>2, <2>2, <2>3, FirstPoint
      <3>. QED  BY <3>1, Zenon
    <2>5. pen'.down = TRUE
      BY <2>2
    <2>. HIDE DEF points
    <2>. QED  BY <1>4, <2>1, <2>2, <2>4, <2>5
  <1>. QED  BY <1>5, <1>6 DEF framebuffer_draw_line

LEMMA StartsCircle ==
  ASSUME DrawInv, phase = "draw", UNCHANGED phase, NEW s, FitsScreen(s, gfx), s.kind = "circle",
         framebuffer_draw_circle(s)
  PROVE  DrawInv'
  <1>1. gfx \in Screens /\ gfx' = gfx /\ phase' = "draw" /\ shape' = s /\ pixels = {}
    BY DEF DrawInv, framebuffer_draw_circle
  <1>2. s # NoShape /\ IsCircleShape(s)
    BY <1>1, ShapeKinds
  <1>. DEFINE points == EightPoints(s, 0, s.r)
              f == [m \in 0 .. 0 |-> s.r]
  <1>3. /\ pen' = [x |-> 0, y |-> s.r, error |-> 3 - 2 * s.r, down |-> TRUE]
        /\ framebuffer_draw_pixel(points)
    BY Zenon DEF framebuffer_draw_circle, draw_circle_helper
  <1>4. /\ IsArc(s.r, 0, f) /\ CirclePoints(s, 0, f) = points /\ CirclePen(s.r, 0, f[0]) = pen'
    BY <1>2, <1>3, FirstEight
  <1>. HIDE DEF f, points
  <1>5. CircleInv(s, pen', points)
    <2>1. CircleInv(s, CirclePen(s.r, 0, f[0]), CirclePoints(s, 0, f))
      BY <1>2, <1>4, ArcKeepsInv
    <2>. QED  BY <1>4, <2>1, Zenon
  <1>6. points \in SUBSET PointsOf(gfx)
    BY <1>1, <1>5, CircleOnScreen DEF CircleInv
  <1>7. pixels' = Indices(gfx', points)
    BY <1>1, <1>3, <1>6, FirstPoints
  <1>8. Drawn(points)'
    BY <1>1, <1>5, <1>6, <1>7 DEF Drawn
  <1>9. pen'.down = TRUE
    BY <1>3
  <1>. QED  BY <1>1, <1>2, <1>8, <1>9, Zenon DEF DrawInv

\* A step of one of the loops, in which more points are drawn, or none.
LEMMA LineContinues ==
  ASSUME DrawInv, phase = "draw", UNCHANGED phase, DrawNext
  PROVE  DrawInv'
  <1>1. /\ gfx \in Screens /\ UNCHANGED <<gfx, shape, phase>> /\ shape.kind = "line" /\ pen.down
        /\ shape # NoShape /\ FitsScreen(shape, gfx)
    BY DEF DrawInv, DrawNext, NoShape
  <1>2. PICK drawn : Drawn(drawn)
    BY <1>1 DEF DrawInv
  <1>3. IsLineShape(shape)
    BY <1>1, ShapeKinds
  <1>4. drawn \in SUBSET PointsOf(gfx) /\ pixels = Indices(gfx, drawn) /\ LineInv(shape, pen, drawn)
    BY <1>1, <1>2 DEF Drawn
  <1>5. CASE pen.x # shape.x1 /\ pen.y # shape.y1
    <2>. DEFINE p == LineStep(shape, pen)
    <2>. PICK more : more = drawn \cup {<<p.x, p.y>>}
      OBVIOUS
    <2>1. pen' = p /\ framebuffer_draw_pixel({<<p.x, p.y>>})
      BY <1>5, Zenon DEF DrawNext
    <2>2. LineInv(shape, p, more)
      BY <1>1, <1>3, <1>4, <1>5, StepKeepsLine
    <2>3. p.down = TRUE
      BY DEF LineStep
    <2>. HIDE DEF p
    <2>4. <<p.x, p.y>> \in PointsOf(gfx)
      <3>1. OnLine(shape, <<p.x, p.y>>)
        BY <2>2, Zenon DEF LineInv, IsLine
      <3>2. p.x \in Between(shape.x0, shape.x1) /\ p.y \in Between(shape.y0, shape.y1)
        BY <3>1 DEF OnLine
      <3>. QED  BY <1>1, <3>2, LineOnScreen
    <2>5. pixels' = Indices(gfx, more)
      BY <1>4, <2>1, MorePixels
    <2>6. more \in SUBSET PointsOf(gfx)
      BY <1>4, <2>4
    <2>7. Drawn(more)'
      <3>1. LineInv(shape', pen', more)
        BY <1>1, <2>1, <2>2, Zenon
      <3>. QED  BY <1>1, <2>5, <2>6, <3>1 DEF Drawn
    <2>8. pen'.down \in BOOLEAN
      BY <2>1, <2>3
    <2>. QED  BY <1>1, <2>7, <2>8, Zenon DEF DrawInv
  <1>6. CASE ~(pen.x # shape.x1 /\ pen.y # shape.y1)
    <2>1. pen' = PenUp /\ UNCHANGED pixels
      BY <1>6, Zenon DEF DrawNext
    <2>2. IsLine(shape, drawn, TRUE)
      BY <1>1, <1>3, <1>4, <1>6, LastPoint
    <2>3. pen'.down = FALSE
      BY <2>1 DEF PenUp
    <2>4. LineInv(shape, pen', drawn)
      BY <2>2, <2>3, Zenon DEF LineInv
    <2>5. Drawn(drawn)'
      BY <1>1, <1>4, <2>1, <2>4 DEF Drawn
    <2>. QED  BY <1>1, <2>3, <2>5, Zenon DEF DrawInv
  <1>. QED  BY <1>5, <1>6

LEMMA CircleContinues ==
  ASSUME DrawInv, phase = "draw", UNCHANGED phase, CircleNext
  PROVE  DrawInv'
  <1>1. /\ gfx \in Screens /\ UNCHANGED <<gfx, shape, phase>> /\ shape.kind = "circle" /\ pen.down
        /\ shape # NoShape /\ FitsScreen(shape, gfx)
    BY DEF DrawInv, CircleNext, NoShape
  <1>2. PICK drawn : Drawn(drawn)
    BY <1>1 DEF DrawInv
  <1>3. IsCircleShape(shape)
    BY <1>1, ShapeKinds
  <1>4. drawn \in SUBSET PointsOf(gfx) /\ pixels = Indices(gfx, drawn) /\ CircleInv(shape, pen, drawn)
    BY <1>1, <1>2 DEF Drawn
  <1>5. CASE pen.y >= pen.x
    <2>. DEFINE p == CircleStep(pen)
                eight == EightPoints(shape, p.x, p.y)
    <2>. PICK more : more = drawn \cup eight
      OBVIOUS
    <2>1. pen' = p /\ framebuffer_draw_pixel(eight)
      BY <1>5, Zenon DEF CircleNext, draw_circle_helper
    <2>2. CircleInv(shape, p, more)
      BY <1>1, <1>3, <1>4, <1>5, StepKeepsCircle
    <2>3. p.down = TRUE
      <3>0. PICK n \in Nat : \E f : IsArc(shape.r, n, f) /\ pen = CirclePen(shape.r, n, f[n])
        BY <1>1, <1>4, Zenon DEF CircleInv
      <3>1. PICK f : IsArc(shape.r, n, f) /\ pen = CirclePen(shape.r, n, f[n])
        BY <3>0, Zenon
      <3>2. f[n] \in Int /\ shape.r \in Nat \ {0}
        BY <1>3, <3>1 DEF IsArc, IsCircleShape
      <3>3. p = CirclePen(shape.r, n + 1, f[n] - 1) \/ p = CirclePen(shape.r, n + 1, f[n])
        BY <3>1, <3>2, CircleStepAsPen
      <3>. QED  BY <3>3 DEF CirclePen
    <2>. HIDE DEF p, eight
    <2>4. pixels' = Indices(gfx, more)
      BY <1>4, <2>1, MorePixels
    <2>5. more \in SUBSET PointsOf(gfx)
      BY <1>1, <2>2, CircleOnScreen DEF CircleInv
    <2>6. Drawn(more)'
      <3>1. CircleInv(shape', pen', more)
        BY <1>1, <2>1, <2>2, Zenon
      <3>. QED  BY <1>1, <2>4, <2>5, <3>1 DEF Drawn
    <2>7. pen'.down \in BOOLEAN
      BY <2>1, <2>3
    <2>. QED  BY <1>1, <2>6, <2>7, Zenon DEF DrawInv
  <1>6. CASE ~(pen.y >= pen.x)
    <2>1. pen' = PenUp /\ UNCHANGED pixels
      BY <1>6, Zenon DEF CircleNext
    <2>2. IsCircle(shape, drawn, TRUE)
      BY <1>1, <1>3, <1>4, <1>6, LastEight
    <2>3. pen'.down = FALSE
      BY <2>1 DEF PenUp
    <2>4. CircleInv(shape, pen', drawn)
      BY <1>4, <2>2, <2>3, Zenon DEF CircleInv
    <2>5. Drawn(drawn)'
      BY <1>1, <1>4, <2>1, <2>4 DEF Drawn
    <2>. QED  BY <1>1, <2>3, <2>5, Zenon DEF DrawInv
  <1>. QED  BY <1>5, <1>6

LEMMA DrawKeepsInv ==
  ASSUME DrawInv, Draw PROVE DrawInv'
  <1>1. phase = "draw" /\ gfx \in Screens
    BY DEF Draw, Phase, DrawInv
  <1>2. ASSUME UNCHANGED phase, NEW s \in Shapes,
               \/ s.kind = "line" /\ framebuffer_draw_line(s)
               \/ s.kind = "circle" /\ framebuffer_draw_circle(s)
        PROVE  DrawInv'
    <2>1. FitsScreen(s, gfx)
      BY <1>1, BootAssumption
    <2>. QED  BY <1>1, <1>2, <2>1, StartsLine, StartsCircle
  <1>3. CASE (DrawNext \/ CircleNext) /\ UNCHANGED phase
    BY <1>1, <1>3, LineContinues, CircleContinues
  <1>4. CASE framebuffer_reset_screen /\ Enter("serial")
    <2>1. /\ shape # NoShape /\ UNCHANGED gfx /\ framebuffer_set_background_color
          /\ shape' = NoShape /\ pen' = PenUp /\ phase' = "serial"
      BY <1>4 DEF framebuffer_reset_screen, Enter
    <2>2. PICK drawn : Drawn(drawn)
      BY <2>1 DEF DrawInv
    <2>3. pixels' = {}
      BY <2>1, <2>2, BackgroundClears DEF Drawn
    <2>. QED  BY <1>1, <2>1, <2>3, Zenon DEF DrawInv
  <1>. QED  BY <1>2, <1>3, <1>4, Zenon DEF Draw

LEMMA DrawInvariance == Spec => []DrawInv
  <1>1. DrawInv /\ [Next]_vars => DrawInv'
    <2>. SUFFICES ASSUME DrawInv, [Next]_vars PROVE DrawInv'
      OBVIOUS
    <2>1. CASE FramebufferInit
      BY <2>1, BeginsDrawing
    <2>2. CASE Draw
      BY <2>2, DrawKeepsInv
    <2>3. CASE UNCHANGED drawingVars /\ (phase' = phase \/ (phase # "draw" /\ phase' # "draw"))
      <3>1. gfx' = gfx /\ shape' = shape /\ pen' = pen /\ pixels' = pixels
        BY <2>3 DEF drawingVars
      <3>2. ASSUME NEW drawn, Drawn(drawn) PROVE Drawn(drawn)'
        BY <3>1, <3>2 DEF Drawn
      <3>3. (\E drawn : Drawn(drawn)) => \E drawn : Drawn(drawn)'
        BY <3>2, Zenon
      <3>. QED  BY <2>3, <3>1, <3>3, Zenon DEF DrawInv
    <2>4. UNCHANGED vars => UNCHANGED drawingVars /\ phase' = phase
      BY DEF vars, bootVars
    <2>. QED  BY <2>1, <2>2, <2>3, <2>4, DrawSteps
  <1>. QED  BY <1>1, DrawInvInit, PTL DEF Spec

\* Whatever the screen and whatever lies on it, every line and circle comes
\* out as it should (framebuffer.c:98-215): from the first pixel on all pixels
\* are on the screen and next to the ideal curve, and in the end a line is a
\* chain that leaves its start and reaches its end, and a circle is closed.
THEOREM CurvesAreDrawn == Spec => []PixelsOnCurve
  <1>1. DrawInv => PixelsOnCurve
    <2>. SUFFICES ASSUME DrawInv PROVE PixelsOnCurve
      OBVIOUS
    <2>1. CASE shape = NoShape
      <3>1. Points = {} /\ shape.kind = "none"
        BY <2>1 DEF DrawInv, Points, NoShape
      <3>. QED  BY <3>1 DEF PixelsOnCurve
    <2>2. CASE shape # NoShape
      <3>1. gfx \in Screens
        BY <2>2 DEF DrawInv
      <3>2. PICK drawn : Drawn(drawn)
        BY <2>2 DEF DrawInv
      <3>3. drawn \in SUBSET PointsOf(gfx) /\ pixels = Indices(gfx, drawn)
        BY <3>2 DEF Drawn
      <3>4. Points = drawn
        BY <3>1, <3>3, PointsAreDrawn
      <3>5. \A p \in drawn : p[1] < gfx.fb_width /\ p[2] < gfx.fb_height
        <4>1. gfx.fb_width \in Nat /\ gfx.fb_height \in Nat
          BY <3>1, DrawingAssumption
        <4>. QED  BY <3>3, <4>1 DEF PointsOf
      <3>6. shape.kind = "line" => IsLine(shape, drawn, ~pen.down)
        BY <3>2, Zenon DEF Drawn, LineInv
      <3>7. shape.kind = "circle" => IsCircle(shape, drawn, ~pen.down)
        BY <3>2, Zenon DEF Drawn, CircleInv
      <3>. QED  BY <3>4, <3>5, <3>6, <3>7, Zenon DEF PixelsOnCurve
    <2>. QED  BY <2>1, <2>2
  <1>. QED  BY <1>1, DrawInvariance, PTL
----------------------------------------------------------------------------
(* Texts.                                                                  *)

\* A sequence, of whatever.
IsText(t) == \E S : t \in Seq(S)

LEMMA TextLength ==
  ASSUME NEW t, IsText(t)
  PROVE  Len(t) \in Nat /\ DOMAIN t = 1 .. Len(t)
  <1>1. PICK S : t \in Seq(S)
    BY DEF IsText
  <1>. QED  BY <1>1, LenProperties

LEMMA EmptyText == IsText(<<>>)
  BY EmptySeq DEF IsText

LEMMA OneCharacter == ASSUME NEW c PROVE IsText(<<c>>) /\ Len(<<c>>) = 1
  <1>1. <<c>> \in Seq({c})
    OBVIOUS
  <1>. QED  BY <1>1 DEF IsText

LEMMA JoinedText ==
  ASSUME NEW t, NEW u, IsText(t), IsText(u)
  PROVE  IsText(t \o u)
  <1>1. PICK S : t \in Seq(S)
    BY DEF IsText
  <1>2. PICK T : u \in Seq(T)
    BY DEF IsText
  <1>3. t \in Seq(S \cup T) /\ u \in Seq(S \cup T)
    <2>1. S \subseteq S \cup T /\ T \subseteq S \cup T
      OBVIOUS
    <2>. QED  BY <1>1, <1>2, <2>1, SeqMonotonic
  <1>4. t \o u \in Seq(S \cup T)
    BY <1>3, ConcatProperties
  <1>. QED  BY <1>4, Zenon DEF IsText

LEMMA LongerText ==
  ASSUME NEW t, NEW c, IsText(t)
  PROVE  IsText(Append(t, c)) /\ Len(Append(t, c)) = Len(t) + 1
  <1>1. PICK S : t \in Seq(S)
    BY DEF IsText
  <1>2. t \in Seq(S \cup {c})
    <2>1. S \subseteq S \cup {c}
      OBVIOUS
    <2>. QED  BY <1>1, <2>1, SeqMonotonic
  <1>3. Append(t, c) \in Seq(S \cup {c}) /\ Len(Append(t, c)) = Len(t) + 1
    BY <1>2
  <1>. QED  BY <1>3, Zenon DEF IsText

LEMMA EarlierCharacters ==
  ASSUME NEW t, NEW c, IsText(t)
  PROVE  /\ \A k \in DOMAIN t : Append(t, c)[k] = t[k]
         /\ Append(t, c)[Len(t) + 1] = c
  <1>1. PICK S : t \in Seq(S)
    BY DEF IsText
  <1>. QED  BY <1>1, LenProperties

\* A function on 1 to n.
LEMMA TabulatedText ==
  ASSUME NEW n \in Nat, NEW f, f = [k \in 1 .. n |-> f[k]]
  PROVE  IsText(f)
  <1>1. f \in [1 .. n -> {f[k] : k \in 1 .. n}]
    OBVIOUS
  <1>2. f \in Seq({f[k] : k \in 1 .. n})
    BY <1>1
  <1>. QED  BY <1>2, Zenon DEF IsText

LEMMA TimesIsText ==
  ASSUME NEW c, NEW n \in Int
  PROVE  IsText(Times(c, n))
  <1>. DEFINE m == IF n > 0 THEN n ELSE 0
              f == [k \in 1 .. m |-> c]
  <1>1. m \in Nat
    OBVIOUS
  <1>. HIDE DEF m
  <1>2. f = [k \in 1 .. m |-> f[k]]
    OBVIOUS
  <1>3. IsText(f)
    BY <1>1, <1>2, TabulatedText
  <1>. QED  BY <1>3 DEF Times, m

LEMMA PrefixIsText ==
  ASSUME NEW t, IsText(t), NEW n \in 0 .. Len(t)
  PROVE  IsText(SubSeq(t, 1, n))
  <1>1. PICK S : t \in Seq(S)
    BY DEF IsText
  <1>2. Len(t) \in Nat /\ n \in Int
    BY TextLength
  <1>3. \A k \in 1 .. n : t[k] \in S
    BY <1>1, <1>2, ElementOfSeq
  <1>4. SubSeq(t, 1, n) \in Seq(S)
    BY <1>2, <1>3, SubSeqProperties
  <1>. QED  BY <1>4, Zenon DEF IsText

LEMMA ReverseIsText ==
  ASSUME NEW t, IsText(t)
  PROVE  IsText(Reverse(t))
  <1>1. Len(t) \in Nat
    BY TextLength
  <1>2. Reverse(t) = [k \in 1 .. Len(t) |-> Reverse(t)[k]]
    BY <1>1 DEF Reverse
  <1>. QED  BY <1>1, <1>2, TabulatedText
LEMMA SameText ==
  ASSUME NEW t, NEW u, IsText(t), IsText(u), Len(t) = Len(u), \A k \in 1 .. Len(t) : t[k] = u[k]
  PROVE  t = u
  <1>1. PICK S : t \in Seq(S)
    BY DEF IsText
  <1>2. PICK T : u \in Seq(T)
    BY DEF IsText
  <1>3. t = [k \in 1 .. Len(t) |-> t[k]] /\ u = [k \in 1 .. Len(u) |-> u[k]]
    BY <1>1, <1>2
  <1>. QED  BY <1>3

LEMMA JoinedParts ==
  ASSUME NEW t, NEW u, IsText(t), IsText(u)
  PROVE  /\ Len(t \o u) = Len(t) + Len(u)
         /\ \A k \in 1 .. Len(t) : (t \o u)[k] = t[k]
         /\ \A k \in 1 .. Len(u) : (t \o u)[Len(t) + k] = u[k]
         /\ \A k \in 1 .. Len(t \o u) : (t \o u)[k] = IF k <= Len(t) THEN t[k] ELSE u[k - Len(t)]
  <1>1. PICK S : t \in Seq(S)
    BY DEF IsText
  <1>2. PICK T : u \in Seq(T)
    BY DEF IsText
  <1>3. t \in Seq(S \cup T) /\ u \in Seq(S \cup T)
    <2>1. S \subseteq S \cup T /\ T \subseteq S \cup T
      OBVIOUS
    <2>. QED  BY <1>1, <1>2, <2>1, SeqMonotonic
  <1>. QED  BY <1>3, ConcatProperties

LEMMA JoinAssociative ==
  ASSUME NEW t, NEW u, NEW w, IsText(t), IsText(u), IsText(w)
  PROVE  (t \o u) \o w = t \o (u \o w)
  <1>1. IsText(t \o u) /\ IsText(u \o w)
    BY JoinedText
  <1>2. IsText((t \o u) \o w) /\ IsText(t \o (u \o w))
    BY <1>1, JoinedText
  <1>. DEFINE a == t \o u
              b == u \o w
              l == a \o w
              r == t \o b
  <1>3. Len(t) \in Nat /\ Len(u) \in Nat /\ Len(w) \in Nat
    BY TextLength
  <1>4. /\ Len(a) = Len(t) + Len(u)
        /\ \A k \in 1 .. Len(a) : a[k] = IF k <= Len(t) THEN t[k] ELSE u[k - Len(t)]
    BY JoinedParts
  <1>5. /\ Len(b) = Len(u) + Len(w)
        /\ \A k \in 1 .. Len(b) : b[k] = IF k <= Len(u) THEN u[k] ELSE w[k - Len(u)]
    BY JoinedParts
  <1>. HIDE DEF a, b
  <1>6. /\ Len(l) = Len(a) + Len(w)
        /\ \A k \in 1 .. Len(l) : l[k] = IF k <= Len(a) THEN a[k] ELSE w[k - Len(a)]
    BY <1>1, JoinedParts DEF a
  <1>7. /\ Len(r) = Len(t) + Len(b)
        /\ \A k \in 1 .. Len(r) : r[k] = IF k <= Len(t) THEN t[k] ELSE b[k - Len(t)]
    BY <1>1, JoinedParts DEF b
  <1>8. IsText(l) /\ IsText(r)
    BY <1>2 DEF a, b
  <1>. HIDE DEF l, r
  <1>9. Len(l) = Len(r)
    BY <1>3, <1>4, <1>5, <1>6, <1>7
  <1>10. ASSUME NEW k \in 1 .. Len(l) PROVE l[k] = r[k]
    <2>1. CASE k <= Len(t)
      BY <1>3, <1>4, <1>5, <1>6, <1>7, <2>1
    <2>2. CASE k > Len(t) /\ k <= Len(t) + Len(u)
      <3>1. k - Len(t) \in 1 .. Len(b) /\ k \in 1 .. Len(a) /\ k - Len(t) <= Len(u)
        BY <1>3, <1>4, <1>5, <2>2
      <3>. QED  BY <1>3, <1>4, <1>5, <1>6, <1>7, <1>9, <2>2, <3>1
    <2>3. CASE k > Len(t) + Len(u)
      <3>1. k - Len(t) \in 1 .. Len(b) /\ ~(k - Len(t) <= Len(u)) /\ ~(k <= Len(a)) /\ ~(k <= Len(t))
            /\ (k - Len(t)) - Len(u) = k - Len(a)
        BY <1>3, <1>4, <1>5, <1>6, <2>3
      <3>2. l[k] = w[k - Len(a)]
        BY <1>6, <3>1
      <3>3. r[k] = b[k - Len(t)]
        BY <1>7, <1>9, <3>1
      <3>4. b[k - Len(t)] = w[(k - Len(t)) - Len(u)]
        BY <1>5, <3>1
      <3>. QED  BY <3>1, <3>2, <3>3, <3>4
    <2>. QED  BY <1>3, <2>1, <2>2, <2>3
  <1>11. l = r
    BY <1>8, <1>9, <1>10, SameText
  <1>. QED  BY <1>11 DEF a, b, l, r

LEMMA JoinEmpty ==
  ASSUME NEW t, IsText(t)
  PROVE  <<>> \o t = t /\ t \o <<>> = t
  <1>1. PICK S : t \in Seq(S)
    BY DEF IsText
  <1>. QED  BY <1>1, ConcatEmptySeq

LEMMA TimesParts ==
  ASSUME NEW c, NEW n \in Int
  PROVE  /\ Len(Times(c, n)) = IF n > 0 THEN n ELSE 0
         /\ \A k \in 1 .. Len(Times(c, n)) : Times(c, n)[k] = c
         /\ n <= 0 => Times(c, n) = <<>>
  <1>. DEFINE m == IF n > 0 THEN n ELSE 0
  <1>1. m \in Nat
    OBVIOUS
  <1>. HIDE DEF m
  <1>2. Times(c, n) = [k \in 1 .. m |-> c]
    BY Zenon DEF Times, m
  <1>3. [k \in 1 .. m |-> c] \in Seq({c}) /\ Len([k \in 1 .. m |-> c]) = m
    BY <1>1
  <1>4. m = 0 => [k \in 1 .. m |-> c] = <<>>
    BY <1>3, EmptySeq
  <1>. QED  BY <1>2, <1>3, <1>4 DEF m

LEMMA MoreTimes ==
  ASSUME NEW c, NEW m \in Nat, NEW n \in Nat
  PROVE  Times(c, m) \o Times(c, n) = Times(c, m + n)
  <1>1. IsText(Times(c, m)) /\ IsText(Times(c, n)) /\ IsText(Times(c, m + n))
    <2>1. m + n \in Int
      OBVIOUS
    <2>. QED  BY <2>1, TimesIsText
  <1>2. /\ Len(Times(c, m)) = m /\ \A k \in 1 .. m : Times(c, m)[k] = c
        /\ Len(Times(c, n)) = n /\ \A k \in 1 .. n : Times(c, n)[k] = c
    BY TimesParts
  <1>3. Len(Times(c, m + n)) = m + n /\ \A k \in 1 .. m + n : Times(c, m + n)[k] = c
    <2>1. m + n \in Int
      OBVIOUS
    <2>. QED  BY <2>1, TimesParts
  <1>. DEFINE t == Times(c, m)
              u == Times(c, n)
              w == Times(c, m + n)
              j == t \o u
  <1>. HIDE DEF t, u, w
  <1>4. /\ Len(j) = Len(t) + Len(u)
        /\ \A k \in 1 .. Len(j) : j[k] = IF k <= Len(t) THEN t[k] ELSE u[k - Len(t)]
    BY <1>1, JoinedParts DEF t, u
  <1>5. IsText(j)
    BY <1>1, JoinedText DEF t, u
  <1>. HIDE DEF j
  <1>6. Len(j) = Len(w)
    BY <1>2, <1>3, <1>4 DEF t, u, w
  <1>7. \A k \in 1 .. Len(j) : j[k] = w[k]
    BY <1>2, <1>3, <1>4 DEF t, u, w
  <1>8. j = w
    BY <1>1, <1>5, <1>6, <1>7, SameText DEF w
  <1>. QED  BY <1>8 DEF j, t, u, w

LEMMA ReverseParts ==
  ASSUME NEW t, IsText(t)
  PROVE  /\ Len(Reverse(t)) = Len(t)
         /\ \A k \in 1 .. Len(t) : Reverse(t)[k] = t[(Len(t) - k) + 1]
  <1>1. Len(t) \in Nat
    BY TextLength
  <1>2. Reverse(t) = [k \in 1 .. Len(t) |-> t[(Len(t) - k) + 1]]
    BY DEF Reverse
  <1>3. Len([k \in 1 .. Len(t) |-> t[(Len(t) - k) + 1]]) = Len(t)
    BY <1>1
  <1>. QED  BY <1>2, <1>3

LEMMA ReverseJoined ==
  ASSUME NEW t, NEW u, IsText(t), IsText(u)
  PROVE  Reverse(t \o u) = Reverse(u) \o Reverse(t)
  <1>. DEFINE a == t \o u
              x == Reverse(t)
              y == Reverse(u)
              l == Reverse(a)
              r == y \o x
  <1>1. Len(t) \in Nat /\ Len(u) \in Nat
    BY TextLength
  <1>2. /\ Len(a) = Len(t) + Len(u)
        /\ \A k \in 1 .. Len(a) : a[k] = IF k <= Len(t) THEN t[k] ELSE u[k - Len(t)]
    BY JoinedParts
  <1>3. IsText(a)
    BY JoinedText
  <1>4. IsText(x) /\ Len(x) = Len(t) /\ \A k \in 1 .. Len(t) : x[k] = t[(Len(t) - k) + 1]
    BY ReverseParts, ReverseIsText
  <1>5. IsText(y) /\ Len(y) = Len(u) /\ \A k \in 1 .. Len(u) : y[k] = u[(Len(u) - k) + 1]
    BY ReverseParts, ReverseIsText
  <1>. HIDE DEF a, x, y
  <1>6. IsText(l) /\ Len(l) = Len(a) /\ \A k \in 1 .. Len(a) : l[k] = a[(Len(a) - k) + 1]
    BY <1>3, ReverseParts, ReverseIsText
  <1>7. /\ Len(r) = Len(y) + Len(x)
        /\ \A k \in 1 .. Len(r) : r[k] = IF k <= Len(y) THEN y[k] ELSE x[k - Len(y)]
    BY <1>4, <1>5, JoinedParts
  <1>8. IsText(r)
    BY <1>4, <1>5, JoinedText
  <1>. HIDE DEF l, r
  <1>9. Len(l) = Len(r)
    BY <1>1, <1>2, <1>4, <1>5, <1>6, <1>7
  <1>10. ASSUME NEW k \in 1 .. Len(l) PROVE l[k] = r[k]
    <2>. DEFINE p == (Len(a) - k) + 1
    <2>1. p \in 1 .. Len(a) /\ l[k] = a[p] /\ k \in Int
      BY <1>1, <1>2, <1>6
    <2>2. CASE k <= Len(u)
      <3>1. ~(p <= Len(t)) /\ p - Len(t) = (Len(u) - k) + 1 /\ k \in 1 .. Len(u)
        BY <1>1, <1>2, <1>6, <2>2
      <3>. HIDE DEF p
      <3>2. a[p] = u[p - Len(t)]
        BY <1>2, <2>1, <3>1
      <3>3. r[k] = y[k]
        BY <1>5, <1>7, <1>9, <2>2
      <3>. QED  BY <1>5, <2>1, <3>1, <3>2, <3>3
    <2>3. CASE k > Len(u)
      <3>1. p <= Len(t) /\ p = (Len(t) - (k - Len(u))) + 1 /\ k - Len(u) \in 1 .. Len(t) /\ ~(k <= Len(u))
        BY <1>1, <1>2, <1>6, <2>1, <2>3
      <3>. HIDE DEF p
      <3>2. a[p] = t[p]
        BY <1>2, <2>1, <3>1
      <3>3. r[k] = x[k - Len(u)]
        BY <1>5, <1>7, <1>9, <3>1
      <3>. QED  BY <1>4, <2>1, <3>1, <3>2, <3>3
    <2>. QED  BY <1>1, <2>1, <2>2, <2>3
  <1>11. l = r
    BY <1>6, <1>8, <1>9, <1>10, SameText
  <1>. QED  BY <1>11 DEF a, x, y, l, r

LEMMA ReverseTimes ==
  ASSUME NEW c, NEW n \in Int
  PROVE  Reverse(Times(c, n)) = Times(c, n)
  <1>. DEFINE t == Times(c, n)
              r == Reverse(t)
  <1>1. IsText(t)
    BY TimesIsText
  <1>2. \A k \in 1 .. Len(t) : t[k] = c
    BY TimesParts
  <1>. HIDE DEF t
  <1>3. Len(t) \in Nat
    BY <1>1, TextLength
  <1>4. IsText(r) /\ Len(r) = Len(t) /\ \A k \in 1 .. Len(t) : r[k] = t[(Len(t) - k) + 1]
    BY <1>1, ReverseParts, ReverseIsText
  <1>. HIDE DEF r
  <1>5. ASSUME NEW k \in 1 .. Len(r) PROVE r[k] = t[k]
    <2>1. (Len(t) - k) + 1 \in 1 .. Len(t) /\ k \in 1 .. Len(t)
      BY <1>3, <1>4
    <2>2. PICK m \in 1 .. Len(t) : m = (Len(t) - k) + 1
      BY <2>1
    <2>3. t[m] = c /\ t[k] = c
      BY <1>2, <2>1, <2>2
    <2>4. r[k] = t[m]
      BY <1>4, <2>1, <2>2
    <2>. QED  BY <2>3, <2>4
  <1>6. r = t
    BY <1>1, <1>4, <1>5, SameText
  <1>. QED  BY <1>6 DEF r, t

LEMMA ReverseLonger ==
  ASSUME NEW t, NEW c, IsText(t)
  PROVE  Append(t, c) = t \o <<c>> /\ Reverse(Append(t, c)) = <<c>> \o Reverse(t)
  <1>1. PICK S : t \in Seq(S)
    BY DEF IsText
  <1>2. Append(t, c) = t \o <<c>>
    <2>1. t \in Seq(S \cup {c}) /\ c \in S \cup {c}
      <3>1. S \subseteq S \cup {c}
        OBVIOUS
      <3>. QED  BY <1>1, <3>1, SeqMonotonic
    <2>. QED  BY <2>1, AppendIsConcat
  <1>3. IsText(<<c>>)
    BY OneCharacter
  <1>4. Reverse(<<c>>) = <<c>>
    <2>1. Len(<<c>>) = 1 /\ <<c>>[1] = c /\ <<c>> = [k \in 1 .. 1 |-> c]
      OBVIOUS
    <2>2. Reverse(<<c>>) = [k \in 1 .. 1 |-> <<c>>[(1 - k) + 1]]
      BY <2>1 DEF Reverse
    <2>3. \A k \in 1 .. 1 : <<c>>[(1 - k) + 1] = c
      OBVIOUS
    <2>. QED  BY <2>1, <2>2, <2>3
  <1>5. Reverse(t \o <<c>>) = Reverse(<<c>>) \o Reverse(t)
    BY <1>3, ReverseJoined
  <1>. QED  BY <1>2, <1>4, <1>5
----------------------------------------------------------------------------
(* What the items print.                                                   *)

LEMMA SmallerInt == ASSUME NEW a \in Int, NEW b \in Int PROVE Smaller(a, b) \in {a, b}
  BY DEF Smaller

LEMMA PutIsText == ASSUME NEW buf, NEW c, IsText(buf) PROVE IsText(Put(buf, c))
  BY LongerText DEF Put

LEMMA PutZerosIsText ==
  ASSUME NEW buf, IsText(buf), NEW n \in Int
  PROVE  IsText(PutZeros(buf, n))
  <1>1. NtoaBuffer \in Nat \ {0}
    BY KprintfAssumption
  <1>2. Smaller(n, NtoaBuffer) - Len(buf) \in Int
    BY <1>1, TextLength DEF Smaller
  <1>3. IsText(Times("0", Smaller(n, NtoaBuffer) - Len(buf)))
    BY <1>2, TimesIsText
  <1>. QED  BY <1>3, JoinedText, Zenon DEF PutZeros

LEMMA SpacesIsText ==
  ASSUME NEW width \in Int, NEW n \in Nat
  PROVE  IsText(Times(" ", width - n))
  <1>1. width - n \in Int
    OBVIOUS
  <1>. QED  BY <1>1, TimesIsText

LEMMA ReversedOut ==
  ASSUME NEW buf, IsText(buf), NEW width \in Int, NEW flags
  PROVE  IsText(_out_rev(buf, width, flags))
  <1>. DEFINE spaces == Times(" ", width - Len(buf))
  <1>1. IsText(spaces) /\ IsText(Reverse(buf))
    BY TextLength, SpacesIsText, ReverseIsText
  <1>. HIDE DEF spaces
  <1>2. IsText(Reverse(buf) \o spaces) /\ IsText(spaces \o Reverse(buf))
    BY <1>1, JoinedText
  <1>3. _out_rev(buf, width, flags) \in {Reverse(buf) \o spaces, spaces \o Reverse(buf), Reverse(buf)}
    BY Zenon DEF _out_rev, spaces
  <1>. QED  BY <1>1, <1>2, <1>3

LEMMA ZerosIsText ==
  ASSUME NEW buf, IsText(buf), NEW prec \in Int, NEW width \in Int, NEW flags
  PROVE  IsText(LeadingZeros(buf, prec, width, flags))
  <1>1. IsText(PutZeros(buf, prec))
    BY PutZerosIsText
  <1>2. IsText(PutZeros(PutZeros(buf, prec), width))
    BY <1>1, PutZerosIsText
  <1>. QED  BY <1>1, <1>2, Zenon DEF LeadingZeros

LEMMA PrefixedIsText ==
  ASSUME NEW buf, IsText(buf), NEW base, NEW prec, NEW width, NEW flags
  PROVE  IsText(HashPrefix(buf, base, prec, width, flags))
  <1>. DEFINE len == Len(buf)
              full == "PRECISION" \notin flags /\ len > 0 /\ len \in {prec, width}
              kept == CASE ~full -> len
                        [] full /\ base = 16 /\ len > 1 -> len - 2
                        [] OTHER -> len - 1
              rest == SubSeq(buf, 1, kept)
              marked == CASE base = 16 -> Put(rest, IF "UPPERCASE" \in flags THEN "X" ELSE "x")
                          [] base = 2  -> Put(rest, "b")
                          [] OTHER     -> rest
  <1>1. len \in Nat
    BY TextLength
  <1>2. \/ kept = len
        \/ full /\ len > 1 /\ kept = len - 2
        \/ full /\ kept = len - 1
    BY Zenon
  <1>3. full => len > 0
    BY Zenon
  <1>. HIDE DEF kept, full
  <1>4. kept \in 0 .. len
    BY <1>1, <1>2, <1>3
  <1>5. IsText(rest)
    BY <1>4, PrefixIsText
  <1>. HIDE DEF rest
  <1>6. IsText(Put(rest, IF "UPPERCASE" \in flags THEN "X" ELSE "x")) /\ IsText(Put(rest, "b"))
    BY <1>5, PutIsText
  <1>7. IsText(marked)
    BY <1>5, <1>6, Zenon
  <1>. HIDE DEF marked
  <1>8. HashPrefix(buf, base, prec, width, flags) = IF "HASH" \in flags THEN Put(marked, "0") ELSE buf
    BY Zenon DEF HashPrefix, marked, rest, kept, full
  <1>. QED  BY <1>7, <1>8, PutIsText

LEMMA SignIsText ==
  ASSUME NEW buf, IsText(buf), NEW negative, NEW flags
  PROVE  IsText(Sign(buf, negative, flags))
  <1>1. IsText(Put(buf, "-")) /\ IsText(Put(buf, "+")) /\ IsText(Put(buf, " "))
    BY PutIsText
  <1>. QED  BY <1>1, Zenon DEF Sign

LEMMA FormatIsText ==
  ASSUME NEW buf, IsText(buf), NEW negative, NEW base, NEW prec \in Int, NEW width \in Int, NEW flags
  PROVE  IsText(_ntoa_format(buf, negative, base, prec, width, flags))
  <1>. DEFINE w      == WidthOfZeros(negative, width, flags)
              zeros  == LeadingZeros(buf, prec, w, flags)
              prefix == HashPrefix(zeros, base, prec, w, flags)
              signed == Sign(prefix, negative, flags)
  <1>1. w \in Int
    <2>1. w = width \/ w = width - 1
      BY Zenon DEF WidthOfZeros
    <2>. QED  BY <2>1
  <1>. HIDE DEF w
  <1>2. IsText(zeros)
    BY <1>1, ZerosIsText
  <1>. HIDE DEF zeros
  <1>3. IsText(prefix)
    BY <1>2, PrefixedIsText
  <1>. HIDE DEF prefix
  <1>4. IsText(signed)
    BY <1>3, SignIsText
  <1>. HIDE DEF signed
  <1>5. IsText(_out_rev(signed, w, flags))
    BY <1>1, <1>4, ReversedOut
  <1>. QED  BY <1>5, Zenon DEF _ntoa_format, signed, prefix, zeros, w

\* One digit, and those of the quotient behind.
LEMMA DigitsByDivision ==
  ASSUME NEW base \in Nat, base >= 2, NEW S, NEW chars, \A k \in 1 .. base : chars[k] \in S,
         NEW v \in Nat
  PROVE  /\ DigitsOf(v, base, chars) \in Seq(S)
         /\ DigitsOf(v, base, chars) =
              <<chars[1 + (v % base)]>> \o (IF v < base THEN <<>> ELSE DigitsOf(v \div base, base, chars))
  <1>. DEFINE V == Seq(S)
              first == [n \in Nat |-> <<chars[1 + (n % base)]>> \o <<>>]
              more  == [n \in Nat |-> [t \in V |-> <<chars[1 + (n % base)]>> \o t]]
              Value(d) == [n \in Nat |-> <<chars[1 + (n % base)]>> \o (IF n < base THEN <<>> ELSE d[n \div base])]
              d == CHOOSE g : g = Value(g)
  <1>1. \A n \in Nat : <<chars[1 + (n % base)]>> \in V
    <2>. SUFFICES ASSUME NEW n \in Nat PROVE <<chars[1 + (n % base)]>> \in V
      OBVIOUS
    <2>1. n % base \in 0 .. (base - 1)
      BY DivisionWithRemainder
    <2>. QED  BY <2>1
  <1>2. first \in [Nat -> V] /\ more \in [Nat -> [V -> V]]
    <2>1. <<>> \in V /\ \A s \in V, t \in V : s \o t \in V
      BY EmptySeq, ConcatProperties
    <2>. HIDE DEF V
    <2>. QED  BY <1>1, <2>1
  <1>3. PICK f : ByDivision(f, base, V, first, more)
    BY <1>2, DivisionRecursion
  <1>4. \A n \in Nat : n >= base => n \div base \in Nat
    BY SmallerQuotient
  <1>5. f = Value(f)
    <2>1. f \in [Nat -> V] /\ \A n \in Nat : f[n] = IF n < base THEN first[n] ELSE more[n][f[n \div base]]
      BY <1>3 DEF ByDivision
    <2>. HIDE DEF V
    <2>2. ASSUME NEW n \in Nat
          PROVE  f[n] = <<chars[1 + (n % base)]>> \o (IF n < base THEN <<>> ELSE f[n \div base])
      <3>1. CASE n < base
        BY <2>1, <3>1
      <3>2. CASE ~(n < base)
        <4>1. f[n \div base] \in V
          BY <1>4, <2>1, <3>2
        <4>2. f[n] = more[n][f[n \div base]]
          BY <2>1, <3>2
        <4>3. more[n][f[n \div base]] = <<chars[1 + (n % base)]>> \o f[n \div base]
          BY <4>1
        <4>. QED  BY <3>2, <4>2, <4>3
      <3>. QED  BY <3>1, <3>2
    <2>. QED  BY <2>1, <2>2
  <1>. DEFINE P(g) == g = Value(g)
  <1>6. \E g : P(g)
    BY <1>5
  <1>7. d = Value(d)
    <2>. HIDE DEF P
    <2>1. P(CHOOSE g : P(g))
      BY <1>6, Zenon
    <2>. QED  BY <2>1 DEF P
  <1>8. \A n \in Nat : DigitsOf(n, base, chars) = d[n]
    BY Zenon DEF DigitsOf
  <1>. HIDE DEF d
  <1>9. \A n \in Nat : d[n] = <<chars[1 + (n % base)]>> \o (IF n < base THEN <<>> ELSE d[n \div base])
    BY <1>7
  <1>10. \A n \in Nat : d[n] \in V
    <2>. DEFINE T == {n \in Nat : d[n] \in V}
    <2>1. <<>> \in V /\ \A s \in V, t \in V : s \o t \in V
      BY EmptySeq, ConcatProperties
    <2>. HIDE DEF V
    <2>2. \A n \in Nat : n < base => n \in T
      BY <1>1, <1>9, <2>1
    <2>3. \A n \in Nat : n >= base /\ n \div base \in T => n \in T
      BY <1>1, <1>9, <2>1
    <2>. HIDE DEF T
    <2>4. Nat \subseteq T
      BY <2>2, <2>3, NaturalsByDivision
    <2>. QED  BY <2>4 DEF T
  <1>11. v >= base => DigitsOf(v \div base, base, chars) = d[v \div base]
    BY <1>4, <1>8
  <1>12. d[v] = <<chars[1 + (v % base)]>> \o (IF v < base THEN <<>> ELSE DigitsOf(v \div base, base, chars))
    <2>1. CASE v < base
      BY <1>9, <2>1
    <2>2. CASE ~(v < base)
      <3>1. d[v] = <<chars[1 + (v % base)]>> \o d[v \div base]
        BY <1>9, <2>2
      <3>2. d[v \div base] = DigitsOf(v \div base, base, chars)
        BY <1>11, <2>2
      <3>. QED  BY <2>2, <3>1, <3>2, Zenon
    <2>. QED  BY <2>1, <2>2
  <1>. QED  BY <1>8, <1>10, <1>12

\* The quotient's numeral, and one digit more.
LEMMA NumeralByDivision ==
  ASSUME NEW base \in Nat, base >= 2, NEW v \in Nat
  PROVE  /\ Numeral(v, base) \in Seq(Nat)
         /\ Numeral(v, base) = IF v < base THEN <<v>> ELSE Append(Numeral(v \div base, base), (v % base))
  <1>. DEFINE V == Seq(Nat)
              first == [n \in Nat |-> <<n>>]
              more  == [n \in Nat |-> [t \in V |-> Append(t, (n % base))]]
              Value(g) == [n \in Nat |-> IF n < base THEN <<n>> ELSE Append(g[n \div base], (n % base))]
              d == CHOOSE g : g = Value(g)
  <1>1. \A n \in Nat : n % base \in Nat
    BY DivisionWithRemainder
  <1>2. \A n \in Nat : <<n>> \in V
    OBVIOUS
  <1>3. \A n \in Nat : \A t \in V : Append(t, (n % base)) \in V
    BY <1>1, AppendProperties
  <1>4. first \in [Nat -> V] /\ more \in [Nat -> [V -> V]]
    <2>. HIDE DEF V
    <2>. QED  BY <1>2, <1>3
  <1>5. PICK f : ByDivision(f, base, V, first, more)
    BY <1>4, DivisionRecursion
  <1>6. \A n \in Nat : n >= base => n \div base \in Nat
    BY SmallerQuotient
  <1>7. f = Value(f)
    <2>1. f \in [Nat -> V] /\ \A n \in Nat : f[n] = IF n < base THEN first[n] ELSE more[n][f[n \div base]]
      BY <1>5 DEF ByDivision
    <2>. HIDE DEF V
    <2>2. ASSUME NEW n \in Nat
          PROVE  f[n] = IF n < base THEN <<n>> ELSE Append(f[n \div base], (n % base))
      <3>1. CASE n < base
        BY <2>1, <3>1
      <3>2. CASE ~(n < base)
        <4>1. f[n \div base] \in V
          BY <1>6, <2>1, <3>2
        <4>2. f[n] = more[n][f[n \div base]]
          BY <2>1, <3>2
        <4>3. more[n][f[n \div base]] = Append(f[n \div base], (n % base))
          BY <4>1
        <4>. QED  BY <3>2, <4>2, <4>3
      <3>. QED  BY <3>1, <3>2
    <2>. QED  BY <2>1, <2>2
  <1>. DEFINE P(g) == g = Value(g)
  <1>8. \E g : P(g)
    BY <1>7
  <1>9. d = Value(d)
    <2>. HIDE DEF P
    <2>1. P(CHOOSE g : P(g))
      BY <1>8, Zenon
    <2>. QED  BY <2>1 DEF P
  <1>10. \A n \in Nat : Numeral(n, base) = d[n]
    BY Zenon DEF Numeral
  <1>. HIDE DEF d
  <1>11. \A n \in Nat : d[n] = IF n < base THEN <<n>> ELSE Append(d[n \div base], (n % base))
    BY <1>9
  <1>12. \A n \in Nat : d[n] \in V
    <2>. DEFINE T == {n \in Nat : d[n] \in V}
    <2>. HIDE DEF V
    <2>1. \A n \in Nat : n < base => n \in T
      BY <1>2, <1>11
    <2>2. ASSUME NEW n \in Nat, n >= base, n \div base \in T PROVE n \in T
      <3>1. d[n \div base] \in V
        BY <2>2
      <3>2. d[n] = Append(d[n \div base], (n % base))
        <4>1. ~(n < base)
          BY <2>2
        <4>. QED  BY <1>11, <4>1
      <3>. QED  BY <1>3, <3>1, <3>2
    <2>. HIDE DEF T
    <2>3. Nat \subseteq T
      BY <2>1, <2>2, NaturalsByDivision
    <2>. QED  BY <2>3 DEF T
  <1>13. d[v] = IF v < base THEN <<v>> ELSE Append(Numeral(v \div base, base), (v % base))
    <2>1. CASE v < base
      BY <1>11, <2>1
    <2>2. CASE ~(v < base)
      <3>1. d[v] = Append(d[v \div base], (v % base))
        BY <1>11, <2>2
      <3>2. d[v \div base] = Numeral(v \div base, base)
        BY <1>6, <1>10, <2>2
      <3>. QED  BY <2>2, <3>1, <3>2, Zenon
    <2>. QED  BY <2>1, <2>2
  <1>. QED  BY <1>10, <1>12, <1>13

\* A numeral in characters.
Spelled(numeral, chars) == [k \in DOMAIN numeral |-> chars[1 + numeral[k]]]

LEMMA SpelledLonger ==
  ASSUME NEW t, NEW c, NEW chars, IsText(t)
  PROVE  /\ IsText(Spelled(t, chars)) /\ Len(Spelled(t, chars)) = Len(t)
         /\ Spelled(Append(t, c), chars) = Append(Spelled(t, chars), chars[1 + c])
  <1>. DEFINE n == Len(t)
              u == Append(t, c)
              s == Spelled(t, chars)
              l == Spelled(u, chars)
              r == Append(s, chars[1 + c])
  <1>1. n \in Nat /\ DOMAIN t = 1 .. n
    BY TextLength
  <1>2. IsText(u) /\ Len(u) = n + 1 /\ (\A k \in 1 .. n : u[k] = t[k]) /\ u[n + 1] = c
    BY <1>1, LongerText, EarlierCharacters
  <1>3. DOMAIN u = 1 .. (n + 1)
    BY <1>2, TextLength
  <1>. HIDE DEF n, u
  <1>4. s = [k \in 1 .. n |-> chars[1 + t[k]]]
    BY <1>1, Zenon DEF Spelled
  <1>5. l = [k \in 1 .. (n + 1) |-> chars[1 + u[k]]]
    BY <1>3, Zenon DEF Spelled
  <1>. HIDE DEF s, l
  <1>6. IsText(s) /\ Len(s) = n
    <2>1. s = [k \in 1 .. n |-> s[k]]
      BY <1>4
    <2>2. s \in [1 .. n -> {s[k] : k \in 1 .. n}]
      BY <2>1
    <2>3. s \in Seq({s[k] : k \in 1 .. n}) /\ Len(s) = n
      BY <1>1, <2>2
    <2>. QED  BY <2>3, Zenon DEF IsText
  <1>7. IsText(r) /\ Len(r) = n + 1 /\ (\A k \in 1 .. n : r[k] = s[k]) /\ r[n + 1] = chars[1 + c]
    <2>1. DOMAIN s = 1 .. n
      BY <1>6, TextLength
    <2>. QED  BY <1>6, <2>1, LongerText, EarlierCharacters
  <1>. HIDE DEF r
  <1>8. IsText(l) /\ Len(l) = n + 1
    <2>1. PICK m \in Nat : m = n + 1
      BY <1>1
    <2>2. l \in [1 .. m -> {l[k] : k \in 1 .. m}]
      BY <1>5, <2>1
    <2>3. l \in Seq({l[k] : k \in 1 .. m}) /\ Len(l) = m
      BY <2>2
    <2>. QED  BY <2>1, <2>3, Zenon DEF IsText
  <1>9. ASSUME NEW k \in 1 .. Len(l) PROVE l[k] = r[k]
    <2>1. CASE k = n + 1
      BY <1>1, <1>2, <1>5, <1>7, <2>1
    <2>2. CASE k # n + 1
      <3>1. k \in 1 .. n /\ k \in 1 .. (n + 1)
        BY <1>1, <1>8, <2>2
      <3>. QED  BY <1>2, <1>4, <1>5, <1>7, <3>1
    <2>. QED  BY <2>1, <2>2
  <1>10. l = r
    BY <1>7, <1>8, <1>9, SameText
  <1>. QED  BY <1>6, <1>10 DEF l, r, s, u, n

\* The digits of a number are its numeral in characters, the last one first;
\* only the numeral of 0 begins with 0.
Spells(d, n, v, base, chars) ==
  /\ IsText(d) /\ IsText(n) /\ Len(d) = Len(n) /\ Len(n) >= 1
  /\ Reverse(d) = Spelled(n, chars)
  /\ v # 0 => n[1] \in 1 .. (base - 1)
  /\ v = 0 => n[1] = 0 /\ Len(n) = 1

LEMMA DigitsSpellNumeral ==
  ASSUME NEW base \in Nat, base >= 2, NEW S, NEW chars, \A k \in 1 .. base : chars[k] \in S,
         NEW value \in Nat
  PROVE  Spells(DigitsOf(value, base, chars), Numeral(value, base), value, base, chars)
  <1>. DEFINE D(v) == DigitsOf(v, base, chars)
              N(v) == Numeral(v, base)
              T == {v \in Nat : Spells(D(v), N(v), v, base, chars)}
  <1>1. ASSUME NEW v \in Nat, v < base PROVE v \in T
    <2>1. v % base = v
      BY <1>1, RemainderSmall
    <2>2. D(v) = <<chars[1 + v]>> \o <<>> /\ N(v) = <<v>>
      BY <1>1, <2>1, DigitsByDivision, NumeralByDivision
    <2>3. IsText(<<chars[1 + v]>>) /\ Len(<<chars[1 + v]>>) = 1 /\ IsText(<<v>>) /\ Len(<<v>>) = 1
      BY OneCharacter
    <2>4. D(v) = <<chars[1 + v]>>
      BY <2>2, <2>3, JoinEmpty
    <2>5. Reverse(<<chars[1 + v]>>) = Spelled(<<v>>, chars)
      <3>. DEFINE t == <<chars[1 + v]>>
                  n == <<v>>
                  l == Reverse(t)
                  r == Spelled(n, chars)
      <3>1. t[1] = chars[1 + v] /\ n[1] = v /\ DOMAIN n = 1 .. 1
        OBVIOUS
      <3>2. l = [k \in 1 .. 1 |-> t[(1 - k) + 1]]
        BY <2>3 DEF Reverse
      <3>3. r = [k \in 1 .. 1 |-> chars[1 + n[k]]]
        BY <3>1 DEF Spelled
      <3>. HIDE DEF t, n, l, r
      <3>4. \A k \in 1 .. 1 : t[(1 - k) + 1] = chars[1 + n[k]]
        BY <3>1
      <3>5. l = r
        BY <3>2, <3>3, <3>4
      <3>. QED  BY <3>5 DEF l, r, t, n
    <2>6. <<v>>[1] = v
      OBVIOUS
    <2>. HIDE DEF D, N
    <2>7. v # 0 => v \in 1 .. (base - 1)
      BY <1>1
    <2>8. IsText(D(v)) /\ IsText(N(v)) /\ Len(D(v)) = Len(N(v)) /\ Len(N(v)) = 1 /\ Len(N(v)) >= 1
      BY <2>2, <2>3, <2>4
    <2>9. Reverse(D(v)) = Spelled(N(v), chars) /\ N(v)[1] = v
      BY <2>2, <2>4, <2>5, <2>6
    <2>10. Spells(D(v), N(v), v, base, chars)
      BY <2>7, <2>8, <2>9, Zenon DEF Spells
    <2>. QED  BY <2>10
  <1>2. ASSUME NEW v \in Nat, v >= base, v \div base \in T PROVE v \in T
    <2>1. PICK q : q = v \div base
      OBVIOUS
    <2>2. PICK e : e = v % base
      OBVIOUS
    <2>3. q \in Nat /\ q # 0
      <3>1. v = base * q + e /\ e \in 0 .. (base - 1)
        BY <2>1, <2>2, DivisionWithRemainder
      <3>2. q \in Nat
        BY <1>2, <2>1, SmallerQuotient
      <3>3. ASSUME q = 0 PROVE FALSE
        <4>1. base * q = 0
          BY <3>3
        <4>. QED  BY <1>2, <3>1, <4>1
      <3>. QED  BY <3>2, <3>3
    <2>4. Spells(D(q), N(q), q, base, chars)
      BY <1>2, <2>1
    <2>. DEFINE c == chars[1 + e]
    <2>5. D(v) = <<c>> \o D(q) /\ N(v) = Append(N(q), e)
      <3>1. ~(v < base)
        BY <1>2
      <3>. QED  BY <2>1, <2>2, <3>1, DigitsByDivision, NumeralByDivision
    <2>. HIDE DEF D, N, c
    <2>6. IsText(<<c>>) /\ Len(<<c>>) = 1 /\ IsText(D(q)) /\ IsText(N(q))
      BY <2>4, OneCharacter DEF Spells
    <2>7. IsText(D(v)) /\ Len(D(v)) = 1 + Len(D(q))
      BY <2>5, <2>6, JoinedText, JoinedParts
    <2>8. IsText(N(v)) /\ Len(N(v)) = Len(N(q)) + 1
      BY <2>5, <2>6, LongerText
    <2>9. Len(N(q)) \in Nat /\ Len(N(q)) >= 1 /\ Len(D(q)) = Len(N(q))
      BY <2>4, <2>6, TextLength DEF Spells
    <2>10. Reverse(D(v)) = Spelled(N(v), chars)
      <3>1. Reverse(D(v)) = Reverse(D(q)) \o Reverse(<<c>>)
        BY <2>5, <2>6, ReverseJoined
      <3>2. Reverse(<<c>>) = <<c>>
        <4>1. <<c>> = Times(c, 1)
          BY DEF Times
        <4>. QED  BY <4>1, ReverseTimes
      <3>3. Reverse(D(q)) \o <<c>> = Append(Reverse(D(q)), c)
        BY <2>6, ReverseIsText, ReverseLonger
      <3>4. Spelled(N(v), chars) = Append(Spelled(N(q), chars), chars[1 + e])
        BY <2>5, <2>6, SpelledLonger
      <3>5. Reverse(D(q)) = Spelled(N(q), chars)
        BY <2>4 DEF Spells
      <3>. QED  BY <3>1, <3>2, <3>3, <3>4, <3>5, Zenon DEF c
    <2>11. N(v)[1] = N(q)[1]
      <3>1. 1 \in DOMAIN N(q)
        BY <2>6, <2>9, TextLength
      <3>. QED  BY <2>5, <2>6, <3>1, EarlierCharacters
    <2>12. N(q)[1] \in 1 .. (base - 1)
      BY <2>3, <2>4 DEF Spells
    <2>13. v # 0
      BY <1>2
    <2>14. Len(D(v)) = Len(N(v)) /\ Len(N(v)) >= 1
      BY <2>7, <2>8, <2>9
    <2>15. Spells(D(v), N(v), v, base, chars)
      BY <2>7, <2>8, <2>10, <2>11, <2>12, <2>13, <2>14, Zenon DEF Spells
    <2>. QED  BY <2>15
  <1>. HIDE DEF T
  <1>3. Nat \subseteq T
    BY <1>1, <1>2, NaturalsByDivision
  <1>. QED  BY <1>3 DEF T

LEMMA TwoCharacters ==
  ASSUME NEW a, NEW b
  PROVE  <<a>> \o <<b>> = <<a, b>>
  <1>. DEFINE l == <<a>> \o <<b>>
              r == <<a, b>>
  <1>1. IsText(<<a>>) /\ IsText(<<b>>) /\ Len(<<a>>) = 1 /\ Len(<<b>>) = 1 /\ <<a>>[1] = a /\ <<b>>[1] = b
    BY OneCharacter
  <1>2. IsText(l) /\ Len(l) = 1 + 1
    BY <1>1, JoinedText, JoinedParts
  <1>3. l[1] = a /\ l[1 + 1] = b
    BY <1>1, JoinedParts
  <1>. HIDE DEF l
  <1>4. r \in Seq({a, b}) /\ Len(r) = 2 /\ r[1] = a /\ r[2] = b
    OBVIOUS
  <1>. HIDE DEF r
  <1>5. IsText(r)
    BY <1>4, Zenon DEF IsText
  <1>6. Len(l) = 2 /\ l[2] = b
    BY <1>2, <1>3
  <1>7. \A k \in 1 .. Len(l) : l[k] = r[k]
    BY <1>3, <1>4, <1>6
  <1>8. l = r
    BY <1>2, <1>4, <1>5, <1>6, <1>7, SameText
  <1>. QED  BY <1>8 DEF l, r

LEMMA PutShown ==
  ASSUME NEW buf, NEW c, IsText(buf), Len(buf) + 1 <= NtoaBuffer
  PROVE  /\ IsText(Put(buf, c)) /\ Len(Put(buf, c)) = Len(buf) + 1
         /\ Reverse(Put(buf, c)) = <<c>> \o Reverse(buf)
  <1>1. Len(buf) < NtoaBuffer
    BY TextLength, KprintfAssumption
  <1>2. Put(buf, c) = Append(buf, c)
    BY <1>1 DEF Put
  <1>. QED  BY <1>2, LongerText, ReverseLonger

LEMMA PutZerosShown ==
  ASSUME NEW buf, IsText(buf), NEW n \in Nat, n <= NtoaBuffer
  PROVE  /\ PutZeros(buf, n) = buf \o Times("0", n - Len(buf))
         /\ IsText(PutZeros(buf, n))
         /\ Len(PutZeros(buf, n)) = IF n > Len(buf) THEN n ELSE Len(buf)
         /\ Reverse(PutZeros(buf, n)) = Times("0", n - Len(buf)) \o Reverse(buf)
         /\ n <= Len(buf) => PutZeros(buf, n) = buf
  <1>. DEFINE l == Len(buf)
              zeros == Times("0", n - l)
  <1>1. l \in Nat /\ NtoaBuffer \in Nat
    BY TextLength, KprintfAssumption
  <1>2. Smaller(n, NtoaBuffer) = n
    BY <1>1 DEF Smaller
  <1>3. PutZeros(buf, n) = buf \o zeros
    BY <1>2, Zenon DEF PutZeros
  <1>. HIDE DEF l
  <1>4. n - l \in Int
    BY <1>1
  <1>5. IsText(zeros) /\ Reverse(zeros) = zeros
    BY <1>4, TimesIsText, ReverseTimes
  <1>6. Len(zeros) = IF n - l > 0 THEN n - l ELSE 0
    BY <1>4, TimesParts
  <1>7. n - l <= 0 => zeros = <<>>
    BY <1>4, TimesParts
  <1>. HIDE DEF zeros
  <1>8. IsText(buf \o zeros) /\ Len(buf \o zeros) = l + Len(zeros)
    BY <1>5, JoinedText, JoinedParts DEF l
  <1>9. Reverse(buf \o zeros) = zeros \o Reverse(buf)
    BY <1>5, ReverseJoined
  <1>10. n <= l => buf \o zeros = buf
    <2>1. n <= l => zeros = <<>>
      BY <1>1, <1>7
    <2>. QED  BY <2>1, JoinEmpty
  <1>11. Len(buf \o zeros) = IF n > l THEN n ELSE l
    BY <1>1, <1>6, <1>8
  <1>. QED  BY <1>3, <1>8, <1>9, <1>10, <1>11, Zenon DEF zeros, l

\* What is left of a text when it loses zeros from its end.
LEMMA FewerZeros ==
  ASSUME NEW t, IsText(t), NEW m \in Nat, NEW n \in Nat, n <= m
  PROVE  SubSeq(t \o Times("0", m), 1, Len(t) + n) = t \o Times("0", n)
  <1>. DEFINE z == Times("0", m)
              y == Times("0", n)
              a == t \o z
              k == Len(t) + n
              l == SubSeq(a, 1, k)
              r == t \o y
  <1>1. Len(t) \in Nat
    BY TextLength
  <1>2. IsText(z) /\ Len(z) = m /\ \A p \in 1 .. m : z[p] = "0"
    <2>1. Len(z) = m
      BY TimesParts
    <2>. QED  BY <2>1, TimesParts, TimesIsText
  <1>3. IsText(y) /\ Len(y) = n /\ \A p \in 1 .. n : y[p] = "0"
    <2>1. Len(y) = n
      BY TimesParts
    <2>. QED  BY <2>1, TimesParts, TimesIsText
  <1>. HIDE DEF z, y
  <1>4. IsText(a) /\ Len(a) = Len(t) + m
        /\ \A p \in 1 .. Len(a) : a[p] = IF p <= Len(t) THEN t[p] ELSE z[p - Len(t)]
    BY <1>2, JoinedText, JoinedParts
  <1>5. IsText(r) /\ Len(r) = Len(t) + n
        /\ \A p \in 1 .. Len(r) : r[p] = IF p <= Len(t) THEN t[p] ELSE y[p - Len(t)]
    BY <1>3, JoinedText, JoinedParts
  <1>. HIDE DEF a, r
  <1>6. k \in 0 .. Len(a) /\ k \in Nat
    BY <1>1, <1>4
  <1>7. IsText(l)
    BY <1>4, <1>6, PrefixIsText
  <1>8. Len(l) = k /\ \A p \in 1 .. k : l[p] = a[p]
    <2>1. PICK S : a \in Seq(S)
      BY <1>4, Zenon DEF IsText
    <2>2. \A p \in 1 .. k : a[p] \in S
      BY <1>1, <1>4, <2>1, ElementOfSeq
    <2>. HIDE DEF k
    <2>. QED  BY <1>6, <2>2, SubSeqProperties
  <1>. HIDE DEF l
  <1>9. ASSUME NEW p \in 1 .. Len(l) PROVE l[p] = r[p]
    <2>1. p \in 1 .. Len(a) /\ p \in 1 .. Len(r) /\ l[p] = a[p]
      BY <1>1, <1>4, <1>5, <1>8
    <2>2. p > Len(t) => p - Len(t) \in 1 .. n /\ p - Len(t) \in 1 .. m
      BY <1>1, <1>8
    <2>3. CASE p <= Len(t)
      BY <1>4, <1>5, <2>1, <2>3
    <2>4. CASE ~(p <= Len(t))
      <3>1. p > Len(t)
        BY <1>1, <2>4
      <3>2. PICK i0 \in 1 .. n : i0 = p - Len(t)
        BY <2>2, <3>1
      <3>3. z[i0] = "0" /\ y[i0] = "0"
        BY <1>2, <1>3
      <3>4. a[p] = z[i0] /\ r[p] = y[i0]
        BY <1>4, <1>5, <2>1, <2>4, <3>2
      <3>. QED  BY <2>1, <3>3, <3>4
    <2>. QED  BY <2>3, <2>4
  <1>10. l = r
    BY <1>5, <1>7, <1>8, <1>9, SameText
  <1>. QED  BY <1>10 DEF l, r, a, k, z, y

\* What _ntoa_format puts in front of the digits.
SignText(negative, flags) ==
  IF negative THEN <<"-">> ELSE IF "PLUS" \in flags THEN <<"+">> ELSE IF "SPACE" \in flags THEN <<" ">> ELSE <<>>
XOf(flags) == IF "UPPERCASE" \in flags THEN "X" ELSE "x"
MarkText(base, flags) == IF base = 16 THEN <<"0", XOf(flags)>> ELSE <<"0">>
PrefixText(negative, base, flags) ==
  IF "HASH" \in flags THEN MarkText(base, flags) ELSE SignText(negative, flags)

\* A prefix and digits in a width.
Laid(prefix, digits, width, flags) ==
  IF "ZEROPAD" \in flags /\ "LEFT" \notin flags
    THEN (prefix \o Times("0", width - Len(prefix) - Len(digits))) \o digits
  ELSE IF "LEFT" \in flags THEN (prefix \o digits) \o Times(" ", width - Len(prefix \o digits))
  ELSE Times(" ", width - Len(prefix \o digits)) \o (prefix \o digits)

\* The characters of all, from the last to the first, are front and buf's.
InFront(all, front, buf) ==
  /\ IsText(all) /\ Len(all) = Len(front) + Len(buf)
  /\ Reverse(all) = front \o Reverse(buf)

LEMMA SignShown ==
  ASSUME NEW buf, IsText(buf), NEW negative \in BOOLEAN, NEW flags,
         Len(SignText(negative, flags)) + Len(buf) <= NtoaBuffer
  PROVE  /\ InFront(Sign(buf, negative, flags), SignText(negative, flags), buf)
         /\ IsText(SignText(negative, flags)) /\ Len(SignText(negative, flags)) \in {0, 1}
         /\ ~(negative \/ {"PLUS", "SPACE"} \intersect flags # {}) => SignText(negative, flags) = <<>>
         /\ negative \/ {"PLUS", "SPACE"} \intersect flags # {} => Len(SignText(negative, flags)) = 1
  <1>. DEFINE Holds(t, signed) == InFront(signed, t, buf) /\ IsText(t) /\ Len(t) \in {0, 1}
  <1>1. ASSUME NEW c, SignText(negative, flags) = <<c>> PROVE Holds(<<c>>, Put(buf, c)) /\ Len(<<c>>) = 1
    <2>1. IsText(<<c>>) /\ Len(<<c>>) = 1
      BY OneCharacter
    <2>2. Len(buf) \in Nat
      BY TextLength
    <2>3. Len(buf) + 1 <= NtoaBuffer
      <3>1. NtoaBuffer \in Nat
        BY KprintfAssumption
      <3>2. Len(<<c>>) + Len(buf) <= NtoaBuffer
        BY <1>1
      <3>. QED  BY <2>1, <2>2, <3>1, <3>2
    <2>4. /\ IsText(Put(buf, c)) /\ Len(Put(buf, c)) = Len(buf) + 1
          /\ Reverse(Put(buf, c)) = <<c>> \o Reverse(buf)
      BY <2>3, PutShown
    <2>5. Len(buf) + 1 = 1 + Len(buf)
      BY <2>2
    <2>. QED  BY <2>1, <2>4, <2>5 DEF InFront
  <1>2. Holds(<<>>, buf) /\ Len(<<>>) = 0
    <2>1. IsText(Reverse(buf)) /\ Len(<<>>) = 0 /\ Len(buf) \in Nat
      BY ReverseIsText, EmptySeq, TextLength
    <2>. QED  BY <2>1, JoinEmpty, EmptyText DEF InFront
  <1>. HIDE DEF Holds
  <1>3. CASE negative
    <2>1. SignText(negative, flags) = <<"-">> /\ Sign(buf, negative, flags) = Put(buf, "-")
      BY <1>3, Zenon DEF SignText, Sign
    <2>. QED  BY <1>1, <1>3, <2>1, Zenon DEF Holds
  <1>4. CASE ~negative /\ "PLUS" \in flags
    <2>1. SignText(negative, flags) = <<"+">> /\ Sign(buf, negative, flags) = Put(buf, "+")
      BY <1>4, Zenon DEF SignText, Sign
    <2>2. {"PLUS", "SPACE"} \intersect flags # {}
      BY <1>4
    <2>. QED  BY <1>1, <2>1, <2>2, Zenon DEF Holds
  <1>5. CASE ~negative /\ "PLUS" \notin flags /\ "SPACE" \in flags
    <2>1. SignText(negative, flags) = <<" ">> /\ Sign(buf, negative, flags) = Put(buf, " ")
      BY <1>5, Zenon DEF SignText, Sign
    <2>2. {"PLUS", "SPACE"} \intersect flags # {}
      BY <1>5
    <2>. QED  BY <1>1, <2>1, <2>2, Zenon DEF Holds
  <1>6. CASE ~negative /\ "PLUS" \notin flags /\ "SPACE" \notin flags
    <2>1. SignText(negative, flags) = <<>> /\ Sign(buf, negative, flags) = buf
      BY <1>6, Zenon DEF SignText, Sign
    <2>2. {"PLUS", "SPACE"} \intersect flags = {}
      BY <1>6
    <2>. QED  BY <1>2, <1>6, <2>1, <2>2, Zenon DEF Holds
  <1>. QED  BY <1>3, <1>4, <1>5, <1>6, Zenon

LEMMA MarkIsText ==
  ASSUME NEW base, NEW flags
  PROVE  IsText(MarkText(base, flags)) /\ Len(MarkText(base, flags)) = IF base = 16 THEN 2 ELSE 1
  <1>. DEFINE x == XOf(flags)
  <1>. HIDE DEF x
  <1>1. <<"0", x>> \in Seq({"0", x}) /\ Len(<<"0", x>>) = 2 /\ Len(<<"0">>) = 1
    OBVIOUS
  <1>2. IsText(<<"0", x>>) /\ IsText(<<"0">>)
    BY <1>1, OneCharacter, Zenon DEF IsText
  <1>. QED  BY <1>1, <1>2 DEF MarkText, x

\* The digits that are left, with the mark in front.
LEMMA MarkShown ==
  ASSUME NEW buf, IsText(buf), NEW base \in {8, 16}, NEW flags,
         Len(MarkText(base, flags)) + Len(buf) <= NtoaBuffer
  PROVE  LET marked == IF base = 16 THEN Put(buf, XOf(flags)) ELSE buf
             all    == Put(marked, "0")
         IN InFront(all, MarkText(base, flags), buf)
  <1>. DEFINE x == XOf(flags)
              one == Put(buf, x)
              two == Put(one, "0")
              r == Reverse(buf)
  <1>1. Len(buf) \in Nat /\ NtoaBuffer \in Nat /\ IsText(r)
    BY TextLength, KprintfAssumption, ReverseIsText
  <1>2. Len(MarkText(base, flags)) = IF base = 16 THEN 2 ELSE 1
    BY MarkIsText
  <1>. HIDE DEF x, r
  <1>3. CASE base = 16
    <2>1. Len(buf) + 1 <= NtoaBuffer /\ Len(buf) + 2 <= NtoaBuffer
      BY <1>1, <1>2, <1>3
    <2>2. IsText(one) /\ Len(one) = Len(buf) + 1 /\ Reverse(one) = <<x>> \o r
      BY <2>1, PutShown DEF r
    <2>. HIDE DEF one
    <2>3. Len(one) + 1 <= NtoaBuffer
      BY <1>1, <2>1, <2>2
    <2>4. IsText(two) /\ Len(two) = Len(one) + 1 /\ Reverse(two) = <<"0">> \o Reverse(one)
      BY <2>2, <2>3, PutShown
    <2>. HIDE DEF two
    <2>5. IsText(<<"0">>) /\ IsText(<<x>>)
      BY OneCharacter
    <2>6. <<"0">> \o (<<x>> \o r) = (<<"0">> \o <<x>>) \o r
      BY <1>1, <2>5, JoinAssociative
    <2>7. <<"0">> \o <<x>> = <<"0", x>>
      BY TwoCharacters
    <2>8. Reverse(two) = <<"0", x>> \o r
      BY <2>2, <2>4, <2>6, <2>7, Zenon
    <2>9. Len(two) = 2 + Len(buf)
      BY <1>1, <2>2, <2>4
    <2>10. MarkText(base, flags) = <<"0", x>>
      BY <1>3, Zenon DEF MarkText, x
    <2>. QED  BY <1>2, <1>3, <2>4, <2>8, <2>9, <2>10, Zenon DEF InFront, two, one, x, r
  <1>4. CASE base = 8
    <2>1. base # 16
      BY <1>4
    <2>2. Len(buf) + 1 <= NtoaBuffer
      BY <1>1, <1>2, <2>1
    <2>. DEFINE all == Put(buf, "0")
    <2>3. IsText(all) /\ Len(all) = Len(buf) + 1 /\ Reverse(all) = <<"0">> \o r
      BY <2>2, PutShown DEF r
    <2>4. Len(all) = 1 + Len(buf)
      BY <1>1, <2>3
    <2>5. MarkText(base, flags) = <<"0">>
      BY <2>1, Zenon DEF MarkText
    <2>. QED  BY <1>2, <2>1, <2>3, <2>4, <2>5, Zenon DEF InFront, r
  <1>. QED  BY <1>3, <1>4

LEMMA NoHash ==
  ASSUME NEW buf, NEW base, NEW prec, NEW width, NEW flags, "HASH" \notin flags
  PROVE  HashPrefix(buf, base, prec, width, flags) = buf
  BY Zenon DEF HashPrefix

\* No digit gives way to a mark.
Kept(buf, prec, width, flags) == "PRECISION" \in flags \/ Len(buf) \notin {prec, width}

LEMMA HashBefore ==
  ASSUME NEW buf, IsText(buf), NEW base \in {8, 16}, NEW prec, NEW width, NEW flags, "HASH" \in flags,
         Kept(buf, prec, width, flags),
         Len(MarkText(base, flags)) + Len(buf) <= NtoaBuffer
  PROVE  InFront(HashPrefix(buf, base, prec, width, flags), MarkText(base, flags), buf)
  <1>. DEFINE len == Len(buf)
              full == "PRECISION" \notin flags /\ len > 0 /\ len \in {prec, width}
              kept == CASE ~full -> len
                        [] full /\ base = 16 /\ len > 1 -> len - 2
                        [] OTHER -> len - 1
              rest == SubSeq(buf, 1, kept)
              marked == CASE base = 16 -> Put(rest, IF "UPPERCASE" \in flags THEN "X" ELSE "x")
                          [] base = 2  -> Put(rest, "b")
                          [] OTHER     -> rest
              plain == IF base = 16 THEN Put(rest, XOf(flags)) ELSE rest
  <1>1. ~full
    BY DEF Kept
  <1>2. kept = len
    BY <1>1, Zenon
  <1>. HIDE DEF kept, full
  <1>3. rest = buf
    <2>1. PICK S : buf \in Seq(S)
      BY Zenon DEF IsText
    <2>2. SubSeq(buf, 1, Len(buf)) = buf
      BY <2>1
    <2>. QED  BY <1>2, <2>2
  <1>. HIDE DEF rest
  <1>4. marked = plain
    <2>1. CASE base = 16
      <3>1. base # 2
        BY <2>1
      <3>. QED  BY <2>1, <3>1, Zenon DEF XOf
    <2>2. CASE base = 8
      <3>1. base # 16 /\ base # 2
        BY <2>2
      <3>. QED  BY <3>1, Zenon
    <2>. QED  BY <2>1, <2>2
  <1>. HIDE DEF marked
  <1>5. HashPrefix(buf, base, prec, width, flags) = Put(marked, "0")
    BY Zenon DEF HashPrefix, marked, rest, kept, full
  <1>6. HashPrefix(buf, base, prec, width, flags) = Put(IF base = 16 THEN Put(buf, XOf(flags)) ELSE buf, "0")
    BY <1>3, <1>4, <1>5
  <1>7. LET all == Put(IF base = 16 THEN Put(buf, XOf(flags)) ELSE buf, "0")
        IN InFront(all, MarkText(base, flags), buf)
    BY MarkShown
  <1>. QED  BY <1>6, <1>7, Zenon

\* The zeros that fill the width give way to the mark.
MarkInZeros(buf, zeros, base, prec, flags) ==
  Reverse(HashPrefix(buf \o Times("0", zeros), base, prec, Len(buf) + zeros, flags))
    = MarkText(base, flags) \o (Times("0", zeros - Len(MarkText(base, flags))) \o Reverse(buf))

LEMMA HashInZeros ==
  ASSUME NEW buf, IsText(buf), NEW zeros \in Nat, NEW base \in {8, 16}, NEW prec, NEW flags, "HASH" \in flags,
         "PRECISION" \notin flags, Len(buf) > 0, Len(MarkText(base, flags)) <= zeros,
         Len(buf) + zeros <= NtoaBuffer
  PROVE  MarkInZeros(buf, zeros, base, prec, flags)
  <1>. DEFINE mark == MarkText(base, flags)
              filled == buf \o Times("0", zeros)
              width == Len(buf) + zeros
              len == Len(filled)
              full == "PRECISION" \notin flags /\ len > 0 /\ len \in {prec, width}
              kept == CASE ~full -> len
                        [] full /\ base = 16 /\ len > 1 -> len - 2
                        [] OTHER -> len - 1
              rest == SubSeq(filled, 1, kept)
              marked == CASE base = 16 -> Put(rest, IF "UPPERCASE" \in flags THEN "X" ELSE "x")
                          [] base = 2  -> Put(rest, "b")
                          [] OTHER     -> rest
              plain == IF base = 16 THEN Put(rest, XOf(flags)) ELSE rest
              left == zeros - Len(mark)
  <1>1. Len(buf) \in Nat /\ NtoaBuffer \in Nat
    BY TextLength, KprintfAssumption
  <1>2. Len(mark) = (IF base = 16 THEN 2 ELSE 1) /\ IsText(mark)
    BY MarkIsText
  <1>3. len = width
    <2>1. IsText(Times("0", zeros)) /\ Len(Times("0", zeros)) = zeros
      BY TimesIsText, TimesParts
    <2>. QED  BY <2>1, JoinedParts
  <1>14. Len(mark) <= zeros
    OBVIOUS
  <1>. HIDE DEF mark
  <1>15. len \in Nat /\ len > 1 /\ len > 0
    <2>1. width \in Nat /\ width > 1
      BY <1>1, <1>2, <1>14
    <2>. QED  BY <1>3, <2>1
  <1>4. full /\ len \in Nat /\ len > 1
    BY <1>3, <1>15
  <1>. HIDE DEF filled, len
  <1>5. kept = len - Len(mark)
    <2>1. CASE base = 16
      <3>1. kept = len - 2
        BY <1>4, <2>1, Zenon
      <3>. QED  BY <1>2, <2>1, <3>1
    <2>2. CASE base = 8
      <3>1. base # 16
        BY <2>2
      <3>2. kept = len - 1
        BY <1>4, <3>1, Zenon
      <3>. QED  BY <1>2, <3>1, <3>2
    <2>. QED  BY <2>1, <2>2
  <1>6. left \in Nat /\ left <= zeros /\ kept = Len(buf) + left
    BY <1>1, <1>2, <1>3, <1>5, <1>14
  <1>. HIDE DEF kept, full, left
  <1>7. rest = buf \o Times("0", left)
    BY <1>6, FewerZeros DEF filled
  <1>8. IsText(rest) /\ Len(rest) = Len(buf) + left /\ Reverse(rest) = Times("0", left) \o Reverse(buf)
    <2>1. IsText(Times("0", left)) /\ Len(Times("0", left)) = left /\ Reverse(Times("0", left)) = Times("0", left)
      BY <1>6, TimesIsText, TimesParts, ReverseTimes
    <2>2. rest = buf \o Times("0", left)
      BY <1>7
    <2>3. IsText(buf \o Times("0", left))
      BY <2>1, JoinedText
    <2>4. Len(buf \o Times("0", left)) = Len(buf) + Len(Times("0", left))
      BY <2>1, JoinedParts
    <2>5. Reverse(buf \o Times("0", left)) = Reverse(Times("0", left)) \o Reverse(buf)
      BY <2>1, ReverseJoined
    <2>. QED  BY <2>1, <2>2, <2>3, <2>4, <2>5, Zenon
  <1>. HIDE DEF rest
  <1>9. marked = plain
    <2>1. CASE base = 16
      <3>1. base # 2
        BY <2>1
      <3>. QED  BY <2>1, <3>1, Zenon DEF XOf
    <2>2. CASE base = 8
      <3>1. base # 16 /\ base # 2
        BY <2>2
      <3>. QED  BY <3>1, Zenon
    <2>. QED  BY <2>1, <2>2
  <1>. HIDE DEF marked
  <1>10. HashPrefix(filled, base, prec, width, flags) = Put(marked, "0")
    BY Zenon DEF HashPrefix, marked, rest, kept, full, len
  <1>11. HashPrefix(filled, base, prec, width, flags) = Put(IF base = 16 THEN Put(rest, XOf(flags)) ELSE rest, "0")
    BY <1>9, <1>10
  <1>12. Len(mark) + Len(rest) = Len(buf) + zeros
    BY <1>1, <1>2, <1>6, <1>8 DEF left
  <1>13. LET all == Put(IF base = 16 THEN Put(rest, XOf(flags)) ELSE rest, "0")
         IN InFront(all, MarkText(base, flags), rest)
    <2>1. Len(MarkText(base, flags)) + Len(rest) <= NtoaBuffer
      BY <1>12 DEF mark
    <2>. QED  BY <1>8, <2>1, MarkShown
  <1>. QED  BY <1>8, <1>11, <1>12, <1>13, Zenon DEF InFront, MarkInZeros, filled, left, mark

\* The digits with the zeros that the precision asks for; none are added to a
\* number that is padded behind.
Zeroed(digits, prec, flags) == IF "LEFT" \in flags THEN digits ELSE Times("0", prec - Len(digits)) \o digits

\* What _ntoa_format is given when C promises what it prints; n is the
\* number of digits.
Admitted(n, negative, base, prec, width, flags) ==
  /\ negative \in BOOLEAN /\ prec \in Nat /\ width \in Nat /\ prec <= NtoaBuffer /\ width <= NtoaBuffer
  /\ "PRECISION" \notin flags => prec = 0
  /\ "ZEROPAD" \in flags => "PRECISION" \notin flags
  /\ "HASH" \in flags => base \in {8, 16} /\ ~negative /\ {"PLUS", "SPACE"} \intersect flags = {}
  /\ "HASH" \in flags /\ "PRECISION" \notin flags => n > 0 /\ width # n
  /\ "HASH" \in flags /\ "ZEROPAD" \in flags /\ "LEFT" \notin flags /\ base = 16 => width # n + 1

LEMMA ZeroedText ==
  ASSUME NEW t, IsText(t), NEW prec \in Nat, NEW flags
  PROVE  /\ IsText(Zeroed(t, prec, flags))
         /\ "LEFT" \in flags \/ prec <= Len(t) => Zeroed(t, prec, flags) = t
         /\ "LEFT" \notin flags => Len(Zeroed(t, prec, flags)) = IF prec > Len(t) THEN prec ELSE Len(t)
  <1>. DEFINE n == Len(t)
              zeros == Times("0", prec - n)
  <1>1. n \in Nat
    BY TextLength
  <1>. HIDE DEF n
  <1>2. prec - n \in Int
    BY <1>1
  <1>3. IsText(zeros) /\ Len(zeros) = (IF prec - n > 0 THEN prec - n ELSE 0) /\ (prec - n <= 0 => zeros = <<>>)
    BY <1>2, TimesIsText, TimesParts
  <1>. HIDE DEF zeros
  <1>4. IsText(zeros \o t) /\ Len(zeros \o t) = Len(zeros) + n
    BY <1>3, JoinedText, JoinedParts DEF n
  <1>5. prec <= n => zeros \o t = t
    <2>1. prec <= n => zeros = <<>>
      BY <1>1, <1>3
    <2>. QED  BY <2>1, JoinEmpty
  <1>6. Len(zeros \o t) = IF prec > n THEN prec ELSE n
    BY <1>1, <1>3, <1>4
  <1>7. Zeroed(t, prec, flags) = IF "LEFT" \in flags THEN t ELSE zeros \o t
    BY Zenon DEF Zeroed, zeros, n
  <1>. QED  BY <1>4, <1>5, <1>6, <1>7, Zenon DEF n

Prefixed(buf, negative, base, prec, width, flags) ==
  Sign(HashPrefix(buf, base, prec, width, flags), negative, flags)

\* The mark or the sign in front of digits whose zeros are written.
LEMMA PrefixShown ==
  ASSUME NEW buf, IsText(buf), NEW n, NEW negative, NEW base, NEW prec, NEW width, NEW w, NEW flags,
         Admitted(n, negative, base, prec, width, flags),
         "HASH" \in flags => Kept(buf, prec, w, flags),
         Len(PrefixText(negative, base, flags)) + Len(buf) <= NtoaBuffer
  PROVE  InFront(Prefixed(buf, negative, base, prec, w, flags), PrefixText(negative, base, flags), buf)
  <1>1. negative \in BOOLEAN
    BY DEF Admitted
  <1>2. CASE "HASH" \notin flags
    <2>1. HashPrefix(buf, base, prec, w, flags) = buf /\ PrefixText(negative, base, flags) = SignText(negative, flags)
      BY <1>2, NoHash DEF PrefixText
    <2>2. Len(SignText(negative, flags)) + Len(buf) <= NtoaBuffer
      BY <2>1
    <2>3. Prefixed(buf, negative, base, prec, w, flags) = Sign(buf, negative, flags)
      BY <2>1 DEF Prefixed
    <2>4. InFront(Sign(buf, negative, flags), SignText(negative, flags), buf)
      BY <1>1, <2>2, SignShown
    <2>. QED  BY <2>1, <2>3, <2>4, Zenon
  <1>3. CASE "HASH" \in flags
    <2>1. base \in {8, 16} /\ ~negative /\ {"PLUS", "SPACE"} \intersect flags = {}
      BY <1>3 DEF Admitted
    <2>2. PrefixText(negative, base, flags) = MarkText(base, flags)
      BY <1>3 DEF PrefixText
    <2>. DEFINE marked == HashPrefix(buf, base, prec, w, flags)
    <2>3. InFront(marked, MarkText(base, flags), buf)
      <3>1. Len(MarkText(base, flags)) + Len(buf) <= NtoaBuffer
        BY <2>2
      <3>2. Kept(buf, prec, w, flags)
        BY <1>3
      <3>. QED  BY <1>3, <2>1, <3>1, <3>2, HashBefore, Zenon
    <2>. HIDE DEF marked
    <2>4. Sign(marked, negative, flags) = marked
      BY <2>1, Zenon DEF Sign
    <2>. QED  BY <2>2, <2>3, <2>4, Zenon DEF marked, Prefixed
  <1>. QED  BY <1>2, <1>3

LEMMA ReversedLength ==
  ASSUME NEW t, IsText(t) PROVE IsText(Reverse(t)) /\ Len(Reverse(t)) = Len(t) /\ Len(t) \in Nat
  BY ReverseIsText, ReverseParts, TextLength

\* Padded with spaces.
LEMMA FormatWithSpaces ==
  ASSUME NEW buf, IsText(buf), NEW negative, NEW base, NEW prec, NEW width, NEW flags,
         Admitted(Len(buf), negative, base, prec, width, flags),
         ~("ZEROPAD" \in flags /\ "LEFT" \notin flags),
         Len(PrefixText(negative, base, flags)) + Len(Zeroed(Reverse(buf), prec, flags)) <= NtoaBuffer
  PROVE  _ntoa_format(buf, negative, base, prec, width, flags)
           = Laid(PrefixText(negative, base, flags), Zeroed(Reverse(buf), prec, flags), width, flags)
  <1>. DEFINE w      == WidthOfZeros(negative, width, flags)
              zeros  == LeadingZeros(buf, prec, w, flags)
              all    == Prefixed(zeros, negative, base, prec, w, flags)
              digits == Zeroed(Reverse(buf), prec, flags)
              prefix == PrefixText(negative, base, flags)
  <1>1. w = width
    BY Zenon DEF WidthOfZeros
  <1>. HIDE DEF w
  <1>2. prec \in Nat /\ prec <= NtoaBuffer
    BY DEF Admitted
  <1>3. IsText(zeros) /\ Reverse(zeros) = digits /\ (prec = 0 => zeros = buf)
    <2>1. CASE "LEFT" \in flags
      <3>1. zeros = buf
        BY <2>1, Zenon DEF LeadingZeros
      <3>2. digits = Reverse(buf)
        BY <2>1, Zenon DEF Zeroed
      <3>. QED  BY <3>1, <3>2
    <2>2. CASE "LEFT" \notin flags
      <3>1. zeros = PutZeros(buf, prec)
        BY <2>2, Zenon DEF LeadingZeros
      <3>2. digits = Times("0", prec - Len(buf)) \o Reverse(buf)
        BY <2>2, ReversedLength DEF Zeroed
      <3>3. /\ IsText(PutZeros(buf, prec)) /\ Reverse(PutZeros(buf, prec)) = Times("0", prec - Len(buf)) \o Reverse(buf)
            /\ prec <= Len(buf) => PutZeros(buf, prec) = buf
        BY <1>2, PutZerosShown
      <3>4. prec = 0 => prec <= Len(buf)
        BY ReversedLength
      <3>. QED  BY <3>1, <3>2, <3>3, <3>4
    <2>. QED  BY <2>1, <2>2
  <1>. HIDE DEF zeros, digits
  <1>4. Len(digits) = Len(zeros)
    BY <1>3, ReversedLength
  <1>5. "HASH" \in flags => Kept(zeros, prec, w, flags)
    <2>. SUFFICES ASSUME "HASH" \in flags, "PRECISION" \notin flags PROVE Len(zeros) \notin {prec, w}
      BY DEF Kept
    <2>1. prec = 0 /\ Len(buf) > 0 /\ width # Len(buf)
      BY DEF Admitted
    <2>2. zeros = buf /\ Len(buf) \in Nat
      BY <1>3, <2>1, ReversedLength
    <2>. QED  BY <1>1, <2>1, <2>2
  <1>6. /\ IsText(all) /\ Len(all) = Len(prefix) + Len(zeros)
        /\ Reverse(all) = prefix \o digits
    <2>1. Len(PrefixText(negative, base, flags)) + Len(zeros) <= NtoaBuffer
      BY <1>4 DEF digits
    <2>2. InFront(Prefixed(zeros, negative, base, prec, w, flags), PrefixText(negative, base, flags), zeros)
      BY <1>3, <1>5, <2>1, PrefixShown, Zenon
    <2>. QED  BY <1>3, <2>2 DEF InFront
  <1>. HIDE DEF all, prefix
  <1>7. Len(prefix \o digits) = Len(all)
    BY <1>6, ReversedLength
  <1>8. _out_rev(all, width, flags) = Laid(prefix, digits, width, flags)
    <2>1. CASE "LEFT" \in flags
      <3>1. _out_rev(all, width, flags) = Reverse(all) \o Times(" ", width - Len(all))
        BY <2>1, Zenon DEF _out_rev
      <3>2. Laid(prefix, digits, width, flags) = (prefix \o digits) \o Times(" ", width - Len(prefix \o digits))
        BY <2>1, Zenon DEF Laid
      <3>. QED  BY <1>6, <1>7, <3>1, <3>2, Zenon
    <2>2. CASE "LEFT" \notin flags
      <3>1. "ZEROPAD" \notin flags /\ {"LEFT", "ZEROPAD"} \intersect flags = {}
        BY <2>2
      <3>2. _out_rev(all, width, flags) = Times(" ", width - Len(all)) \o Reverse(all)
        BY <2>2, <3>1, Zenon DEF _out_rev
      <3>3. Laid(prefix, digits, width, flags) = Times(" ", width - Len(prefix \o digits)) \o (prefix \o digits)
        BY <2>2, <3>1, Zenon DEF Laid
      <3>. QED  BY <1>6, <1>7, <3>2, <3>3, Zenon
    <2>. QED  BY <2>1, <2>2
  <1>9. _ntoa_format(buf, negative, base, prec, width, flags) = _out_rev(all, w, flags)
    BY Zenon DEF _ntoa_format, Prefixed, all, zeros, w
  <1>. QED  BY <1>1, <1>8, <1>9, Zenon DEF digits, prefix

\* The room that a prefix of p characters leaves for the zeros, w wide.
ZerosLeave(p, w, width) ==
  \/ p = 0 /\ w = width
  \/ p = 1 /\ width > 0 /\ w = width - 1
  \/ p = 1 /\ width = 0 /\ w = 0

LEMMA RoomForZeros ==
  ASSUME NEW p \in Nat, NEW n \in Nat, NEW width \in Nat, NEW w \in Nat, ZerosLeave(p, w, width),
         NtoaBuffer \in Nat, width <= NtoaBuffer, p + n <= NtoaBuffer
  PROVE  /\ p + (IF w > n THEN w ELSE n) <= NtoaBuffer
         /\ \/ w - n = width - p - n
            \/ w - n <= 0 /\ width - p - n <= 0
  BY DEF ZerosLeave

\* Padded with zeros.
LEMMA FormatWithZeros ==
  ASSUME NEW buf, IsText(buf), NEW negative, NEW base, NEW prec, NEW width, NEW flags,
         Admitted(Len(buf), negative, base, prec, width, flags),
         "ZEROPAD" \in flags, "LEFT" \notin flags,
         Len(PrefixText(negative, base, flags)) + Len(Zeroed(Reverse(buf), prec, flags)) <= NtoaBuffer
  PROVE  _ntoa_format(buf, negative, base, prec, width, flags)
           = Laid(PrefixText(negative, base, flags), Zeroed(Reverse(buf), prec, flags), width, flags)
  <1>. DEFINE n      == Len(buf)
              w      == WidthOfZeros(negative, width, flags)
              zeros  == LeadingZeros(buf, prec, w, flags)
              all    == Prefixed(zeros, negative, base, prec, w, flags)
              r      == Reverse(buf)
              prefix == PrefixText(negative, base, flags)
              more   == width - Len(prefix) - n
  <1>1. /\ "PRECISION" \notin flags /\ prec = 0 /\ width \in Nat /\ width <= NtoaBuffer
        /\ negative \in BOOLEAN /\ NtoaBuffer \in Nat
    BY KprintfAssumption DEF Admitted
  <1>17. width \in Nat /\ width <= NtoaBuffer /\ NtoaBuffer \in Nat
    BY <1>1
  <1>2. n \in Nat /\ IsText(r) /\ Len(r) = n
    BY ReversedLength
  <1>3. Zeroed(r, prec, flags) = r
    <2>1. prec \in Nat /\ prec <= Len(r)
      BY <1>1, <1>2
    <2>. HIDE DEF r
    <2>. QED  BY <1>2, <2>1, ZeroedText
  <1>4. Len(prefix) + n <= NtoaBuffer
    BY <1>2, <1>3
  <1>5. Len(prefix) \in {0, 1, 2} /\ IsText(prefix)
    <2>1. CASE "HASH" \in flags
      BY <2>1, MarkIsText DEF PrefixText
    <2>2. CASE "HASH" \notin flags
      <3>1. prefix = SignText(negative, flags)
        BY <2>2 DEF PrefixText
      <3>2. Len(SignText(negative, flags)) + Len(buf) <= NtoaBuffer
        BY <1>4, <3>1
      <3>3. IsText(SignText(negative, flags)) /\ Len(SignText(negative, flags)) \in {0, 1}
        BY <1>1, <3>2, SignShown
      <3>. QED  BY <3>1, <3>3
    <2>. QED  BY <2>1, <2>2
  <1>6. w \in Nat /\ w <= width
    BY <1>1 DEF WidthOfZeros
  <1>7. zeros = PutZeros(buf, w)
    <2>1. PutZeros(buf, prec) = buf
      BY <1>1, <1>2, PutZerosShown
    <2>2. zeros = PutZeros(PutZeros(buf, prec), w)
      BY Zenon DEF LeadingZeros
    <2>. QED  BY <2>1, <2>2, Zenon
  <1>8. w <= NtoaBuffer
    BY <1>1, <1>6
  <1>. HIDE DEF w, zeros, n, r
  <1>9. /\ zeros = buf \o Times("0", w - n) /\ IsText(zeros)
        /\ Len(zeros) = IF w > n THEN w ELSE n
        /\ Reverse(zeros) = Times("0", w - n) \o r
        /\ w <= n => zeros = buf
    BY <1>6, <1>7, <1>8, PutZerosShown DEF n, r
  <1>18. Len(zeros) = (IF w > n THEN w ELSE n) /\ n \in Nat
    BY <1>2, <1>9
  <1>10. more \in Int
    BY <1>1, <1>2, <1>5
  <1>11. IsText(Times("0", more)) /\ (more <= 0 => Times("0", more) = <<>>)
    BY <1>10, TimesIsText, TimesParts
  <1>12. Laid(prefix, r, width, flags) = (prefix \o Times("0", more)) \o r
    BY <1>2, Zenon DEF Laid
  <1>13. Laid(prefix, r, width, flags) = prefix \o (Times("0", more) \o r)
    <2>. DEFINE z == Times("0", more)
    <2>1. IsText(z)
      BY <1>11
    <2>. HIDE DEF prefix, z
    <2>2. (prefix \o z) \o r = prefix \o (z \o r)
      BY <1>2, <1>5, <2>1, JoinAssociative
    <2>. QED  BY <1>12, <2>2, Zenon DEF z
  <1>14. Reverse(all) = prefix \o (Times("0", more) \o r)
    <2>1. CASE "HASH" \in flags
      <3>1. base \in {8, 16} /\ ~negative /\ {"PLUS", "SPACE"} \intersect flags = {} /\ n > 0 /\ width # n
        BY <1>1, <2>1 DEF Admitted, n
      <3>2. prefix = MarkText(base, flags) /\ Len(prefix) = IF base = 16 THEN 2 ELSE 1
        BY <2>1, MarkIsText DEF PrefixText
      <3>3. w = width
        BY <3>1, Zenon DEF WidthOfZeros, w
      <3>4. CASE width < n
        <4>1. zeros = buf /\ more <= 0
          BY <1>1, <1>2, <1>9, <3>2, <3>3, <3>4
        <4>2. Kept(zeros, prec, w, flags)
          <5>1. Len(zeros) \notin {prec, w}
            BY <1>1, <1>2, <3>1, <3>3, <4>1 DEF n
          <5>. QED  BY <5>1 DEF Kept
        <4>3. Reverse(all) = prefix \o Reverse(zeros)
          <5>1. Len(PrefixText(negative, base, flags)) + Len(zeros) <= NtoaBuffer
            BY <1>4, <4>1 DEF n
          <5>2. IsText(zeros)
            BY <1>9
          <5>3. InFront(Prefixed(zeros, negative, base, prec, w, flags), PrefixText(negative, base, flags), zeros)
            BY <4>2, <5>1, <5>2, PrefixShown, Zenon DEF n
          <5>. QED  BY <5>3 DEF InFront
        <4>4. Times("0", more) \o r = r
          BY <1>2, <1>11, <4>1, JoinEmpty
        <4>5. Reverse(zeros) = r
          BY <4>1 DEF r
        <4>. QED  BY <4>3, <4>4, <4>5
      <3>5. CASE ~(width < n)
        <4>. DEFINE fill == w - n
        <4>1. fill \in Nat /\ n + fill = w /\ Len(MarkText(base, flags)) <= fill
          <5>1. base = 16 => width # n + 1
            BY <2>1 DEF Admitted, n
          <5>. QED  BY <1>1, <1>2, <3>1, <3>2, <3>3, <3>5, <5>1
        <4>2. more = fill - Len(MarkText(base, flags))
          BY <1>1, <1>2, <1>5, <3>2, <3>3
        <4>. HIDE DEF fill, more, prefix
        <4>3. Reverse(HashPrefix(buf \o Times("0", fill), base, prec, Len(buf) + fill, flags))
                = MarkText(base, flags) \o (Times("0", fill - Len(MarkText(base, flags))) \o Reverse(buf))
          <5>1. Len(buf) > 0 /\ Len(buf) + fill <= NtoaBuffer
            BY <1>1, <3>1, <3>3, <4>1 DEF n
          <5>2. /\ base \in {8, 16} /\ IsText(buf) /\ fill \in Nat
                /\ Len(MarkText(base, flags)) <= fill /\ "PRECISION" \notin flags
            BY <1>1, <3>1, <4>1
          <5>3. MarkInZeros(buf, fill, base, prec, flags)
            BY <2>1, <5>1, <5>2, HashInZeros
          <5>. QED  BY <5>3 DEF MarkInZeros
        <4>4. Prefixed(zeros, negative, base, prec, w, flags) = HashPrefix(zeros, base, prec, w, flags)
          BY <3>1, Zenon DEF Sign, Prefixed
        <4>5. zeros = buf \o Times("0", fill) /\ w = Len(buf) + fill
          BY <1>9, <4>1 DEF n, fill
        <4>. QED  BY <3>2, <4>2, <4>3, <4>4, <4>5, Zenon DEF r
      <3>. QED  BY <3>4, <3>5
    <2>2. CASE "HASH" \notin flags
      <3>1. prefix = SignText(negative, flags)
        BY <2>2 DEF PrefixText
      <3>2. /\ ~(negative \/ {"PLUS", "SPACE"} \intersect flags # {}) => prefix = <<>>
            /\ negative \/ {"PLUS", "SPACE"} \intersect flags # {} => Len(prefix) = 1
        <4>1. Len(SignText(negative, flags)) + Len(buf) <= NtoaBuffer
          BY <1>4, <3>1 DEF n
        <4>. QED  BY <1>1, <3>1, <4>1, SignShown
      <3>3. \/ prefix = <<>> /\ Len(prefix) = 0 /\ w = width
            \/ Len(prefix) = 1 /\ w = IF width > 0 THEN width - 1 ELSE width
        <4>1. CASE negative \/ {"PLUS", "SPACE"} \intersect flags # {}
          <5>1. w = IF width > 0 THEN width - 1 ELSE width
            BY <4>1, Zenon DEF WidthOfZeros, w
          <5>. QED  BY <3>2, <4>1, <5>1
        <4>2. CASE ~(negative \/ {"PLUS", "SPACE"} \intersect flags # {})
          <5>1. w = width
            BY <4>2, Zenon DEF WidthOfZeros, w
          <5>. QED  BY <3>2, <4>2, <5>1, EmptySeq
        <4>. QED  BY <4>1, <4>2
      <3>7. \/ Len(prefix) = 0 /\ w = width
            \/ Len(prefix) = 1 /\ width > 0 /\ w = width - 1
            \/ Len(prefix) = 1 /\ width = 0 /\ w = 0
        BY <1>1, <3>3
      <3>8. more = width - Len(prefix) - n
        OBVIOUS
      <3>9. PICK p \in Nat : p = Len(prefix)
        BY <1>5
      <3>10. ZerosLeave(p, w, width)
        BY <3>7, <3>9 DEF ZerosLeave
      <3>11. p + n <= NtoaBuffer
        BY <1>4, <3>9
      <3>12. /\ p + (IF w > n THEN w ELSE n) <= NtoaBuffer
             /\ \/ w - n = width - p - n
                \/ w - n <= 0 /\ width - p - n <= 0
        BY <1>2, <1>6, <1>17, <3>10, <3>11, RoomForZeros
      <3>4. Len(prefix) + Len(zeros) <= NtoaBuffer
        BY <1>18, <3>9, <3>12
      <3>5. Times("0", w - n) = Times("0", more)
        <4>1. CASE w - n = width - p - n
          BY <3>9, <4>1
        <4>2. CASE w - n <= 0 /\ width - p - n <= 0
          <5>1. PICK d \in Int : d = w - n
            BY <1>2, <1>6
          <5>2. Times("0", d) = <<>>
            BY <4>2, <5>1, TimesParts
          <5>3. more <= 0
            BY <3>9, <4>2
          <5>. QED  BY <1>11, <5>1, <5>2, <5>3
        <4>. QED  BY <3>12, <4>1, <4>2
      <3>6. Reverse(all) = prefix \o Reverse(zeros)
        <4>1. Len(PrefixText(negative, base, flags)) + Len(zeros) <= NtoaBuffer
          BY <3>4
        <4>2. IsText(zeros)
          BY <1>9
        <4>3. InFront(Prefixed(zeros, negative, base, prec, w, flags), PrefixText(negative, base, flags), zeros)
          BY <2>2, <4>1, <4>2, PrefixShown, Zenon DEF n
        <4>. QED  BY <4>3 DEF InFront
      <3>. QED  BY <1>9, <3>5, <3>6
    <2>. QED  BY <2>1, <2>2
  <1>15. _out_rev(all, w, flags) = Reverse(all)
    <2>1. {"LEFT", "ZEROPAD"} \intersect flags # {}
      OBVIOUS
    <2>. QED  BY <2>1, Zenon DEF _out_rev
  <1>16. _ntoa_format(buf, negative, base, prec, width, flags) = _out_rev(all, w, flags)
    BY Zenon DEF _ntoa_format, Prefixed, all, zeros, w
  <1>. QED  BY <1>3, <1>13, <1>14, <1>15, <1>16, Zenon DEF r

LEMMA DigitsAreText ==
  ASSUME NEW v \in Nat, NEW base \in {2, 8, 10, 16}, NEW flags
  PROVE  IsText(Digits(v, base, flags))
  <1>. DEFINE chars == IF "UPPERCASE" \in flags THEN UpperChars ELSE DigitChars
              all == DigitsOf(v, base, chars)
              S == {chars[k] : k \in 1 .. base}
  <1>1. \A k \in 1 .. base : chars[k] \in S
    OBVIOUS
  <1>2. all \in Seq(S)
    <2>1. base \in Nat /\ base >= 2
      OBVIOUS
    <2>. HIDE DEF chars, S
    <2>. QED  BY <1>1, <2>1, DigitsByDivision
  <1>3. IsText(all)
    BY <1>2, Zenon DEF IsText
  <1>. HIDE DEF all
  <1>4. Smaller(Len(all), NtoaBuffer) \in 0 .. Len(all)
    BY <1>3, TextLength, KprintfAssumption DEF Smaller
  <1>5. IsText(SubSeq(all, 1, Smaller(Len(all), NtoaBuffer)))
    BY <1>3, <1>4, PrefixIsText
  <1>. QED  BY <1>5, Zenon DEF Digits, all, chars

LEMMA NumberIsText ==
  ASSUME NEW value \in Nat, NEW negative, NEW base \in {2, 8, 10, 16},
         NEW prec \in Int, NEW width \in Int, NEW flags
  PROVE  IsText(_ntoa_long(value, negative, base, prec, width, flags))
  <1>. DEFINE digits == Digits(value, base, flags)
              buf == IF "PRECISION" \in flags /\ value = 0 THEN <<>> ELSE digits
              f == IF value = 0 THEN flags \ {"HASH"} ELSE flags
  <1>1. IsText(digits)
    BY DigitsAreText
  <1>. HIDE DEF digits
  <1>2. IsText(buf)
    BY <1>1, EmptyText
  <1>. HIDE DEF buf, f
  <1>3. IsText(_ntoa_format(buf, negative, base, prec, width, f))
    BY <1>2, FormatIsText
  <1>. QED  BY <1>3, Zenon DEF _ntoa_long, buf, f, digits

\* An item whose argument the caller passed.
HasArgument(item) ==
  /\ DOMAIN item = {"specifier", "length", "flags", "width", "precision", "arg"}
  /\ item.width \in Int /\ item.precision \in Int
  /\ item.flags \subseteq Flags /\ item.length \in Lengths
  /\ item.specifier \in Numeric => item.arg \in Int
  /\ item.specifier = "s" => item.arg \in Seq(STRING)

LEMMA WidthsAreNumbers ==
  ASSUME NEW item, HasArgument(item)
  PROVE  WidthOf(item) \in Nat /\ PrecisionOf(item) \in Nat /\ PointerWidth \in Nat
  <1>1. PointerBytes \in Nat
    BY KprintfAssumption
  <1>2. PointerWidth \in Nat
    BY <1>1 DEF PointerWidth
  <1>3. WidthOf(item) \in Nat
    BY DEF HasArgument, WidthOf, Magnitude
  <1>4. PrecisionOf(item) \in Nat
    BY DEF HasArgument, PrecisionOf
  <1>. QED  BY <1>2, <1>3, <1>4

LEMMA ArgumentsAreNumbers ==
  ASSUME NEW item, HasArgument(item), item.specifier \in Numeric
  PROVE  /\ va_arg(item) \in Int /\ Magnitude(va_arg(item)) \in Nat /\ Pointer(item) \in Nat
         /\ ~IsSigned(item) => va_arg(item) \in Nat
  <1>1. ValuesOf(item.length) \in {CharValues, ShortValues, IntValues, LongValues}
    BY Zenon DEF HasArgument, Lengths, ValuesOf
  <1>2. LongValues \in Nat \ {0} /\ ValuesOf(item.length) \in Nat \ {0} /\ item.arg \in Int
    BY <1>1, KprintfAssumption DEF HasArgument
  <1>3. ASSUME NEW n \in Nat \ {0}, NEW a \in Int
        PROVE  Unsigned(a, n) \in Nat /\ Signed(a, n) \in Int
    <2>1. n \div 2 \in Int
      BY DivisionWithRemainder
    <2>2. a + n \div 2 \in Int
      BY <2>1
    <2>3. PICK h \in Int : h = n \div 2
      BY <2>1
    <2>4. PICK b \in Int : b = a + h
      OBVIOUS
    <2>5. a % n \in 0 .. (n - 1) /\ b % n \in 0 .. (n - 1)
      BY DivisionWithRemainder
    <2>6. Signed(a, n) = (b % n) - h
      BY <2>3, <2>4 DEF Signed
    <2>7. Unsigned(a, n) = a % n
      BY DEF Unsigned
    <2>. QED  BY <2>5, <2>6, <2>7
  <1>4. Pointer(item) \in Nat
    BY <1>2, <1>3 DEF Pointer
  <1>5. va_arg(item) \in Int /\ (~IsSigned(item) => va_arg(item) \in Nat)
    <2>1. Signed(item.arg, ValuesOf(item.length)) \in Int /\ Unsigned(item.arg, ValuesOf(item.length)) \in Nat
      BY <1>2, <1>3
    <2>. QED  BY <2>1 DEF va_arg
  <1>. QED  BY <1>4, <1>5 DEF Magnitude

LEMMA PaddedIsText ==
  ASSUME NEW text, IsText(text), NEW l \in Int, NEW item, HasArgument(item)
  PROVE  IsText(Padded(text, l, item))
  <1>. DEFINE spaces == Times(" ", WidthOf(item) - l)
  <1>1. IsText(spaces)
    <2>1. WidthOf(item) - l \in Int
      BY WidthsAreNumbers
    <2>. QED  BY <2>1, TimesIsText
  <1>. HIDE DEF spaces
  <1>2. IsText(text \o spaces) /\ IsText(spaces \o text)
    BY <1>1, JoinedText
  <1>. QED  BY <1>2, Zenon DEF Padded, spaces

LEMMA StringIsText ==
  ASSUME NEW item, HasArgument(item), IsText(item.arg)
  PROVE  IsText(String(item))
  <1>. DEFINE n      == Len(item.arg)
              cut    == "PRECISION" \in item.flags
              prec   == PrecisionOf(item)
              length == _strnlen_s(item.arg, IF prec = 0 THEN Len(item.arg) ELSE prec)
              l      == IF cut THEN Smaller(length, prec) ELSE length
              chars  == IF cut THEN SubSeq(item.arg, 1, Smaller(Len(item.arg), prec)) ELSE item.arg
  <1>1. n \in Nat /\ prec \in Nat
    BY TextLength, WidthsAreNumbers
  <1>2. length \in Nat
    BY <1>1 DEF _strnlen_s, Smaller
  <1>. HIDE DEF length
  <1>3. l \in Int
    BY <1>1, <1>2 DEF Smaller
  <1>. HIDE DEF l
  <1>4. IsText(chars)
    <2>1. Smaller(n, prec) \in 0 .. n
      BY <1>1 DEF Smaller
    <2>. QED  BY <2>1, PrefixIsText
  <1>. HIDE DEF chars
  <1>5. IsText(Padded(chars, l, item))
    BY <1>3, <1>4, PaddedIsText
  <1>. QED  BY <1>5, Zenon DEF String, chars, l, length, prec, cut

LEMMA OutputIsText ==
  ASSUME NEW item, HasArgument(item)
  PROVE  IsText(Output(item))
  <1>1. IsText(<<item.arg>>) /\ IsText(<<item.specifier>>)
    BY OneCharacter
  <1>2. item.specifier \in {"d", "i", "u", "x", "X", "o", "b"} => IsText(Integer(item))
    <2>. SUFFICES ASSUME item.specifier \in {"d", "i", "u", "x", "X", "o", "b"} PROVE IsText(Integer(item))
      OBVIOUS
    <2>. DEFINE m == Magnitude(va_arg(item))
    <2>1. m \in Nat
      BY ArgumentsAreNumbers DEF Numeric
    <2>2. Base(item.specifier) \in {2, 8, 10, 16}
      BY Zenon DEF Base
    <2>. HIDE DEF m
    <2>3. ASSUME NEW negative, NEW flags
          PROVE  IsText(_ntoa_long(m, negative, Base(item.specifier), PrecisionOf(item), WidthOf(item), flags))
      <3>1. PrecisionOf(item) \in Int /\ WidthOf(item) \in Int
        BY WidthsAreNumbers
      <3>. QED  BY <2>1, <2>2, <3>1, NumberIsText
    <2>. QED  BY <2>3, Zenon DEF Integer, m
  <1>3. item.specifier = "p" => IsText(PointerText(item))
    <2>. SUFFICES ASSUME item.specifier = "p" PROVE IsText(PointerText(item))
      OBVIOUS
    <2>1. Pointer(item) \in Nat
      BY ArgumentsAreNumbers DEF Numeric
    <2>2. ASSUME NEW negative, NEW flags
          PROVE  IsText(_ntoa_long(Pointer(item), negative, 16, PrecisionOf(item), PointerWidth, flags))
      <3>1. PrecisionOf(item) \in Int /\ PointerWidth \in Int
        BY WidthsAreNumbers
      <3>. QED  BY <2>1, <3>1, NumberIsText
    <2>. QED  BY <2>2, Zenon DEF PointerText
  <1>4. IsText(Padded(<<item.arg>>, 1, item))
    BY <1>1, PaddedIsText
  <1>5. item.specifier = "s" => IsText(String(item))
    BY StringIsText, Zenon DEF HasArgument, IsText
  <1>. QED  BY <1>1, <1>2, <1>3, <1>4, <1>5, Zenon DEF Output
----------------------------------------------------------------------------
(* The text of a number as the C standard has it.                          *)

CNumbers == {"d", "i", "u", "x", "X", "o"}

\* What the conversions of integers make of the flags.
LEMMA FlagsPassed ==
  ASSUME NEW item, HasArgument(item), item.specifier \in CNumbers
  PROVE  /\ "LEFT" \in IntegerFlags(item) <=> "LEFT" \in FlagsOf(item)
         /\ "PRECISION" \in IntegerFlags(item) <=> "PRECISION" \in item.flags
         /\ "ZEROPAD" \in IntegerFlags(item) <=> "ZEROPAD" \in item.flags /\ "PRECISION" \notin item.flags
         /\ "HASH" \in IntegerFlags(item) <=> "HASH" \in item.flags /\ Base(item.specifier) # 10
         /\ "PLUS" \in IntegerFlags(item) <=> "PLUS" \in item.flags /\ IsSigned(item)
         /\ "SPACE" \in IntegerFlags(item) <=> "SPACE" \in item.flags /\ IsSigned(item)
         /\ "UPPERCASE" \in IntegerFlags(item) <=> item.specifier = "X"
         /\ \A f \in {"PRECISION", "ZEROPAD"} : f \in FlagsOf(item) <=> f \in item.flags
  <1>1. item.flags \subseteq Flags
    BY DEF HasArgument
  <1>2. "UPPERCASE" \notin item.flags
    BY <1>1 DEF Flags
  <1>3. PICK fixed : fixed = Base(item.specifier)
    OBVIOUS
  <1>4. IntegerFlags(item) =
          (FlagsOf(item) \ ((IF fixed = 10 THEN {"HASH"} ELSE {})
                              \cup (IF IsSigned(item) THEN {} ELSE {"PLUS", "SPACE"})
                              \cup (IF "PRECISION" \in item.flags THEN {"ZEROPAD"} ELSE {})))
            \cup (IF item.specifier = "X" THEN {"UPPERCASE"} ELSE {})
    BY <1>3, Zenon DEF IntegerFlags
  <1>5. FlagsOf(item) = item.flags \/ FlagsOf(item) = item.flags \cup {"LEFT"}
    BY DEF FlagsOf
  <1>. QED  BY <1>2, <1>3, <1>4, <1>5

LEMMA BaseOfNumber ==
  ASSUME NEW item, item.specifier \in CNumbers
  PROVE  /\ item.specifier \in {"d", "i", "u"} => Base(item.specifier) = 10
         /\ item.specifier \in {"x", "X"} => Base(item.specifier) = 16
         /\ item.specifier = "o" => Base(item.specifier) = 8
         /\ IsSigned(item) <=> item.specifier \in {"d", "i"}
  <1>1. CASE item.specifier \in {"d", "i", "u"}
    <2>1. item.specifier \notin {"x", "X"} /\ item.specifier # "o" /\ item.specifier # "b"
      BY <1>1
    <2>2. Base(item.specifier) = 10
      BY <1>1, <2>1, Zenon DEF Base
    <2>. QED  BY <2>1, <2>2 DEF IsSigned
  <1>2. CASE item.specifier \in {"x", "X"}
    <2>1. item.specifier \notin {"d", "i", "u"} /\ item.specifier # "o" /\ item.specifier # "b"
      BY <1>2
    <2>2. Base(item.specifier) = 16
      BY <1>2, <2>1, Zenon DEF Base
    <2>. QED  BY <2>1, <2>2 DEF IsSigned
  <1>3. CASE item.specifier = "o"
    <2>1. item.specifier \notin {"d", "i", "u"} /\ item.specifier \notin {"x", "X"} /\ item.specifier # "b"
      BY <1>3
    <2>2. Base(item.specifier) = 8
      BY <1>3, <2>1, Zenon DEF Base
    <2>. QED  BY <1>3, <2>1, <2>2 DEF IsSigned
  <1>. QED  BY <1>1, <1>2, <1>3 DEF CNumbers

LEMMA LaidLength ==
  ASSUME NEW prefix, NEW digits, IsText(prefix), IsText(digits), NEW width \in Nat, NEW flags
  PROVE  /\ IsText(Laid(prefix, digits, width, flags))
         /\ width <= Len(Laid(prefix, digits, width, flags))
         /\ Len(prefix) + Len(digits) <= Len(Laid(prefix, digits, width, flags))
  <1>. DEFINE a == Len(prefix)
              b == Len(digits)
              joined == prefix \o digits
              zeros == Times("0", width - a - b)
              spaces == Times(" ", width - Len(joined))
              laid == Laid(prefix, digits, width, flags)
  <1>1. a \in Nat /\ b \in Nat
    BY TextLength
  <1>2. IsText(joined) /\ Len(joined) = a + b
    BY JoinedText, JoinedParts
  <1>3. IsText(zeros) /\ Len(zeros) = IF width - a - b > 0 THEN width - a - b ELSE 0
    <2>1. width - a - b \in Int
      BY <1>1
    <2>. QED  BY <2>1, TimesIsText, TimesParts
  <1>4. IsText(spaces) /\ Len(spaces) = IF width - Len(joined) > 0 THEN width - Len(joined) ELSE 0
    <2>1. width - Len(joined) \in Int
      BY <1>1, <1>2
    <2>. QED  BY <2>1, TimesIsText, TimesParts
  <1>. HIDE DEF joined, zeros, spaces
  <1>5. IsText(prefix \o zeros) /\ Len(prefix \o zeros) = a + Len(zeros)
    BY <1>3, JoinedText, JoinedParts
  <1>6. IsText((prefix \o zeros) \o digits) /\ Len((prefix \o zeros) \o digits) = Len(prefix \o zeros) + b
    BY <1>5, JoinedText, JoinedParts
  <1>7. /\ IsText(joined \o spaces) /\ Len(joined \o spaces) = Len(joined) + Len(spaces)
        /\ IsText(spaces \o joined) /\ Len(spaces \o joined) = Len(spaces) + Len(joined)
    BY <1>2, <1>4, JoinedText, JoinedParts
  <1>8. laid \in {(prefix \o zeros) \o digits, joined \o spaces, spaces \o joined}
    BY Zenon DEF Laid, joined, zeros, spaces
  <1>. HIDE DEF laid, a, b
  <1>9. ASSUME laid = (prefix \o zeros) \o digits PROVE width <= Len(laid) /\ a + b <= Len(laid)
    BY <1>1, <1>3, <1>5, <1>6, <1>9
  <1>10. ASSUME laid = joined \o spaces PROVE width <= Len(laid) /\ a + b <= Len(laid)
    BY <1>1, <1>2, <1>4, <1>7, <1>10
  <1>11. ASSUME laid = spaces \o joined PROVE width <= Len(laid) /\ a + b <= Len(laid)
    BY <1>1, <1>2, <1>4, <1>7, <1>11
  <1>12. IsText(laid)
    BY <1>6, <1>7, <1>8
  <1>13. width <= Len(laid) /\ a + b <= Len(laid)
    BY <1>8, <1>9, <1>10, <1>11
  <1>. QED  BY <1>12, <1>13 DEF laid, a, b

\* C and the code lay a prefix and digits out alike.
LEMMA NumberLaid ==
  ASSUME NEW item, HasArgument(item), item.specifier \in CNumbers, NEW flags,
         flags = IntegerFlags(item) \/ flags = IntegerFlags(item) \ {"HASH"}
  PROVE  LET value  == va_arg(item)
             digits == CDigits(item, Magnitude(value))
         IN CNumber(item) = Laid(CPrefix(item, value, digits), digits, WidthOf(item), flags)
  <1>. DEFINE value  == va_arg(item)
              digits == CDigits(item, Magnitude(value))
              prefix == CPrefix(item, value, digits)
              zeros  == Times("0", WidthOf(item) - Len(prefix) - Len(digits))
  <1>1. /\ "LEFT" \in flags <=> "LEFT" \in FlagsOf(item)
        /\ "ZEROPAD" \in flags <=> "ZEROPAD" \in FlagsOf(item) /\ "PRECISION" \notin FlagsOf(item)
    BY FlagsPassed
  <1>2. FlagsOf(item) \intersect {"ZEROPAD", "LEFT", "PRECISION"} = {"ZEROPAD"}
          <=> "ZEROPAD" \in flags /\ "LEFT" \notin flags
    BY <1>1
  <1>3. CNumber(item) = IF FlagsOf(item) \intersect {"ZEROPAD", "LEFT", "PRECISION"} = {"ZEROPAD"}
                          THEN (prefix \o zeros) \o digits ELSE CPad(prefix \o digits, item)
    BY Zenon DEF CNumber
  <1>. HIDE DEF prefix, digits, value
  <1>4. CASE "ZEROPAD" \in flags /\ "LEFT" \notin flags
    <2>1. CNumber(item) = (prefix \o zeros) \o digits
      BY <1>2, <1>3, <1>4, Zenon
    <2>2. Laid(prefix, digits, WidthOf(item), flags) = (prefix \o zeros) \o digits
      BY <1>4, Zenon DEF Laid
    <2>. QED  BY <2>1, <2>2, Zenon DEF prefix, digits, value
  <1>5. CASE ~("ZEROPAD" \in flags /\ "LEFT" \notin flags)
    <2>1. CNumber(item) = CPad(prefix \o digits, item)
      BY <1>2, <1>3, <1>5, Zenon
    <2>2. CPad(prefix \o digits, item) = Laid(prefix, digits, WidthOf(item), flags)
      BY <1>1, <1>5, Zenon DEF Laid, CPad
    <2>. QED  BY <2>1, <2>2, Zenon DEF prefix, digits, value
  <1>. QED  BY <1>4, <1>5


\* What C promises of a number, and the code keeps.
Promised(item) ==
  LET value     == va_arg(item)
      precision == "PRECISION" \in item.flags
      digits    == IF precision /\ value = 0 THEN 0 ELSE Len(Numeral(Magnitude(value), Base(item.specifier)))
  IN /\ precision => item.precision >= 0
     /\ Len(CNumber(item)) <= NtoaBuffer
     /\ precision /\ "LEFT" \in FlagsOf(item) => item.precision <= digits
     /\ "HASH" \in item.flags /\ value # 0 /\ ~precision /\ item.specifier \in {"x", "X", "o"} =>
          WidthOf(item) # digits
     /\ "HASH" \in item.flags /\ value # 0 /\ ~precision /\ item.specifier \in {"x", "X"}
          /\ "ZEROPAD" \in item.flags /\ "LEFT" \notin FlagsOf(item) => WidthOf(item) # digits + 1
     /\ "HASH" \in item.flags /\ precision /\ item.specifier = "o" =>
          IF value = 0 THEN item.precision # 0 ELSE item.precision <= digits

CharsOf(item) == IF item.specifier = "X" THEN UpperChars ELSE DigitChars

\* The digits C asks for, without the zeros of the precision.
ShownOf(item) ==
  IF "PRECISION" \in item.flags /\ item.precision = 0 /\ va_arg(item) = 0 THEN <<>>
  ELSE Spelled(Numeral(Magnitude(va_arg(item)), Base(item.specifier)), CharsOf(item))

LEMMA DigitsShown ==
  ASSUME NEW item, item.specifier \in CNumbers, HasArgument(item)
  PROVE  /\ CDigits(item, Magnitude(va_arg(item))) =
              IF "PRECISION" \in item.flags
                THEN Times("0", item.precision - Len(ShownOf(item))) \o ShownOf(item) ELSE ShownOf(item)
         /\ IsText(ShownOf(item)) /\ IsText(CDigits(item, Magnitude(va_arg(item))))
         /\ Len(ShownOf(item)) <= Len(CDigits(item, Magnitude(va_arg(item))))
         /\ "PRECISION" \in item.flags => item.precision <= Len(CDigits(item, Magnitude(va_arg(item))))
         /\ Magnitude(va_arg(item)) \in Nat /\ (Magnitude(va_arg(item)) = 0 <=> va_arg(item) = 0)
         /\ Base(item.specifier) \in {8, 10, 16}
         /\ Spells(DigitsOf(Magnitude(va_arg(item)), Base(item.specifier), CharsOf(item)),
                   Numeral(Magnitude(va_arg(item)), Base(item.specifier)),
                   Magnitude(va_arg(item)), Base(item.specifier), CharsOf(item))
  <1>. DEFINE v       == va_arg(item)
              m       == Magnitude(v)
              base    == Base(item.specifier)
              chars   == CharsOf(item)
              numeral == Numeral(m, base)
              shown   == ShownOf(item)
              zeros   == Times("0", item.precision - Len(shown))
  <1>1. v \in Int /\ m \in Nat
    <2>1. item.specifier \in Numeric
      BY DEF CNumbers, Numeric
    <2>. QED  BY <2>1, ArgumentsAreNumbers
  <1>2. m = 0 <=> v = 0
    BY <1>1 DEF Magnitude
  <1>3. base \in {8, 10, 16}
    BY BaseOfNumber DEF CNumbers
  <1>4. Spells(DigitsOf(m, base, chars), numeral, m, base, chars)
    <2>. DEFINE S == {chars[k] : k \in 1 .. base}
    <2>1. base \in Nat /\ base >= 2
      BY <1>3
    <2>2. \A k \in 1 .. base : chars[k] \in S
      OBVIOUS
    <2>. HIDE DEF S, chars, base, m
    <2>. QED  BY <1>1, <2>1, <2>2, DigitsSpellNumeral
  <1>5. IsText(shown)
    <2>1. IsText(Spelled(numeral, chars))
      BY <1>4, SpelledLonger DEF Spells
    <2>. QED  BY <2>1, EmptyText DEF ShownOf
  <1>6. shown = IF "PRECISION" \in item.flags /\ item.precision = 0 /\ m = 0 THEN <<>>
                ELSE [k \in DOMAIN numeral |-> chars[1 + numeral[k]]]
    BY <1>2, Zenon DEF ShownOf, Spelled
  <1>. HIDE DEF shown
  <1>7. CDigits(item, m) = IF "PRECISION" \in item.flags THEN zeros \o shown ELSE shown
    BY <1>6, Zenon DEF CDigits, CharsOf
  <1>8. Len(shown) \in Nat /\ item.precision \in Int
    BY <1>5, TextLength DEF HasArgument
  <1>9. IsText(zeros) /\ Len(zeros) = IF item.precision - Len(shown) > 0 THEN item.precision - Len(shown) ELSE 0
    <2>1. item.precision - Len(shown) \in Int
      BY <1>8
    <2>. QED  BY <2>1, TimesIsText, TimesParts
  <1>. HIDE DEF zeros, v, m, base, numeral, chars
  <1>10. IsText(zeros \o shown) /\ Len(zeros \o shown) = Len(zeros) + Len(shown)
    BY <1>5, <1>9, JoinedText, JoinedParts
  <1>11. Len(shown) <= Len(zeros \o shown) /\ item.precision <= Len(zeros \o shown)
    BY <1>8, <1>9, <1>10
  <1>12. /\ IsText(CDigits(item, m)) /\ Len(shown) <= Len(CDigits(item, m))
         /\ "PRECISION" \in item.flags => item.precision <= Len(CDigits(item, m))
    <2>1. CASE "PRECISION" \in item.flags
      BY <1>7, <1>10, <1>11, <2>1
    <2>2. CASE "PRECISION" \notin item.flags
      BY <1>5, <1>7, <1>8, <2>2
    <2>. QED  BY <2>1, <2>2
  <1>. QED
    BY <1>1, <1>2, <1>3, <1>4, <1>5, <1>7, <1>12, Zenon DEF v, m, base, chars, numeral, shown, zeros

\* C's prefix is short.
LEMMA CPrefixIsText ==
  ASSUME NEW item, NEW value, NEW digits
  PROVE  IsText(CPrefix(item, value, digits))
  <1>1. IsText(<<>>) /\ IsText(<<"-">>) /\ IsText(<<"+">>) /\ IsText(<<" ">>) /\ IsText(<<"0">>)
    BY EmptyText, OneCharacter
  <1>2. IsText(<<"0", item.specifier>>)
    <2>1. <<"0", item.specifier>> \in Seq({"0", item.specifier})
      OBVIOUS
    <2>. QED  BY <2>1, Zenon DEF IsText
  <1>3. CPrefix(item, value, digits) \in {<<>>, <<"-">>, <<"+">>, <<" ">>, <<"0">>, <<"0", item.specifier>>}
    BY Zenon DEF CPrefix
  <1>. QED  BY <1>1, <1>2, <1>3

\* What a number is formatted from.
NumberBuf(item) ==
  IF "PRECISION" \in IntegerFlags(item) /\ Magnitude(va_arg(item)) = 0 THEN <<>>
  ELSE Digits(Magnitude(va_arg(item)), Base(item.specifier), IntegerFlags(item))

NumberFlags(item) ==
  IF Magnitude(va_arg(item)) = 0 THEN IntegerFlags(item) \ {"HASH"} ELSE IntegerFlags(item)

\* The digits in buf are C's, as long as they fit.
LEMMA NumberBufShown ==
  ASSUME NEW item, item.specifier \in CNumbers, HasArgument(item), Len(ShownOf(item)) <= NtoaBuffer
  PROVE  /\ IsText(NumberBuf(item))
         /\ IF "PRECISION" \in item.flags /\ va_arg(item) = 0
              THEN NumberBuf(item) = <<>> /\ (item.precision # 0 => ShownOf(item) = <<"0">>)
                                          /\ (item.precision = 0 => ShownOf(item) = <<>>)
              ELSE Reverse(NumberBuf(item)) = ShownOf(item)
                   /\ Len(NumberBuf(item)) = Len(Numeral(Magnitude(va_arg(item)), Base(item.specifier)))
  <1>. DEFINE v       == va_arg(item)
              m       == Magnitude(v)
              base    == Base(item.specifier)
              chars   == CharsOf(item)
              numeral == Numeral(m, base)
              shown   == ShownOf(item)
              all     == DigitsOf(m, base, chars)
              passed  == IF "UPPERCASE" \in IntegerFlags(item) THEN UpperChars ELSE DigitChars
  <1>1. m \in Nat /\ (m = 0 <=> v = 0) /\ base \in {8, 10, 16} /\ Spells(all, numeral, m, base, chars)
    BY DigitsShown
  <1>2. passed = chars
    BY FlagsPassed, Zenon DEF CharsOf
  <1>3. "PRECISION" \in IntegerFlags(item) <=> "PRECISION" \in item.flags
    BY FlagsPassed
  <1>4. shown = IF "PRECISION" \in item.flags /\ item.precision = 0 /\ v = 0 THEN <<>> ELSE Spelled(numeral, chars)
    BY Zenon DEF ShownOf
  <1>5. /\ IsText(all) /\ IsText(numeral) /\ Len(all) = Len(numeral) /\ Len(numeral) >= 1
        /\ Reverse(all) = Spelled(numeral, chars)
        /\ (m = 0 => numeral[1] = 0 /\ Len(numeral) = 1)
    BY <1>1 DEF Spells
  <1>6. NumberBuf(item) = IF "PRECISION" \in item.flags /\ v = 0 THEN <<>>
                          ELSE SubSeq(all, 1, Smaller(Len(all), NtoaBuffer))
    <2>1. Digits(m, base, IntegerFlags(item)) = SubSeq(all, 1, Smaller(Len(all), NtoaBuffer))
      BY <1>2, Zenon DEF Digits
    <2>. QED  BY <1>1, <1>3, <2>1, Zenon DEF NumberBuf
  <1>. HIDE DEF all, shown, chars, base, v, m, numeral
  <1>7. CASE "PRECISION" \in item.flags /\ v = 0
    <2>1. NumberBuf(item) = <<>>
      BY <1>6, <1>7, Zenon
    <2>2. item.precision = 0 => shown = <<>>
      BY <1>4, <1>7, Zenon
    <2>3. m = 0 /\ numeral[1] = 0 /\ Len(numeral) = 1
      BY <1>1, <1>5, <1>7
    <2>4. Spelled(numeral, chars) = <<"0">>
      <3>1. chars[1] = "0"
        BY DEF chars, CharsOf, UpperChars, DigitChars
      <3>2. DOMAIN numeral = {1}
        BY <1>5, <2>3, TextLength
      <3>3. Spelled(numeral, chars)[1] = "0"
        BY <2>3, <3>1, <3>2 DEF Spelled
      <3>4. IsText(Spelled(numeral, chars)) /\ Len(Spelled(numeral, chars)) = 1
        BY <1>5, <2>3, SpelledLonger
      <3>5. IsText(<<"0">>) /\ Len(<<"0">>) = 1 /\ <<"0">>[1] = "0"
        BY OneCharacter
      <3>6. \A k \in 1 .. 1 : k = 1
        OBVIOUS
      <3>. HIDE DEF Spelled
      <3>. QED  BY <3>3, <3>4, <3>5, <3>6, SameText
    <2>5. item.precision # 0 => shown = <<"0">>
      BY <1>4, <2>4, Zenon
    <2>. QED  BY <1>7, <2>1, <2>2, <2>5, EmptyText DEF v, shown
  <1>8. CASE ~("PRECISION" \in item.flags /\ v = 0)
    <2>1. shown = Reverse(all)
      BY <1>4, <1>5, <1>8, Zenon
    <2>2. Len(all) \in Nat /\ Len(Reverse(all)) = Len(all)
      BY <1>5, TextLength, ReversedLength
    <2>3. Smaller(Len(all), NtoaBuffer) = Len(all)
      <3>1. Len(all) <= NtoaBuffer
        BY <2>1, <2>2 DEF shown
      <3>. QED  BY <2>2, <3>1, KprintfAssumption DEF Smaller
    <2>4. SubSeq(all, 1, Len(all)) = all
      <3>1. PICK S : all \in Seq(S)
        BY <1>5 DEF IsText
      <3>. QED  BY <3>1
    <2>5. NumberBuf(item) = all
      BY <1>6, <1>8, <2>3, <2>4, Zenon
    <2>. QED  BY <1>5, <1>8, <2>1, <2>5, Zenon DEF v, shown, m, base, numeral
  <1>. QED  BY <1>7, <1>8

\* The zeros of the precision.
LEMMA NumberZeroed ==
  ASSUME NEW item, item.specifier \in CNumbers, HasArgument(item), Promised(item),
         Len(ShownOf(item)) <= NtoaBuffer
  PROVE  Zeroed(Reverse(NumberBuf(item)), PrecisionOf(item), NumberFlags(item))
           = CDigits(item, Magnitude(va_arg(item)))
  <1>. DEFINE v       == va_arg(item)
              digits  == CDigits(item, Magnitude(v))
              shown   == ShownOf(item)
              buf     == NumberBuf(item)
              flags   == NumberFlags(item)
              p       == PrecisionOf(item)
  <1>1. /\ digits = IF "PRECISION" \in item.flags THEN Times("0", item.precision - Len(shown)) \o shown ELSE shown
        /\ IsText(shown)
    BY DigitsShown
  <1>2. /\ IsText(buf)
        /\ IF "PRECISION" \in item.flags /\ v = 0
             THEN buf = <<>> /\ (item.precision # 0 => shown = <<"0">>) /\ (item.precision = 0 => shown = <<>>)
             ELSE Reverse(buf) = shown /\ Len(buf) = Len(Numeral(Magnitude(v), Base(item.specifier)))
    BY NumberBufShown
  <1>3. "LEFT" \in flags <=> "LEFT" \in FlagsOf(item)
    BY FlagsPassed DEF NumberFlags
  <1>4. /\ "PRECISION" \in item.flags => item.precision >= 0
        /\ "PRECISION" \in item.flags /\ "LEFT" \in FlagsOf(item) =>
             item.precision <= IF "PRECISION" \in item.flags /\ v = 0 THEN 0
                               ELSE Len(Numeral(Magnitude(v), Base(item.specifier)))
    BY Zenon DEF Promised
  <1>5. item.precision \in Int
    BY DEF HasArgument
  <1>6. p \in Nat /\ p = IF "PRECISION" \in item.flags THEN item.precision ELSE 0
    BY <1>4, <1>5 DEF PrecisionOf
  <1>7. IsText(Reverse(buf)) /\ Len(Reverse(buf)) = Len(buf) /\ Len(buf) \in Nat /\ Len(shown) \in Nat
    BY <1>1, <1>2, ReversedLength, TextLength
  <1>. HIDE DEF v, digits, shown, buf, flags, p
  <1>8. CASE "PRECISION" \notin item.flags
    <2>1. p = 0 /\ Reverse(buf) = shown /\ digits = shown
      BY <1>1, <1>2, <1>6, <1>8, Zenon
    <2>2. p <= Len(shown)
      BY <1>7, <2>1
    <2>3. Zeroed(shown, p, flags) = shown
      BY <1>1, <1>6, <2>2, ZeroedText
    <2>. QED  BY <2>1, <2>3, Zenon DEF digits, buf, p, flags, v
  <1>9. CASE "PRECISION" \in item.flags /\ v # 0
    <2>1. p = item.precision /\ Reverse(buf) = shown
      BY <1>2, <1>6, <1>9, Zenon
    <2>2. CASE "LEFT" \in flags
      <3>1. item.precision <= Len(Numeral(Magnitude(v), Base(item.specifier)))
        BY <1>3, <1>4, <1>9, <2>2, Zenon
      <3>2. Len(buf) = Len(Numeral(Magnitude(v), Base(item.specifier)))
        BY <1>2, <1>9, Zenon
      <3>3. p <= Len(shown)
        BY <1>5, <1>7, <2>1, <3>1, <3>2
      <3>4. Times("0", item.precision - Len(shown)) \o shown = shown
        <4>1. item.precision - Len(shown) \in Int /\ ~(item.precision - Len(shown) > 0)
          BY <1>5, <1>7, <2>1, <3>3
        <4>2. Times("0", item.precision - Len(shown)) = <<>>
          BY <4>1, TimesParts
        <4>. QED  BY <1>1, <4>2, JoinEmpty
      <3>5. Zeroed(shown, p, flags) = shown
        BY <1>1, <1>6, <2>2, ZeroedText
      <3>6. digits = shown
        BY <1>1, <1>9, <3>4, Zenon
      <3>. QED  BY <2>1, <3>5, <3>6, Zenon DEF digits, buf, p, flags, v
    <2>3. CASE "LEFT" \notin flags
      <3>1. Zeroed(shown, p, flags) = Times("0", item.precision - Len(shown)) \o shown
        BY <2>1, <2>3, Zenon DEF Zeroed
      <3>. QED  BY <1>1, <1>9, <2>1, <3>1, Zenon DEF digits, buf, p, flags, v
    <2>. QED  BY <2>2, <2>3
  <1>10. CASE "PRECISION" \in item.flags /\ v = 0
    <2>1. buf = <<>> /\ p = item.precision /\ Len(buf) = 0 /\ Reverse(buf) = <<>>
      <3>1. buf = <<>> /\ p = item.precision
        BY <1>2, <1>6, <1>10, Zenon
      <3>2. Len(buf) = 0
        BY <3>1, EmptySeq
      <3>. QED  BY <1>7, <3>1, <3>2, EmptyText, ReverseParts
    <2>2. CASE item.precision = 0
      <3>1. shown = <<>>
        BY <1>2, <1>10, <2>2, Zenon
      <3>2. Times("0", item.precision - Len(shown)) \o shown = shown
        <4>1. item.precision - Len(shown) \in Int /\ ~(item.precision - Len(shown) > 0)
          BY <1>5, <1>7, <2>2
        <4>2. Times("0", item.precision - Len(shown)) = <<>>
          BY <4>1, TimesParts
        <4>. QED  BY <1>1, <4>2, JoinEmpty
      <3>3. Zeroed(<<>>, p, flags) = <<>>
        <4>1. p <= Len(<<>>) /\ IsText(<<>>)
          BY <2>1, <2>2, EmptySeq, EmptyText
        <4>. QED  BY <1>6, <4>1, ZeroedText
      <3>. QED  BY <1>1, <1>10, <2>1, <3>1, <3>2, <3>3, Zenon DEF digits, buf, p, flags, v
    <2>3. CASE item.precision # 0
      <3>1. shown = <<"0">> /\ Len(shown) = 1
        <4>1. shown = <<"0">>
          BY <1>2, <1>10, <2>3, Zenon
        <4>. QED  BY <4>1, OneCharacter
      <3>2. "LEFT" \notin flags
        <4>. SUFFICES ASSUME "LEFT" \in flags PROVE FALSE
          OBVIOUS
        <4>1. item.precision <= 0 /\ item.precision >= 0
          BY <1>3, <1>4, <1>10, Zenon
        <4>. QED  BY <1>5, <2>3, <4>1
      <3>3. PICK q \in Nat : p = q + 1
        <4>1. p - 1 \in Nat /\ p = (p - 1) + 1
          BY <1>6, <2>1, <2>3
        <4>. QED  BY <4>1
      <3>4. digits = Times("0", q) \o <<"0">>
        <4>1. item.precision - Len(shown) = q
          BY <2>1, <3>1, <3>3
        <4>. QED  BY <1>1, <1>10, <3>1, <4>1, Zenon
      <3>5. Zeroed(Reverse(buf), p, flags) = Times("0", p)
        <4>1. Zeroed(Reverse(buf), p, flags) = Times("0", p - Len(Reverse(buf))) \o Reverse(buf)
          BY <3>2, Zenon DEF Zeroed
        <4>2. p - Len(Reverse(buf)) = p
          BY <1>6, <1>7, <2>1
        <4>3. IsText(Times("0", p))
          BY <1>6, TimesIsText
        <4>. QED  BY <2>1, <4>1, <4>2, <4>3, JoinEmpty
      <3>6. Times("0", q) \o Times("0", 1) = Times("0", q + 1)
        BY MoreTimes
      <3>7. Times("0", 1) = <<"0">>
        <4>1. Times("0", 1) = [k \in 1 .. 1 |-> "0"]
          BY DEF Times
        <4>. QED  BY <4>1
      <3>8. Times("0", p) = Times("0", q + 1)
        BY <3>3
      <3>. QED  BY <3>4, <3>5, <3>6, <3>7, <3>8, Zenon DEF digits, buf, p, flags, v
    <2>. QED  BY <2>2, <2>3
  <1>. QED  BY <1>8, <1>9, <1>10

\* An octal number begins with a zero that C asks for, unless it has one.
LEMMA OctalHead ==
  ASSUME NEW item, item.specifier = "o", "HASH" \in item.flags, HasArgument(item), Promised(item),
         Len(ShownOf(item)) <= NtoaBuffer
  PROVE  LET digits == CDigits(item, Magnitude(va_arg(item)))
         IN digits = <<>> \/ Head(digits) # "0" <=> va_arg(item) # 0
  <1>. DEFINE v       == va_arg(item)
              m       == Magnitude(v)
              numeral == Numeral(m, 8)
              digits  == CDigits(item, m)
              shown   == ShownOf(item)
              cut     == "PRECISION" \in item.flags
  <1>0. item.specifier \in CNumbers /\ Base(item.specifier) = 8 /\ CharsOf(item) = DigitChars
    <2>1. item.specifier \in CNumbers
      BY DEF CNumbers
    <2>. QED  BY <2>1, BaseOfNumber DEF CharsOf
  <1>1. /\ digits = IF cut THEN Times("0", item.precision - Len(shown)) \o shown ELSE shown
        /\ IsText(shown) /\ IsText(digits) /\ m \in Nat /\ (m = 0 <=> v = 0)
        /\ Spells(DigitsOf(m, 8, DigitChars), numeral, m, 8, DigitChars)
    BY <1>0, DigitsShown
  <1>2. IF cut /\ v = 0 THEN (item.precision # 0 => shown = <<"0">>)
        ELSE Len(NumberBuf(item)) = Len(numeral) /\ Reverse(NumberBuf(item)) = shown /\ IsText(NumberBuf(item))
    BY <1>0, NumberBufShown
  <1>3. /\ cut => item.precision >= 0
        /\ cut => IF v = 0 THEN item.precision # 0 ELSE item.precision <= Len(numeral)
    <2>1. PICK base : base = Base(item.specifier)
      OBVIOUS
    <2>2. /\ cut => item.precision >= 0
          /\ cut => IF v = 0 THEN item.precision # 0 ELSE item.precision <= Len(Numeral(m, base))
      BY <2>1, Zenon DEF Promised
    <2>. QED  BY <1>0, <2>1, <2>2
  <1>4. /\ IsText(numeral) /\ Len(numeral) >= 1
        /\ v # 0 => numeral[1] \in 1 .. 7
        /\ v = 0 => numeral[1] = 0
    BY <1>1 DEF Spells
  <1>5. shown = IF cut /\ item.precision = 0 /\ v = 0 THEN <<>> ELSE Spelled(numeral, DigitChars)
    BY <1>0, Zenon DEF ShownOf
  <1>6. item.precision \in Int
    BY DEF HasArgument
  <1>7. Len(Spelled(numeral, DigitChars)) = Len(numeral) /\ Len(numeral) \in Nat
        /\ Spelled(numeral, DigitChars)[1] = DigitChars[1 + numeral[1]]
    <2>1. 1 \in DOMAIN numeral
      BY <1>4, TextLength
    <2>. QED  BY <1>4, <2>1, TextLength, SpelledLonger DEF Spelled
  <1>. HIDE DEF v, m, numeral, digits, shown, cut, Spelled
  <1>8. CASE v # 0
    <2>1. shown = Spelled(numeral, DigitChars)
      BY <1>5, <1>8, Zenon
    <2>2. digits = shown
      <3>1. CASE ~cut
        BY <1>1, <3>1, Zenon
      <3>2. CASE cut
        <4>1. item.precision <= Len(numeral)
          BY <1>3, <1>8, <3>2, Zenon
        <4>2. item.precision - Len(shown) \in Int /\ item.precision - Len(shown) <= 0
          BY <1>6, <1>7, <2>1, <4>1
        <4>3. Times("0", item.precision - Len(shown)) = <<>>
          BY <4>2, TimesParts
        <4>. QED  BY <1>1, <3>2, <4>3, JoinEmpty
      <3>. QED  BY <3>1, <3>2
    <2>3. digits[1] # "0"
      <3>1. digits[1] = DigitChars[1 + numeral[1]] /\ numeral[1] \in 1 .. 7
        BY <1>4, <1>7, <1>8, <2>1, <2>2
      <3>2. \A k \in 1 .. 7 : DigitChars[1 + k] # "0"
        BY DEF DigitChars
      <3>. QED  BY <3>1, <3>2
    <2>4. Head(digits) = digits[1]
      BY DEF Head
    <2>. QED  BY <1>8, <2>3, <2>4 DEF v, m, digits
  <1>9. CASE v = 0
    <2>1. digits # <<>> /\ digits[1] = "0"
      <3>1. CASE ~cut
        <4>1. digits = Spelled(numeral, DigitChars)
          BY <1>1, <1>5, <3>1, Zenon
        <4>2. digits[1] = "0"
          BY <1>4, <1>7, <1>9, <4>1 DEF DigitChars
        <4>3. Len(digits) >= 1
          BY <1>4, <1>7, <4>1
        <4>. QED  BY <4>2, <4>3, EmptySeq
      <3>2. CASE cut
        <4>1. shown = <<"0">> /\ digits = Times("0", item.precision - Len(shown)) \o shown
          BY <1>1, <1>2, <1>3, <1>9, <3>2, Zenon
        <4>2. PICK zeros : zeros = Times("0", item.precision - Len(shown))
          OBVIOUS
        <4>3. IsText(shown) /\ Len(shown) = 1 /\ shown[1] = "0"
          BY <4>1, OneCharacter
        <4>4. /\ Len(zeros) \in Nat /\ IsText(zeros)
              /\ \A k \in 1 .. Len(zeros) : zeros[k] = "0"
          <5>1. item.precision - Len(shown) \in Int
            BY <1>6, <4>3
          <5>2. IsText(zeros)
            BY <4>2, <5>1, TimesIsText
          <5>. QED  BY <4>2, <5>1, <5>2, TimesParts, TextLength
        <4>5. /\ Len(digits) = Len(zeros) + 1
              /\ \A k \in 1 .. Len(zeros) : digits[k] = zeros[k]
              /\ \A k \in 1 .. 1 : digits[Len(zeros) + k] = shown[k]
          BY <4>1, <4>2, <4>3, <4>4, JoinedParts
        <4>6. digits[1] = "0"
          <5>1. CASE Len(zeros) = 0
            <6>1. digits[0 + 1] = shown[1]
              BY <4>5, <5>1
            <6>. QED  BY <4>3, <6>1
          <5>2. CASE Len(zeros) # 0
            BY <4>4, <4>5, <5>2
          <5>. QED  BY <5>1, <5>2
        <4>7. Len(digits) >= 1
          BY <4>4, <4>5
        <4>. QED  BY <4>6, <4>7, EmptySeq
      <3>. QED  BY <3>1, <3>2
    <2>2. Head(digits) = digits[1]
      BY DEF Head
    <2>. QED  BY <1>9, <2>1, <2>2 DEF v, m, digits
  <1>. QED  BY <1>8, <1>9

\* The prefix is C's.
LEMMA NumberPrefix ==
  ASSUME NEW item, item.specifier \in CNumbers, HasArgument(item), Promised(item),
         Len(ShownOf(item)) <= NtoaBuffer
  PROVE  PrefixText(va_arg(item) < 0, Base(item.specifier), NumberFlags(item))
           = CPrefix(item, va_arg(item), CDigits(item, Magnitude(va_arg(item))))
  <1>. DEFINE v       == va_arg(item)
              digits  == CDigits(item, Magnitude(v))
              flags   == NumberFlags(item)
              base    == Base(item.specifier)
              mark    == <<"0", item.specifier>>
  <1>1. v \in Int /\ (~IsSigned(item) => v \in Nat) /\ (Magnitude(v) = 0 <=> v = 0)
    BY ArgumentsAreNumbers, DigitsShown DEF Numeric, CNumbers
  <1>2. /\ "HASH" \in flags <=> "HASH" \in item.flags /\ base # 10 /\ v # 0
        /\ "PLUS" \in flags <=> "PLUS" \in item.flags /\ IsSigned(item)
        /\ "SPACE" \in flags <=> "SPACE" \in item.flags /\ IsSigned(item)
        /\ "UPPERCASE" \in flags <=> item.specifier = "X"
    <2>1. flags = IF v = 0 THEN IntegerFlags(item) \ {"HASH"} ELSE IntegerFlags(item)
      BY <1>1, Zenon DEF NumberFlags
    <2>. HIDE DEF flags, base, v
    <2>2. /\ "HASH" \in IntegerFlags(item) <=> "HASH" \in item.flags /\ base # 10
          /\ "PLUS" \in IntegerFlags(item) <=> "PLUS" \in item.flags /\ IsSigned(item)
          /\ "SPACE" \in IntegerFlags(item) <=> "SPACE" \in item.flags /\ IsSigned(item)
          /\ "UPPERCASE" \in IntegerFlags(item) <=> item.specifier = "X"
      BY FlagsPassed DEF base
    <2>. QED  BY <2>1, <2>2
  <1>3. v < 0 <=> ~(v >= 0)
    BY <1>1
  <1>. HIDE DEF digits, flags, base
  <1>4. CASE IsSigned(item)
    <2>1. base = 10
      BY <1>4, BaseOfNumber DEF base
    <2>2. item.specifier \notin {"x", "X"} /\ item.specifier # "o"
      BY <1>4, Zenon DEF IsSigned
    <2>3. PrefixText(v < 0, base, flags) = SignText(v < 0, flags)
      BY <1>2, <2>1, Zenon DEF PrefixText
    <2>. HIDE DEF v
    <2>4. CASE v < 0
      <3>1. SignText(v < 0, flags) = <<"-">>
        BY <2>4, Zenon DEF SignText
      <3>2. CPrefix(item, v, digits) = <<"-">>
        BY <1>3, <1>4, <2>2, <2>4, Zenon DEF CPrefix
      <3>. QED  BY <2>3, <3>1, <3>2, Zenon DEF v, flags, digits, base
    <2>5. CASE v >= 0 /\ "PLUS" \in item.flags
      <3>1. SignText(v < 0, flags) = <<"+">>
        BY <1>2, <1>3, <1>4, <2>5, Zenon DEF SignText
      <3>2. item.flags \intersect {"PLUS", "SPACE"} # {"SPACE"}
        BY <2>5
      <3>3. CPrefix(item, v, digits) = <<"+">>
        BY <1>3, <1>4, <2>2, <2>5, <3>2, Zenon DEF CPrefix
      <3>. QED  BY <2>3, <3>1, <3>3, Zenon DEF v, flags, digits, base
    <2>6. CASE v >= 0 /\ "PLUS" \notin item.flags /\ "SPACE" \in item.flags
      <3>1. SignText(v < 0, flags) = <<" ">>
        BY <1>2, <1>3, <1>4, <2>6, Zenon DEF SignText
      <3>2. item.flags \intersect {"PLUS", "SPACE"} = {"SPACE"}
        BY <2>6
      <3>3. CPrefix(item, v, digits) = <<" ">>
        BY <1>3, <1>4, <2>2, <2>6, <3>2, Zenon DEF CPrefix
      <3>. QED  BY <2>3, <3>1, <3>3, Zenon DEF v, flags, digits, base
    <2>7. CASE v >= 0 /\ "PLUS" \notin item.flags /\ "SPACE" \notin item.flags
      <3>1. SignText(v < 0, flags) = <<>>
        BY <1>2, <1>3, <1>4, <2>7, Zenon DEF SignText
      <3>2. item.flags \intersect {"PLUS", "SPACE"} # {"SPACE"}
        BY <2>7
      <3>3. CPrefix(item, v, digits) = <<>>
        BY <1>3, <1>4, <2>2, <2>7, <3>2, Zenon DEF CPrefix
      <3>. QED  BY <2>3, <3>1, <3>3, Zenon DEF v, flags, digits, base
    <2>. QED  BY <1>3, <2>4, <2>5, <2>6, <2>7, Zenon
  <1>5. ASSUME ~IsSigned(item) PROVE SignText(v < 0, flags) = <<>>
    <2>1. ~(v < 0)
      BY <1>1, <1>5
    <2>. QED  BY <1>2, <1>5, <2>1, Zenon DEF SignText
  <1>6. CASE item.specifier = "u"
    <2>1. base = 10 /\ ~IsSigned(item)
      BY <1>6, BaseOfNumber DEF base, CNumbers
    <2>2. PrefixText(v < 0, base, flags) = <<>>
      BY <1>2, <1>5, <2>1, Zenon DEF PrefixText
    <2>3. item.specifier \notin {"x", "X"} /\ item.specifier # "o"
      BY <1>6
    <2>4. CPrefix(item, v, digits) = <<>>
      BY <2>1, <2>3, Zenon DEF CPrefix
    <2>. QED  BY <2>2, <2>4, Zenon DEF flags, digits, base
  <1>7. CASE item.specifier \in {"x", "X"}
    <2>1. base = 16 /\ ~IsSigned(item) /\ item.specifier # "o"
      BY <1>7, BaseOfNumber DEF base, CNumbers
    <2>2. CASE "HASH" \in item.flags /\ v # 0
      <3>1. "HASH" \in flags
        BY <1>2, <2>1, <2>2
      <3>2. XOf(flags) = item.specifier
        BY <1>2, <1>7 DEF XOf
      <3>3. PrefixText(v < 0, base, flags) = mark
        BY <2>1, <3>1, <3>2, Zenon DEF PrefixText, MarkText
      <3>4. CPrefix(item, v, digits) = mark
        BY <1>7, <2>1, <2>2, Zenon DEF CPrefix
      <3>. QED  BY <3>3, <3>4, Zenon DEF flags, digits, base
    <2>3. CASE ~("HASH" \in item.flags /\ v # 0)
      <3>1. PrefixText(v < 0, base, flags) = <<>>
        BY <1>2, <1>5, <2>1, <2>3, Zenon DEF PrefixText
      <3>2. CPrefix(item, v, digits) = <<>>
        BY <2>1, <2>3, Zenon DEF CPrefix
      <3>. QED  BY <3>1, <3>2, Zenon DEF flags, digits, base
    <2>. QED  BY <2>2, <2>3
  <1>8. CASE item.specifier = "o"
    <2>1. base = 8 /\ ~IsSigned(item) /\ item.specifier \notin {"x", "X"}
      BY <1>8, BaseOfNumber DEF base, CNumbers
    <2>2. "HASH" \in item.flags => (digits = <<>> \/ Head(digits) # "0" <=> v # 0)
      BY <1>8, OctalHead DEF digits
    <2>3. CASE "HASH" \in item.flags /\ v # 0
      <3>1. "HASH" \in flags /\ base # 16
        BY <1>2, <2>1, <2>3
      <3>2. PrefixText(v < 0, base, flags) = <<"0">>
        BY <3>1, Zenon DEF PrefixText, MarkText
      <3>3. CPrefix(item, v, digits) = <<"0">>
        BY <1>8, <2>1, <2>2, <2>3, Zenon DEF CPrefix
      <3>. QED  BY <3>2, <3>3, Zenon DEF flags, digits, base
    <2>4. CASE ~("HASH" \in item.flags /\ v # 0)
      <3>1. PrefixText(v < 0, base, flags) = <<>>
        BY <1>2, <1>5, <2>1, <2>4, Zenon DEF PrefixText
      <3>2. CPrefix(item, v, digits) = <<>>
        BY <2>1, <2>2, <2>4, Zenon DEF CPrefix
      <3>. QED  BY <3>1, <3>2, Zenon DEF flags, digits, base
    <2>. QED  BY <2>3, <2>4
  <1>9. IsSigned(item) \/ item.specifier \in {"u", "x", "X", "o"}
    BY DEF CNumbers, IsSigned
  <1>. QED  BY <1>4, <1>6, <1>7, <1>8, <1>9

\* What the code is given is what its own arithmetic of widths can do.
LEMMA NumberAdmitted ==
  ASSUME NEW item, item.specifier \in CNumbers, HasArgument(item), Promised(item),
         Len(ShownOf(item)) <= NtoaBuffer, WidthOf(item) <= NtoaBuffer, PrecisionOf(item) <= NtoaBuffer
  PROVE  Admitted(Len(NumberBuf(item)), va_arg(item) < 0, Base(item.specifier),
                  PrecisionOf(item), WidthOf(item), NumberFlags(item))
  <1>. DEFINE v       == va_arg(item)
              base    == Base(item.specifier)
              flags   == NumberFlags(item)
              n       == Len(NumberBuf(item))
              numeral == Numeral(Magnitude(v), base)
              width   == WidthOf(item)
              cut     == "PRECISION" \in item.flags
  <1>1. v \in Int /\ (~IsSigned(item) => v \in Nat) /\ (Magnitude(v) = 0 <=> v = 0) /\ base \in {8, 10, 16}
    BY ArgumentsAreNumbers, DigitsShown DEF Numeric, CNumbers
  <1>2. PrecisionOf(item) \in Nat /\ width \in Nat /\ (~cut => PrecisionOf(item) = 0)
    BY WidthsAreNumbers DEF PrecisionOf
  <1>3. /\ "HASH" \in flags <=> "HASH" \in item.flags /\ base # 10 /\ v # 0
        /\ "PLUS" \in flags <=> "PLUS" \in item.flags /\ IsSigned(item)
        /\ "SPACE" \in flags <=> "SPACE" \in item.flags /\ IsSigned(item)
        /\ "PRECISION" \in flags <=> cut
        /\ "ZEROPAD" \in flags <=> "ZEROPAD" \in item.flags /\ ~cut
        /\ "LEFT" \in flags <=> "LEFT" \in FlagsOf(item)
    <2>1. flags = IF v = 0 THEN IntegerFlags(item) \ {"HASH"} ELSE IntegerFlags(item)
      BY <1>1, Zenon DEF NumberFlags
    <2>. HIDE DEF flags, base, v
    <2>2. /\ "HASH" \in IntegerFlags(item) <=> "HASH" \in item.flags /\ base # 10
          /\ "PLUS" \in IntegerFlags(item) <=> "PLUS" \in item.flags /\ IsSigned(item)
          /\ "SPACE" \in IntegerFlags(item) <=> "SPACE" \in item.flags /\ IsSigned(item)
          /\ "PRECISION" \in IntegerFlags(item) <=> cut
          /\ "ZEROPAD" \in IntegerFlags(item) <=> "ZEROPAD" \in item.flags /\ ~cut
          /\ "LEFT" \in IntegerFlags(item) <=> "LEFT" \in FlagsOf(item)
      BY FlagsPassed DEF base
    <2>. QED  BY <2>1, <2>2
  <1>4. /\ base = 10 \/ ~IsSigned(item)
        /\ base # 10 => item.specifier \in {"x", "X", "o"}
        /\ base = 16 => item.specifier \in {"x", "X"}
    BY BaseOfNumber DEF CNumbers
  <1>5. Len(numeral) >= 1
    BY DigitsShown DEF Spells
  <1>6. ~cut \/ v # 0 => n = Len(numeral)
    BY NumberBufShown
  <1>7. /\ "HASH" \in item.flags /\ v # 0 /\ ~cut /\ item.specifier \in {"x", "X", "o"} => width # Len(numeral)
        /\ "HASH" \in item.flags /\ v # 0 /\ ~cut /\ item.specifier \in {"x", "X"}
             /\ "ZEROPAD" \in item.flags /\ "LEFT" \notin FlagsOf(item) => width # Len(numeral) + 1
    <2>1. PICK digits : digits = IF cut /\ v = 0 THEN 0 ELSE Len(numeral)
      OBVIOUS
    <2>2. /\ "HASH" \in item.flags /\ v # 0 /\ ~cut /\ item.specifier \in {"x", "X", "o"} => width # digits
          /\ "HASH" \in item.flags /\ v # 0 /\ ~cut /\ item.specifier \in {"x", "X"}
               /\ "ZEROPAD" \in item.flags /\ "LEFT" \notin FlagsOf(item) => width # digits + 1
      BY <2>1, Zenon DEF Promised
    <2>. HIDE DEF v, numeral, width, cut
    <2>. QED  BY <2>1, <2>2
  <1>8. "HASH" \in flags => ~(v < 0)
    BY <1>1, <1>3, <1>4
  <1>9. (v < 0) \in BOOLEAN
    BY <1>1
  <1>. HIDE DEF v, base, flags, n, numeral, width, cut
  <1>10. "HASH" \in flags => base \in {8, 16} /\ {"PLUS", "SPACE"} \intersect flags = {}
    BY <1>1, <1>3, <1>4
  <1>11. "HASH" \in flags /\ "PRECISION" \notin flags => n > 0 /\ width # n
    <2>. SUFFICES ASSUME "HASH" \in flags, "PRECISION" \notin flags PROVE n > 0 /\ width # n
      OBVIOUS
    <2>1. n = Len(numeral) /\ width # Len(numeral)
      BY <1>3, <1>4, <1>6, <1>7, Zenon
    <2>2. n >= 1 /\ n \in Nat
      <3>1. Len(numeral) \in Nat
        BY DigitsShown, TextLength DEF Spells, numeral, v, base
      <3>. QED  BY <1>5, <2>1, <3>1
    <2>. QED  BY <2>1, <2>2
  <1>12. "HASH" \in flags /\ "ZEROPAD" \in flags /\ "LEFT" \notin flags /\ base = 16 => width # n + 1
    BY <1>3, <1>4, <1>6, <1>7, Zenon
  <1>13. "ZEROPAD" \in flags => "PRECISION" \notin flags
    BY <1>3
  <1>14. "PRECISION" \notin flags => PrecisionOf(item) = 0
    BY <1>2, <1>3
  <1>15. PrecisionOf(item) \in Nat /\ width \in Nat /\ PrecisionOf(item) <= NtoaBuffer /\ width <= NtoaBuffer
    BY <1>2 DEF width
  <1>. QED
    BY <1>8, <1>9, <1>10, <1>11, <1>12, <1>13, <1>14, <1>15, Zenon DEF Admitted, v, base, flags, n, width

\* A number prints what C says.
LEMMA NumberAsInC ==
  ASSUME NEW item, item.specifier \in CNumbers, HasArgument(item), Promised(item)
  PROVE  Integer(item) = CNumber(item)
  <1>. DEFINE v      == va_arg(item)
              digits == CDigits(item, Magnitude(v))
              prefix == CPrefix(item, v, digits)
              flags  == NumberFlags(item)
              width  == WidthOf(item)
              buf    == NumberBuf(item)
              base   == Base(item.specifier)
              prec   == PrecisionOf(item)
              laid   == Laid(prefix, digits, width, flags)
  <1>1. CNumber(item) = laid
    <2>1. flags = IntegerFlags(item) \/ flags = IntegerFlags(item) \ {"HASH"}
      BY DEF NumberFlags
    <2>. QED  BY <2>1, NumberLaid
  <1>2. /\ IsText(digits) /\ Len(ShownOf(item)) <= Len(digits)
        /\ "PRECISION" \in item.flags => item.precision <= Len(digits)
    BY DigitsShown
  <1>3. IsText(prefix) /\ width \in Nat /\ prec \in Nat
    BY CPrefixIsText, WidthsAreNumbers
  <1>4. width <= Len(laid) /\ Len(prefix) + Len(digits) <= Len(laid)
    BY <1>2, <1>3, LaidLength
  <1>5. Len(laid) <= NtoaBuffer
    BY <1>1, Zenon DEF Promised
  <1>6. /\ Len(laid) \in Nat /\ Len(prefix) \in Nat /\ Len(digits) \in Nat /\ Len(ShownOf(item)) \in Nat
        /\ NtoaBuffer \in Nat
    BY <1>2, <1>3, LaidLength, TextLength, DigitsShown, KprintfAssumption
  <1>7. Len(ShownOf(item)) <= NtoaBuffer /\ width <= NtoaBuffer
    BY <1>2, <1>3, <1>4, <1>5, <1>6
  <1>8. prec <= NtoaBuffer
    <2>1. prec = 0 \/ ("PRECISION" \in item.flags /\ prec = item.precision)
      BY DEF PrecisionOf
    <2>. HIDE DEF prec, digits, laid, prefix
    <2>. QED  BY <1>2, <1>3, <1>4, <1>5, <1>6, <2>1
  <1>9. Admitted(Len(buf), v < 0, base, prec, width, flags)
    BY <1>7, <1>8, NumberAdmitted
  <1>10. IsText(buf)
    BY <1>7, NumberBufShown
  <1>11. Zeroed(Reverse(buf), prec, flags) = digits
    BY <1>7, NumberZeroed
  <1>12. PrefixText(v < 0, base, flags) = prefix
    BY <1>7, NumberPrefix
  <1>13. Integer(item) = _ntoa_format(buf, v < 0, base, prec, width, flags)
    BY Zenon DEF Integer, _ntoa_long, NumberBuf, NumberFlags
  <1>. HIDE DEF v, digits, prefix, flags, width, buf, base, prec
  <1>14. Len(PrefixText(v < 0, base, flags)) + Len(Zeroed(Reverse(buf), prec, flags)) <= NtoaBuffer
    BY <1>4, <1>5, <1>6, <1>11, <1>12
  <1>15. _ntoa_format(buf, v < 0, base, prec, width, flags) = laid
    <2>1. PICK negative : negative = (v < 0)
      OBVIOUS
    <2>2. /\ Admitted(Len(buf), negative, base, prec, width, flags)
          /\ Len(PrefixText(negative, base, flags)) + Len(Zeroed(Reverse(buf), prec, flags)) <= NtoaBuffer
      BY <1>9, <1>14, <2>1, Zenon
    <2>3. _ntoa_format(buf, negative, base, prec, width, flags)
            = Laid(PrefixText(negative, base, flags), Zeroed(Reverse(buf), prec, flags), width, flags)
      <3>1. CASE "ZEROPAD" \in flags /\ "LEFT" \notin flags
        BY <1>10, <2>2, <3>1, FormatWithZeros
      <3>2. CASE ~("ZEROPAD" \in flags /\ "LEFT" \notin flags)
        BY <1>10, <2>2, <3>2, FormatWithSpaces
      <3>. QED  BY <3>1, <3>2
    <2>. QED  BY <1>11, <1>12, <2>1, <2>3, Zenon
  <1>. QED  BY <1>1, <1>13, <1>15, Zenon

\* What does not depart from C is promised.
LEMMA NumbersPromised ==
  ASSUME NEW item, item.specifier \in CNumbers, HasArgument(item), ~Departs(item)
  PROVE  Promised(item) /\ CText(item) = CNumber(item) /\ Output(item) = Integer(item)
  <1>. DEFINE v       == va_arg(item)
              cut     == "PRECISION" \in item.flags
              digits  == IF cut /\ v = 0 THEN 0 ELSE Len(Numeral(Magnitude(v), Base(item.specifier)))
              padding == FlagsOf(item) \intersect {"ZEROPAD", "LEFT", "PRECISION"}
              hash    == "HASH" \in item.flags /\ v # 0
              width   == WidthOf(item)
              s       == item.specifier
  <1>1. s # "text" /\ s # "c" /\ s # "p" /\ s # "s" /\ s \in {"d", "i", "u", "x", "X", "o"}
    BY DEF CNumbers
  <1>2. CText(item) = CNumber(item)
    BY <1>1, Zenon DEF CText
  <1>3. Output(item) = Integer(item)
    <2>1. s \in {"d", "i", "u", "x", "X", "o", "b"}
      BY <1>1
    <2>. QED  BY <1>1, <2>1, Zenon DEF Output
  <1>4. Departs(item) <=>
            \/ cut /\ item.precision < 0
            \/ Len(CText(item)) > NtoaBuffer
            \/ cut /\ "LEFT" \in padding /\ item.precision > digits
            \/ hash /\ s \in {"x", "X"} /\ ~cut
                 /\ width \in {digits} \cup (IF padding = {"ZEROPAD"} THEN {digits + 1} ELSE {})
            \/ hash /\ s = "o" /\ ~cut /\ width = digits
            \/ "HASH" \in item.flags /\ s = "o" /\ cut
                 /\ IF v = 0 THEN item.precision = 0 ELSE item.precision > digits
    BY <1>1, Zenon DEF Departs
  <1>5. digits \in Nat /\ item.precision \in Int /\ NtoaBuffer \in Nat
    <2>1. IsText(Numeral(Magnitude(v), Base(s)))
      BY DigitsShown DEF Spells
    <2>2. Len(Numeral(Magnitude(v), Base(s))) \in Nat
      BY <2>1, TextLength
    <2>. QED  BY <2>2, KprintfAssumption DEF HasArgument
  <1>6. Len(CNumber(item)) \in Nat
    <2>1. IsText(CPrefix(item, v, CDigits(item, Magnitude(v)))) /\ IsText(CDigits(item, Magnitude(v)))
      BY CPrefixIsText, DigitsShown
    <2>2. width \in Nat
      BY WidthsAreNumbers
    <2>3. IsText(CNumber(item))
      BY <2>1, <2>2, NumberLaid, LaidLength
    <2>. QED  BY <2>3, TextLength
  <1>7. /\ "LEFT" \in padding <=> "LEFT" \in FlagsOf(item)
        /\ ~cut => (padding = {"ZEROPAD"} <=> "ZEROPAD" \in item.flags /\ "LEFT" \notin FlagsOf(item))
    <2>1. \A f \in {"PRECISION", "ZEROPAD"} : f \in FlagsOf(item) <=> f \in item.flags
      BY FlagsPassed
    <2>. QED  BY <2>1
  <1>. HIDE DEF v, digits, padding, width, cut, hash, s
  <1>8. cut => item.precision >= 0
    <2>1. ~(cut /\ item.precision < 0)
      BY <1>4, Zenon
    <2>. QED  BY <1>5, <2>1
  <1>9. Len(CNumber(item)) <= NtoaBuffer
    <2>1. ~(Len(CNumber(item)) > NtoaBuffer)
      BY <1>2, <1>4, Zenon
    <2>. QED  BY <1>5, <1>6, <2>1
  <1>10. cut /\ "LEFT" \in FlagsOf(item) => item.precision <= digits
    <2>1. ~(cut /\ "LEFT" \in FlagsOf(item) /\ item.precision > digits)
      BY <1>4, <1>7, Zenon
    <2>. QED  BY <1>5, <2>1
  <1>11. "HASH" \in item.flags /\ v # 0 /\ ~cut /\ s \in {"x", "X", "o"} => width # digits
    <2>. SUFFICES ASSUME "HASH" \in item.flags, v # 0, ~cut, s \in {"x", "X", "o"}, width = digits PROVE FALSE
      OBVIOUS
    <2>1. hash
      BY DEF hash
    <2>2. width \in {digits} \cup (IF padding = {"ZEROPAD"} THEN {digits + 1} ELSE {})
      OBVIOUS
    <2>. QED  BY <1>4, <2>1, <2>2, Zenon
  <1>12. "HASH" \in item.flags /\ v # 0 /\ ~cut /\ s \in {"x", "X"} /\ "ZEROPAD" \in item.flags
           /\ "LEFT" \notin FlagsOf(item) => width # digits + 1
    <2>. SUFFICES ASSUME "HASH" \in item.flags, v # 0, ~cut, s \in {"x", "X"}, "ZEROPAD" \in item.flags,
                         "LEFT" \notin FlagsOf(item), width = digits + 1
                  PROVE  FALSE
      OBVIOUS
    <2>1. hash /\ padding = {"ZEROPAD"}
      BY <1>7, Zenon DEF hash
    <2>2. width \in {digits} \cup (IF padding = {"ZEROPAD"} THEN {digits + 1} ELSE {})
      BY <2>1
    <2>. QED  BY <1>4, <2>1, <2>2, Zenon
  <1>13. "HASH" \in item.flags /\ cut /\ s = "o" => IF v = 0 THEN item.precision # 0 ELSE item.precision <= digits
    <2>1. "HASH" \in item.flags /\ cut /\ s = "o" => IF v = 0 THEN item.precision # 0 ELSE ~(item.precision > digits)
      BY <1>4, Zenon
    <2>. QED  BY <1>5, <2>1
  <1>14. Promised(item)
    BY <1>8, <1>9, <1>10, <1>11, <1>12, <1>13, Zenon DEF Promised, v, digits, cut, s, width
  <1>. QED  BY <1>2, <1>3, <1>14

\* A pointer is an unsigned long in hexadecimal digits.
LEMMA PointerAsInC ==
  ASSUME NEW item, item.specifier = "p", HasArgument(item), ~Departs(item)
  PROVE  PointerText(item) = CText(item)
  <1>. DEFINE number == [item EXCEPT !.specifier = "X", !.flags = {"ZEROPAD"}, !.width = PointerWidth,
                                     !.length = "l"]
              v == Pointer(item)
  <1>1. CText(item) = CNumber(number)
    <2>1. item.specifier \notin {"d", "i", "u", "x", "X", "o"} /\ item.specifier # "s"
          /\ item.specifier # "c" /\ item.specifier # "text"
      OBVIOUS
    <2>. QED  BY <2>1, Zenon DEF CText
  <1>2. FlagsOf(item) = {} /\ ~(Len(CText(item)) > NtoaBuffer)
    <2>1. item.specifier # "text" /\ item.specifier # "c" /\ item.specifier # "s"
          /\ item.specifier \notin {"d", "i", "u", "x", "X", "o"}
      OBVIOUS
    <2>2. Departs(item) <=> FlagsOf(item) # {} \/ Len(CText(item)) > NtoaBuffer
      BY <2>1, Zenon DEF Departs
    <2>. QED  BY <2>2
  <1>3. /\ number.specifier = "X" /\ number.flags = {"ZEROPAD"} /\ number.width = PointerWidth
        /\ number.length = "l" /\ number.precision = item.precision /\ number.arg = item.arg
        /\ DOMAIN number = DOMAIN item
    BY DEF HasArgument
  <1>4. item.arg \in Int /\ item.precision \in Int /\ PointerWidth \in Nat
    BY WidthsAreNumbers DEF HasArgument, Numeric
  <1>5. v \in Nat
    BY ArgumentsAreNumbers DEF Numeric
  <1>. HIDE DEF number
  <1>6. HasArgument(number) /\ number.specifier \in CNumbers
    <2>1. {"ZEROPAD"} \subseteq Flags /\ "l" \in Lengths /\ "X" \in CNumbers /\ "X" # "s"
      BY DEF Flags, Lengths, CNumbers
    <2>. QED  BY <1>3, <1>4, <2>1 DEF HasArgument
  <1>7. va_arg(number) = v
    <2>1. ValuesOf("l") = LongValues
      BY DEF ValuesOf
    <2>2. ~IsSigned(number)
      BY <1>3 DEF IsSigned
    <2>. QED  BY <1>3, <2>1, <2>2 DEF va_arg, Pointer
  <1>8. FlagsOf(number) = {"ZEROPAD"} /\ WidthOf(number) = PointerWidth
    BY <1>3, <1>4 DEF FlagsOf, WidthOf, Magnitude
  <1>9. "PRECISION" \notin number.flags /\ "HASH" \notin number.flags /\ "PRECISION" \notin item.flags
    BY <1>2, <1>3 DEF FlagsOf
  <1>10. Promised(number)
    <2>1. Len(CNumber(number)) \in Nat
      <3>1. /\ IsText(CPrefix(number, va_arg(number), CDigits(number, Magnitude(va_arg(number)))))
            /\ IsText(CDigits(number, Magnitude(va_arg(number))))
        BY <1>6, CPrefixIsText, DigitsShown
      <3>2. IsText(CNumber(number))
        <4>1. WidthOf(number) \in Nat
          BY <1>6, WidthsAreNumbers
        <4>. QED  BY <1>6, <3>1, <4>1, NumberLaid, LaidLength
      <3>. QED  BY <3>2, TextLength
    <2>2. Len(CNumber(number)) <= NtoaBuffer
      BY <1>1, <1>2, <2>1, KprintfAssumption
    <2>. QED  BY <1>9, <2>2, Zenon DEF Promised
  <1>11. Integer(number) = CNumber(number)
    BY <1>6, <1>10, NumberAsInC
  <1>12. IntegerFlags(number) = {"ZEROPAD", "UPPERCASE"} /\ Base(number.specifier) = 16
    <2>1. Base(number.specifier) = 16 /\ ~IsSigned(number)
      BY <1>3, <1>6, BaseOfNumber
    <2>2. IntegerFlags(number) =
            (FlagsOf(number) \ ((IF 16 = 10 THEN {"HASH"} ELSE {}) \cup {"PLUS", "SPACE"} \cup {}))
              \cup {"UPPERCASE"}
      BY <1>3, <1>9, <2>1, Zenon DEF IntegerFlags
    <2>3. {"ZEROPAD"} \ ((IF 16 = 10 THEN {"HASH"} ELSE {}) \cup {"PLUS", "SPACE"} \cup {}) = {"ZEROPAD"}
      OBVIOUS
    <2>. QED  BY <1>8, <2>1, <2>2, <2>3
  <1>13. PrecisionOf(number) = 0 /\ PrecisionOf(item) = 0
    BY <1>9 DEF PrecisionOf
  <1>14. Magnitude(v) = v /\ (v < 0) = FALSE
    BY <1>5 DEF Magnitude
  <1>15. Integer(number) = _ntoa_long(v, FALSE, 16, 0, PointerWidth, {"ZEROPAD", "UPPERCASE"})
    BY <1>7, <1>8, <1>12, <1>13, <1>14, Zenon DEF Integer
  <1>16. {} \cup {"ZEROPAD", "UPPERCASE"} = {"ZEROPAD", "UPPERCASE"}
    OBVIOUS
  <1>17. PointerText(item) = _ntoa_long(v, FALSE, 16, 0, PointerWidth, {"ZEROPAD", "UPPERCASE"})
    BY <1>2, <1>13, <1>16, Zenon DEF PointerText
  <1>. QED  BY <1>1, <1>11, <1>15, <1>17, Zenon

\* A string is cut off by the precision.
LEMMA StringAsInC ==
  ASSUME NEW item, item.specifier = "s", HasArgument(item), ~Departs(item)
  PROVE  String(item) = CText(item)
  <1>. DEFINE n      == Len(item.arg)
              cut    == "PRECISION" \in item.flags
              prec   == PrecisionOf(item)
              length == _strnlen_s(item.arg, IF prec = 0 THEN n ELSE prec)
              l      == IF cut THEN Smaller(length, prec) ELSE length
              chars  == IF cut THEN SubSeq(item.arg, 1, Smaller(n, prec)) ELSE item.arg
              shown  == IF cut THEN [k \in 1 .. Smaller(n, item.precision) |-> item.arg[k]] ELSE item.arg
  <1>1. CText(item) = CPad(shown, item)
    <2>1. item.specifier \notin {"d", "i", "u", "x", "X", "o"} /\ item.specifier # "p"
          /\ item.specifier # "c" /\ item.specifier # "text"
      OBVIOUS
    <2>. QED  BY <2>1, Zenon DEF CText
  <1>2. ~(cut /\ item.precision < 0)
    <2>1. item.specifier # "text" /\ item.specifier # "c" /\ item.specifier # "p"
          /\ item.specifier \notin {"d", "i", "u", "x", "X", "o"}
      OBVIOUS
    <2>2. Departs(item) <=> item.flags \ {"LEFT", "PRECISION"} # {} \/ (cut /\ item.precision < 0)
      BY <2>1, Zenon DEF Departs
    <2>. QED  BY <2>2
  <1>3. item.arg \in Seq(STRING) /\ n \in Nat /\ item.precision \in Int
    BY LenProperties DEF HasArgument
  <1>4. prec \in Nat /\ prec = IF cut THEN item.precision ELSE 0
    BY <1>2, <1>3 DEF PrecisionOf
  <1>. HIDE DEF prec, n
  <1>5. length = IF prec = 0 THEN n ELSE Smaller(n, prec)
    BY <1>3, <1>4 DEF _strnlen_s, n, Smaller
  <1>. HIDE DEF length
  <1>6. l = IF cut THEN Smaller(n, prec) ELSE n
    BY <1>3, <1>4, <1>5 DEF Smaller
  <1>7. chars = shown /\ Len(shown) = l
    <2>1. CASE cut
      <3>1. Smaller(n, prec) \in 0 .. n
        BY <1>3, <1>4 DEF Smaller
      <3>2. PICK m \in 0 .. n : m = Smaller(n, prec)
        BY <3>1
      <3>3. SubSeq(item.arg, 1, m) = [k \in 1 .. m |-> item.arg[k]]
        BY <1>3, <3>2 DEF n
      <3>4. Len(SubSeq(item.arg, 1, m)) = m
        BY <1>3, <3>2 DEF n
      <3>. QED  BY <1>4, <1>6, <2>1, <3>2, <3>3, <3>4
    <2>2. CASE ~cut
      BY <1>6, <2>2 DEF n
    <2>. QED  BY <2>1, <2>2
  <1>8. String(item) = Padded(chars, l, item)
    BY Zenon DEF String, l, length, prec, n
  <1>. HIDE DEF chars, shown, l
  <1>9. Padded(shown, Len(shown), item) = CPad(shown, item)
    BY Zenon DEF Padded, CPad
  <1>. QED  BY <1>1, <1>7, <1>8, <1>9, Zenon

\* An item that does not depart from C prints what C says.
LEMMA ItemAsInC ==
  ASSUME NEW item, HasArgument(item), ~Departs(item)
  PROVE  Output(item) = CText(item)
  <1>. DEFINE s == item.specifier
  <1>1. CASE s \in CNumbers
    BY <1>1, NumbersPromised, NumberAsInC
  <1>2. CASE s = "p"
    <2>1. s # "text" /\ s \notin {"d", "i", "u", "x", "X", "o", "b"} /\ s # "c" /\ s # "s"
      BY <1>2
    <2>2. Output(item) = PointerText(item)
      BY <1>2, <2>1, Zenon DEF Output
    <2>. QED  BY <1>2, <2>2, PointerAsInC
  <1>3. CASE s = "s"
    <2>1. s # "text" /\ s \notin {"d", "i", "u", "x", "X", "o", "b"} /\ s # "c" /\ s # "p"
      BY <1>3
    <2>2. Output(item) = String(item)
      BY <1>3, <2>1, Zenon DEF Output
    <2>. QED  BY <1>3, <2>2, StringAsInC
  <1>4. CASE s = "c"
    <2>1. s # "text" /\ s \notin {"d", "i", "u", "x", "X", "o", "b"} /\ s # "s" /\ s # "p"
          /\ s \notin {"d", "i", "u", "x", "X", "o"}
      BY <1>4
    <2>2. Output(item) = Padded(<<item.arg>>, 1, item)
      BY <1>4, <2>1, Zenon DEF Output
    <2>3. CText(item) = CPad(<<item.arg>>, item)
      BY <1>4, <2>1, Zenon DEF CText
    <2>4. Len(<<item.arg>>) = 1
      BY OneCharacter
    <2>5. \A text : Padded(text, Len(text), item) = CPad(text, item)
      BY Zenon DEF Padded, CPad
    <2>6. Padded(<<item.arg>>, Len(<<item.arg>>), item) = CPad(<<item.arg>>, item)
      BY <2>5, Zenon
    <2>. QED  BY <2>2, <2>3, <2>4, <2>6
  <1>5. CASE s = "text"
    <2>1. s # "c" /\ s \notin {"d", "i", "u", "x", "X", "o", "b"} /\ s # "s" /\ s # "p"
          /\ s \notin {"d", "i", "u", "x", "X", "o"}
      BY <1>5
    <2>. QED  BY <1>5, <2>1, Zenon DEF Output, CText
  <1>6. CASE s \notin CNumbers /\ s # "p" /\ s # "s" /\ s # "c" /\ s # "text"
    <2>1. s \notin {"d", "i", "u", "x", "X", "o"}
      BY <1>6 DEF CNumbers
    <2>2. s = "%"
      BY <1>6, <2>1, Zenon DEF Departs
    <2>3. s \notin {"d", "i", "u", "x", "X", "o", "b"}
      BY <2>2
    <2>4. Output(item) = <<item.specifier>>
      BY <1>6, <2>3, Zenon DEF Output
    <2>5. CText(item) = <<"%">>
      BY <1>6, <2>1, Zenon DEF CText
    <2>. QED  BY <2>2, <2>4, <2>5
  <1>. QED  BY <1>1, <1>2, <1>3, <1>4, <1>5, <1>6
----------------------------------------------------------------------------
(* Calls of snprintf.                                                      *)

FormatsText == {"format", "vendor"}

\* Calls begin and go on in two phases, which are left when the call is over.
LEMMA KprintfSteps ==
  ASSUME Next
  PROVE  \/ /\ phase' \in FormatsText
            /\ \/ snprintf(Calls) \/ KprintfNext
               \/ \E processor \in CPUs : snprintf({[items |-> VendorItems(processor), count |-> 13]})
         \/ KprintfReset
         \/ UNCHANGED kprintfVars /\ (phase \in FormatsText => phase' \in FormatsText)
  <1>. USE DEF Phase, Enter, LogAndEnter, SameLibraries, FormatsText
  <1>1. CASE FramebufferInit  BY <1>1, Zenon DEF FramebufferInit
  <1>2. CASE Draw  BY <1>2, Zenon DEF Draw
  <1>3. CASE SerialInitPhase  BY <1>3, Zenon DEF SerialInitPhase
  <1>4. CASE SendString \/ Uart \/ Interrupt  BY <1>4, Zenon DEF SendString, Uart, Interrupt
  <1>5. CASE Welcome  BY <1>5, Zenon DEF Welcome
  <1>6. CASE Format  BY <1>6, Zenon DEF Format
  <1>7. CASE PmmInit \/ VmmInit \/ SlabInit  BY <1>7, Zenon DEF PmmInit, VmmInit, SlabInit
  <1>8. CASE GdtPhase \/ IdtInit  BY <1>8, Zenon DEF GdtPhase, IdtInit
  <1>9. CASE GetVendor  BY <1>9, Zenon DEF GetVendor
  <1>10. CASE AcpiPhase  BY <1>10, Zenon DEF AcpiPhase
  <1>11. CASE ApicInit  BY <1>11, Zenon DEF ApicInit
  <1>. QED
    BY <1>1, <1>2, <1>3, <1>4, <1>5, <1>6, <1>7, <1>8, <1>9, <1>10, <1>11, Zenon DEF Next, Run, kmain

\* text is what the items print, one behind the other.
Joins(text, items) ==
  \E f : /\ f = [n \in 0 .. Len(items) |-> IF n = 0 THEN <<>> ELSE f[n - 1] \o Output(items[n])]
         /\ text = f[Len(items)]

LEMMA JoinsNothing ==
  ASSUME NEW items, Len(items) = 0
  PROVE  Joins(<<>>, items)
  <1>. DEFINE f == [n \in 0 .. 0 |-> <<>>]
  <1>1. f = [n \in 0 .. 0 |-> IF n = 0 THEN <<>> ELSE f[n - 1] \o Output(items[n])]
    OBVIOUS
  <1>2. f[0] = <<>>
    OBVIOUS
  <1>. HIDE DEF f
  <1>3. /\ f = [n \in 0 .. Len(items) |-> IF n = 0 THEN <<>> ELSE f[n - 1] \o Output(items[n])]
        /\ <<>> = f[Len(items)]
    BY <1>1, <1>2, Zenon
  <1>. QED  BY <1>3, Zenon DEF Joins

LEMMA JoinsMore ==
  ASSUME NEW text, NEW items, Joins(text, items), Len(items) \in Nat,
         NEW more, Len(more) = Len(items) + 1, \A j \in 1 .. Len(items) : more[j] = items[j]
  PROVE  Joins(text \o Output(more[Len(more)]), more)
  <1>. DEFINE n == Len(items)
              O(j) == Output(more[j])
  <1>1. PICK f : /\ f = [j \in 0 .. n |-> IF j = 0 THEN <<>> ELSE f[j - 1] \o Output(items[j])]
                 /\ text = f[n]
    BY Zenon DEF Joins
  <1>. HIDE DEF n
  <1>2. n \in Nat /\ Len(more) = n + 1
    BY DEF n
  <1>3. \A j \in 1 .. n : Output(items[j]) = O(j)
    BY DEF n
  <1>. DEFINE g == [j \in 0 .. (n + 1) |-> IF j = n + 1 THEN text \o O(n + 1) ELSE f[j]]
  <1>. HIDE DEF O
  <1>4. \A j \in 0 .. n : f[j] = IF j = 0 THEN <<>> ELSE f[j - 1] \o Output(items[j])
    BY <1>1, Zenon
  <1>5. \A j \in 0 .. n : f[j] = IF j = 0 THEN <<>> ELSE f[j - 1] \o O(j)
    <2>1. ASSUME NEW j \in 0 .. n, j # 0 PROVE j \in 1 .. n
      BY <1>2, <2>1
    <2>. QED  BY <1>3, <1>4, <2>1, Zenon
  <1>6. \A j \in 0 .. (n + 1) : g[j] = IF j = 0 THEN <<>> ELSE g[j - 1] \o O(j)
    <2>. TAKE j \in 0 .. (n + 1)
    <2>1. CASE j = n + 1
      <3>1. j # 0 /\ j - 1 = n /\ n \in 0 .. (n + 1) /\ n # n + 1
        BY <1>2, <2>1
      <3>2. g[n] = f[n]
        BY <3>1
      <3>3. g[j] = text \o O(n + 1)
        BY <2>1
      <3>. HIDE DEF g
      <3>. QED  BY <1>1, <2>1, <3>1, <3>2, <3>3, Zenon
    <2>2. CASE j # n + 1 /\ j # 0
      <3>1. j \in 0 .. n /\ j - 1 \in 0 .. (n + 1) /\ j - 1 # n + 1
        BY <1>2, <2>2
      <3>2. g[j] = f[j] /\ g[j - 1] = f[j - 1]
        BY <2>2, <3>1
      <3>. HIDE DEF g
      <3>. QED  BY <1>5, <2>2, <3>1, <3>2, Zenon
    <2>3. CASE j # n + 1 /\ j = 0
      <3>1. g[j] = f[j] /\ j \in 0 .. n
        BY <1>2, <2>3
      <3>. HIDE DEF g
      <3>. QED  BY <1>5, <2>3, <3>1, Zenon
    <2>. QED  BY <2>1, <2>2, <2>3
  <1>7. g = [j \in 0 .. (n + 1) |-> g[j]]
    BY Zenon
  <1>8. g[n + 1] = text \o O(n + 1)
    BY <1>2
  <1>. HIDE DEF g
  <1>9. g = [j \in 0 .. (n + 1) |-> IF j = 0 THEN <<>> ELSE g[j - 1] \o O(j)]
    BY <1>6, <1>7, Zenon
  <1>10. PICK m : m = n + 1
    OBVIOUS
  <1>11. /\ g = [j \in 0 .. Len(more) |-> IF j = 0 THEN <<>> ELSE g[j - 1] \o Output(more[j])]
         /\ text \o Output(more[Len(more)]) = g[Len(more)]
    <2>1. Len(more) = m
      BY <1>2, <1>10
    <2>2. g = [j \in 0 .. m |-> IF j = 0 THEN <<>> ELSE g[j - 1] \o Output(more[j])]
      BY <1>9, <1>10, Zenon DEF O
    <2>3. text \o Output(more[m]) = g[m]
      BY <1>8, <1>10, Zenon DEF O
    <2>. QED  BY <2>1, <2>2, <2>3, Zenon
  <1>. QED  BY <1>11, Zenon DEF Joins

\* When each item prints what C says, so do all of them.
LEMMA JoinsAsInC ==
  ASSUME NEW text, NEW items, Joins(text, items), Len(items) \in Nat,
         \A k \in 1 .. Len(items) : Output(items[k]) = CText(items[k])
  PROVE  text = CFormat(items)
  <1>. DEFINE n == Len(items)
              Value(g) == [j \in 0 .. n |-> IF j = 0 THEN <<>> ELSE g[j - 1] \o CText(items[j])]
              IsValue(g) == g = Value(g)
              g == CHOOSE h : IsValue(h)
  <1>1. PICK f : /\ f = [j \in 0 .. n |-> IF j = 0 THEN <<>> ELSE f[j - 1] \o Output(items[j])]
                 /\ text = f[n]
    BY Zenon DEF Joins
  <1>. HIDE DEF n
  <1>2. n \in Nat /\ \A k \in 1 .. n : Output(items[k]) = CText(items[k])
    BY DEF n
  <1>3. IsValue(f)
    <2>1. \A j \in 0 .. n : f[j] = IF j = 0 THEN <<>> ELSE f[j - 1] \o Output(items[j])
      BY <1>1, Zenon
    <2>2. f = [j \in 0 .. n |-> f[j]]
      BY <1>1, Zenon
    <2>3. \A j \in 0 .. n : f[j] = IF j = 0 THEN <<>> ELSE f[j - 1] \o CText(items[j])
      <3>1. ASSUME NEW j \in 0 .. n, j # 0 PROVE j \in 1 .. n
        BY <1>2, <3>1
      <3>. QED  BY <1>2, <2>1, <3>1, Zenon
    <2>. QED  BY <2>2, <2>3, Zenon
  <1>4. CFormat(items) = g[n]
    BY Zenon DEF CFormat, n
  <1>5. IsValue(g)
    <2>. HIDE DEF IsValue
    <2>. QED  BY <1>3, Zenon
  <1>. HIDE DEF g
  <1>6. /\ \A j \in 0 .. n : f[j] = IF j = 0 THEN <<>> ELSE f[j - 1] \o CText(items[j])
        /\ \A j \in 0 .. n : g[j] = IF j = 0 THEN <<>> ELSE g[j - 1] \o CText(items[j])
    BY <1>3, <1>5, Zenon
  <1>. DEFINE S == {j \in Nat : j <= n => g[j] = f[j]}
  <1>. HIDE DEF IsValue, Value
  <1>7. 0 \in S
    <2>1. 0 \in 0 .. n
      BY <1>2
    <2>2. g[0] = f[0]
      BY <1>6, <2>1, Zenon
    <2>. QED  BY <2>2
  <1>8. ASSUME NEW j \in Nat, j \in S PROVE j + 1 \in S
    <2>. SUFFICES ASSUME j + 1 <= n PROVE g[j + 1] = f[j + 1]
      OBVIOUS
    <2>1. PICK p \in 0 .. n : p = j + 1
      OBVIOUS
    <2>2. p # 0 /\ p - 1 = j /\ g[j] = f[j]
      BY <1>2, <1>8, <2>1
    <2>3. g[p] = f[p]
      BY <1>6, <2>2, Zenon
    <2>. QED  BY <2>1, <2>3
  <1>9. n \in S
    <2>. HIDE DEF S
    <2>. QED  BY <1>2, <1>7, <1>8, NaturalsByStep
  <1>10. g[n] = f[n]
    BY <1>2, <1>9
  <1>. QED  BY <1>1, <1>4, <1>10, Zenon DEF n

\* All that is in front of both the next character and the end of the room
\* the call was given is printed, and nothing behind.
PrintedSoFar ==
  \E text :
    /\ Joins(text, PassedItems) /\ IsText(text) /\ idx = Len(text)
    /\ \A k \in DOMAIN buffer : buffer[k] = IF k < Smaller(idx, call.count) THEN text[k + 1] ELSE Garbage

\* When a call returns, what its items print is in the buffer, one behind
\* the other, cut off so that the terminator is within the count bytes it was
\* given, and nothing behind it was written; the result is the whole length.
TextTerminated ==
  Returned =>
    \E text :
      LET end == Smaller(Len(text), call.count - 1)
      IN /\ Joins(text, PassedItems) /\ idx = Len(text)
         /\ \A k \in DOMAIN buffer :
              buffer[k] = IF k < end THEN text[k + 1] ELSE IF k = end THEN NUL ELSE Garbage

\* Of each item, the caller passed an argument it may pass.
ArgumentsPassed == \A k \in DOMAIN args : k \in DOMAIN call.items /\ args[k] \in call.items[k].arg

KprintfInv ==
  /\ WellFormedCall(call) /\ IsText(args) /\ ArgumentsPassed
  /\ KprintfTypeOK
  /\ format <= Len(call.items) + 1 => PrintedSoFar
  /\ TextTerminated
  /\ phase \notin FormatsText => call = NoCall

LEMMA NoCallWellFormed ==
  WellFormedCall(NoCall) /\ NoCall.count = 0 /\ NoCall.items = <<>> /\ Len(<<>>) = 0
  <1>1. NoCall.count = 0 /\ NoCall.items = <<>> /\ Len(<<>>) = 0 /\ DOMAIN <<>> = {}
    BY EmptySeq DEF NoCall
  <1>2. <<>> \in Seq(ToSet(<<>>))
    BY EmptySeq
  <1>3. WellFormedCall(NoCall)
    <2>. HIDE DEF NoCall
    <2>. QED  BY <1>1, <1>2 DEF WellFormedCall
  <1>. QED  BY <1>1, <1>3

LEMMA CallItems ==
  ASSUME NEW c, WellFormedCall(c)
  PROVE  /\ c.count \in Nat /\ Len(c.items) \in Nat
         /\ \A k \in 1 .. Len(c.items) : WellFormedItem(c.items[k])
  BY LenProperties DEF WellFormedCall

\* The items passed so far are as many as the arguments.
LEMMA PassedLength ==
  ASSUME NEW n \in Nat, IsText(args), Len(args) = n
  PROVE  DOMAIN args = 1 .. n /\ IsText(PassedItems) /\ Len(PassedItems) = n
  <1>1. DOMAIN args = 1 .. n
    BY TextLength
  <1>2. PassedItems = [k \in 1 .. n |-> PassedItems[k]]
    BY <1>1, Zenon DEF PassedItems
  <1>3. DOMAIN PassedItems = 1 .. n
    BY <1>1, Zenon DEF PassedItems
  <1>. HIDE DEF PassedItems
  <1>4. IsText(PassedItems)
    BY <1>2, TabulatedText
  <1>5. DOMAIN PassedItems = 1 .. Len(PassedItems) /\ Len(PassedItems) \in Nat
    BY <1>4, TextLength
  <1>6. Len(PassedItems) = n
    BY <1>3, <1>5
  <1>. QED  BY <1>1, <1>4, <1>6

\* Nothing is called.
LEMMA IdleState == KprintfIdle => KprintfInv
  <1>. SUFFICES ASSUME KprintfIdle PROVE KprintfInv
    OBVIOUS
  <1>. USE DEF KprintfIdle
  <1>1. WellFormedCall(call) /\ call.count = 0 /\ call.items = <<>> /\ Len(call.items) = 0
    BY NoCallWellFormed
  <1>2. IsText(args) /\ Len(args) = 0
    BY EmptyText, NoCallWellFormed
  <1>3. KprintfTypeOK /\ ArgumentsPassed
    <2>1. DOMAIN args = {}
      BY <1>2, TextLength
    <2>. QED  BY <1>1, <1>2, <2>1 DEF KprintfTypeOK, ArgumentsPassed, Smaller
  <1>4. ~(format <= Len(call.items) + 1)
    BY <1>1
  <1>5. TextTerminated
    <2>1. Len(PassedItems) = 0
      BY <1>2, PassedLength
    <2>2. Joins(<<>>, PassedItems)
      BY <2>1, JoinsNothing
    <2>3. Len(<<>>) = 0
      BY NoCallWellFormed
    <2>4. Smaller(0, call.count - 1) = -1
      BY <1>1 DEF Smaller
    <2>5. \A k \in DOMAIN buffer : ~(k < -1) /\ k # -1 /\ buffer[k] = Garbage
      OBVIOUS
    <2>. DEFINE end == Smaller(Len(<<>>), call.count - 1)
    <2>6. \A k \in DOMAIN buffer :
            buffer[k] = IF k < end THEN <<>>[k + 1] ELSE IF k = end THEN NUL ELSE Garbage
      BY <2>3, <2>4, <2>5, Zenon
    <2>. QED  BY <2>2, <2>3, <2>6, Zenon DEF TextTerminated
  <1>. QED  BY <1>1, <1>2, <1>3, <1>4, <1>5, Zenon DEF KprintfInv

LEMMA IdleInv == KprintfReset => KprintfInv'
  <1>1. KprintfReset => KprintfIdle'
    BY DEF KprintfReset, KprintfIdle
  <1>2. KprintfIdle' => KprintfInv'
    BY IdleState, PTL
  <1>. QED  BY <1>1, <1>2

LEMMA CallKeepsInv ==
  ASSUME NEW calls, \A c \in calls : WellFormedCall(c), snprintf(calls), phase' \in FormatsText
  PROVE  KprintfInv'
  <1>1. WellFormedCall(call') /\ args' = <<>> /\ format' = 1 /\ idx' = 0
    BY DEF snprintf
  <1>2. buffer' = [k \in 0 .. BufferBytes - 1 |-> Garbage]
    BY DEF snprintf
  <1>3. call'.count \in Nat /\ Len(call'.items) \in Nat
    BY <1>1, CallItems
  <1>4. IsText(args)' /\ Len(<<>>) = 0
    BY <1>1, EmptyText, EmptySeq
  <1>5. KprintfTypeOK'
    BY <1>1, <1>2, <1>3, <1>4 DEF KprintfTypeOK, Smaller
  <1>6. PrintedSoFar'
    <2>1. Len(PassedItems') = 0
      <3>1. args' = <<>>
        BY <1>1
      <3>2. PassedItems' = [k \in DOMAIN <<>> |-> Passed(call'.items[k], args'[k])]
        BY <3>1, Zenon DEF PassedItems
      <3>3. DOMAIN <<>> = 1 .. 0
        BY EmptySeq
      <3>4. DOMAIN PassedItems' = 1 .. 0
        BY <3>2, <3>3, Zenon
      <3>5. PassedItems' = [k \in 1 .. 0 |-> PassedItems'[k]]
        BY <3>2, <3>3, Zenon
      <3>6. IsText(PassedItems')
        BY <3>5, TabulatedText
      <3>. QED  BY <3>4, <3>6, TextLength
    <2>2. Joins(<<>>, PassedItems')
      BY <2>1, JoinsNothing
    <2>3. Smaller(idx', call'.count) = 0
      BY <1>1, <1>3 DEF Smaller
    <2>4. \A k \in DOMAIN buffer' : ~(k < 0) /\ buffer'[k] = Garbage
      BY <1>2
    <2>5. \A k \in DOMAIN buffer' :
            buffer'[k] = IF k < Smaller(idx', call'.count) THEN <<>>[k + 1] ELSE Garbage
      BY <2>3, <2>4, Zenon
    <2>. QED  BY <1>1, <1>4, <2>2, <2>5, EmptyText, Zenon DEF PrintedSoFar
  <1>7. ~Returned'
    BY <1>1, <1>3 DEF Returned
  <1>8. ArgumentsPassed'
    <2>1. DOMAIN args' = {}
      BY <1>1, EmptySeq
    <2>. QED  BY <2>1 DEF ArgumentsPassed
  <1>. QED  BY <1>1, <1>4, <1>5, <1>6, <1>7, <1>8, Zenon DEF KprintfInv, TextTerminated

\* The caller passed the arguments of an item.
LEMMA PassedHasArgument ==
  ASSUME NEW item, WellFormedItem(item), NEW argument \in item.arg
  PROVE  HasArgument(Passed(item, argument))
  <1>. DEFINE passed == Passed(item, argument)
  <1>1. /\ passed.width = item.width /\ passed.precision = item.precision
        /\ passed.specifier = item.specifier /\ passed.arg = argument
        /\ passed.flags = item.flags /\ passed.length = item.length
    BY DEF Passed, WellFormedItem
  <1>. HIDE DEF passed
  <1>2. HasArgument(passed)
    <2>1. DOMAIN passed = DOMAIN item
      BY Zenon DEF passed, Passed
    <2>. QED  BY <1>1, <2>1 DEF HasArgument, WellFormedItem
  <1>. QED  BY <1>2 DEF passed

LEMMA PassedIsText ==
  ASSUME NEW item, WellFormedItem(item), NEW argument \in item.arg
  PROVE  IsText(Output(Passed(item, argument)))
  BY PassedHasArgument, OutputIsText

LEMMA ItemKeepsInv ==
  ASSUME KprintfInv, _vsnprintf, phase' \in FormatsText
  PROVE  KprintfInv'
  <1>. DEFINE n == Len(call.items)
              count == call.count
  <1>1. n \in Nat /\ count \in Nat /\ WellFormedCall(call)
    BY CallItems DEF KprintfInv
  <1>2. format \in 1 .. n + 2 /\ format <= n /\ format' = format + 1 /\ call' = call
    BY DEF _vsnprintf, KprintfInv, KprintfTypeOK
  <1>3. idx \in Nat /\ DOMAIN buffer = 0 .. BufferBytes - 1 /\ Len(args) = Smaller(format - 1, n)
    BY DEF KprintfInv, KprintfTypeOK
  <1>4. PICK argument \in call.items[format].arg :
          /\ args' = Append(args, argument)
          /\ \E text \in {Output(Passed(call.items[format], argument))} :
               buffer' = _out_buffer(text) /\ idx' = idx + Len(text)
    BY Zenon DEF _vsnprintf
  <1>5. PICK text : /\ text = Output(Passed(call.items[format], argument))
                    /\ buffer' = _out_buffer(text) /\ idx' = idx + Len(text)
    BY <1>4, Zenon
  <1>6. IsText(text)
    <2>1. format \in 1 .. n
      BY <1>1, <1>2
    <2>2. WellFormedItem(call.items[format])
      BY <1>1, <2>1, CallItems
    <2>. QED  BY <1>5, <2>2, PassedIsText
  <1>7. Len(text) \in Nat
    BY <1>6, TextLength
  <1>8. IsText(args') /\ Len(args') = Len(args) + 1
    BY <1>4, LongerText DEF KprintfInv
  <1>. HIDE DEF n, count
  <1>9. Len(args') = Smaller(format' - 1, n)
    BY <1>1, <1>2, <1>3, <1>8 DEF Smaller
  <1>10. DOMAIN buffer' = 0 .. BufferBytes - 1
    BY <1>3, <1>5 DEF _out_buffer
  <1>11. KprintfTypeOK'
    <2>1. format' \in 1 .. n + 2 /\ idx' \in Nat
      BY <1>1, <1>2, <1>3, <1>5, <1>7
    <2>. QED  BY <1>1, <1>2, <1>9, <1>10, <2>1 DEF KprintfTypeOK, n, count
  <1>12. PrintedSoFar
    <2>1. format <= n + 1
      BY <1>1, <1>2
    <2>. QED  BY <2>1 DEF KprintfInv, n
  <1>13. PrintedSoFar'
    <2>1. PICK before :
            /\ Joins(before, PassedItems) /\ IsText(before) /\ idx = Len(before)
            /\ \A k \in DOMAIN buffer :
                 buffer[k] = IF k < Smaller(idx, count) THEN before[k + 1] ELSE Garbage
      BY <1>12, Zenon DEF PrintedSoFar, count
    <2>. DEFINE after == before \o text
                items == PassedItems
                more  == PassedItems'
    <2>2. IsText(args) /\ Len(args) = format - 1 /\ format - 1 \in Nat
      BY <1>1, <1>2, <1>3 DEF KprintfInv, Smaller
    <2>3. DOMAIN args = 1 .. (format - 1) /\ Len(items) = format - 1
      BY <2>2, PassedLength
    <2>4. DOMAIN args' = 1 .. format /\ Len(args') = format
      BY <1>2, <1>8, <2>2, TextLength
    <2>5. Len(more) = format
      <3>1. more = [k \in 1 .. format |-> Passed(call'.items[k], args'[k])]
        BY <2>4, Zenon DEF PassedItems
      <3>2. DOMAIN more = 1 .. format /\ more = [k \in 1 .. format |-> more[k]]
        BY <3>1, Zenon
      <3>. HIDE DEF more
      <3>3. format \in Nat
        BY <1>2
      <3>4. IsText(more)
        BY <3>2, <3>3, TabulatedText
      <3>. QED  BY <3>2, <3>3, <3>4, TextLength
    <2>6. \A j \in 1 .. Len(items) : more[j] = items[j]
      <3>1. \A j \in DOMAIN args : j \in DOMAIN args' /\ args'[j] = args[j]
        BY <1>2, <1>4, <2>2, <2>3, <2>4, EarlierCharacters
      <3>. QED  BY <1>2, <2>3, <3>1 DEF PassedItems
    <2>7. Output(more[Len(more)]) = text
      <3>1. format \in DOMAIN args' /\ args'[format] = argument
        BY <1>2, <1>4, <2>2, <2>4, EarlierCharacters
      <3>. QED  BY <1>2, <1>5, <2>5, <3>1 DEF PassedItems
    <2>. HIDE DEF items, more
    <2>8. Joins(after, more)
      <3>1. Len(items) \in Nat /\ Len(more) = Len(items) + 1
        BY <1>2, <2>2, <2>3, <2>5
      <3>2. Joins(before, items)
        BY <2>1 DEF items
      <3>3. Joins(before \o Output(more[Len(more)]), more)
        BY <2>6, <3>1, <3>2, JoinsMore
      <3>. QED  BY <2>7, <3>3
    <2>9. /\ IsText(after) /\ Len(after) = Len(before) + Len(text)
          /\ \A k \in 1 .. Len(before) : after[k] = before[k]
          /\ \A k \in 1 .. Len(text) : after[Len(before) + k] = text[k]
      BY <1>6, <2>1, JoinedText, JoinedParts
    <2>. HIDE DEF after
    <2>10. idx' = Len(after)
      BY <1>5, <2>1, <2>9
    <2>11. ASSUME NEW k \in DOMAIN buffer
           PROVE  buffer'[k] = IF k < Smaller(idx', count) THEN after[k + 1] ELSE Garbage
      <3>1. k \in Nat
        BY <1>3, <2>11, KprintfAssumption
      <3>2. CASE k < count /\ k - idx \in 0 .. Len(text) - 1
        <4>1. buffer'[k] = text[k - idx + 1]
          BY <1>5, <2>11, <3>2 DEF _out_buffer, count
        <4>2. PICK m \in 1 .. Len(text) : m = k - idx + 1
          BY <1>3, <1>7, <3>1, <3>2
        <4>3. k < Smaller(idx', count) /\ Len(before) + m = k + 1
          BY <1>1, <1>3, <1>5, <1>7, <2>1, <3>1, <3>2, <4>2 DEF Smaller
        <4>4. after[k + 1] = text[m]
          BY <2>9, <4>3
        <4>. QED  BY <4>1, <4>2, <4>3, <4>4
      <3>3. CASE ~(k < count /\ k - idx \in 0 .. Len(text) - 1)
        <4>1. buffer'[k] = buffer[k]
          BY <1>5, <2>11, <3>3 DEF _out_buffer, count
        <4>2. k < Smaller(idx', count) <=> k < Smaller(idx, count)
          BY <1>1, <1>3, <1>5, <1>7, <3>1, <3>3 DEF Smaller
        <4>3. k < Smaller(idx, count) => after[k + 1] = before[k + 1]
          <5>. SUFFICES ASSUME k < Smaller(idx, count) PROVE after[k + 1] = before[k + 1]
            OBVIOUS
          <5>1. k + 1 \in 1 .. Len(before)
            BY <1>1, <1>3, <2>1, <3>1 DEF Smaller
          <5>. QED  BY <2>9, <5>1
        <4>4. buffer[k] = IF k < Smaller(idx, count) THEN before[k + 1] ELSE Garbage
          BY <2>1, <2>11
        <4>. QED  BY <4>1, <4>2, <4>3, <4>4, Zenon
      <3>. QED  BY <3>2, <3>3
    <2>12. DOMAIN buffer' = DOMAIN buffer
      BY <1>3, <1>10
    <2>. QED  BY <1>2, <2>8, <2>9, <2>10, <2>11, <2>12, Zenon DEF PrintedSoFar, count, more
  <1>14. ~Returned'
    <2>1. ~(format' > n + 1)
      BY <1>1, <1>2
    <2>. QED  BY <1>2, <2>1 DEF Returned, n
  <1>15. ArgumentsPassed'
    <2>1. IsText(args) /\ Len(args) = format - 1 /\ format \in 1 .. n
      BY <1>1, <1>2, <1>3 DEF KprintfInv, Smaller
    <2>2. DOMAIN args = 1 .. (format - 1) /\ DOMAIN args' = 1 .. format
      BY <1>2, <1>8, <2>1, TextLength
    <2>3. \A k \in DOMAIN args : args'[k] = args[k]
      BY <1>4, <2>1, EarlierCharacters
    <2>4. args'[format] = argument
      BY <1>2, <1>4, <2>1, EarlierCharacters
    <2>5. DOMAIN call.items = 1 .. n
      BY <1>1, LenProperties DEF WellFormedCall, n
    <2>6. ASSUME NEW k \in DOMAIN args' PROVE k \in DOMAIN call.items /\ args'[k] \in call.items[k].arg
      <3>1. CASE k = format
        BY <1>4, <2>1, <2>4, <2>5, <3>1
      <3>2. CASE k # format
        <4>1. k \in DOMAIN args
          BY <2>1, <2>2, <2>6, <3>2
        <4>. QED  BY <2>3, <4>1 DEF KprintfInv, ArgumentsPassed
      <3>. QED  BY <3>1, <3>2
    <2>. QED  BY <1>2, <2>6, Zenon DEF ArgumentsPassed
  <1>. QED  BY <1>1, <1>2, <1>8, <1>11, <1>13, <1>14, <1>15, Zenon DEF KprintfInv, TextTerminated

LEMMA TerminatorKeepsInv ==
  ASSUME KprintfInv, _vsnprintf_terminate, phase' \in FormatsText
  PROVE  KprintfInv'
  <1>. DEFINE n == Len(call.items)
              count == call.count
              end == Smaller(idx, count - 1)
  <1>1. n \in Nat /\ count \in Nat /\ WellFormedCall(call) /\ IsText(args)
    BY CallItems DEF KprintfInv
  <1>2. format = n + 1 /\ format' = format + 1 /\ call' = call /\ args' = args /\ idx' = idx
    BY DEF _vsnprintf_terminate
  <1>3. idx \in Nat /\ DOMAIN buffer = 0 .. BufferBytes - 1 /\ Len(args) = Smaller(format - 1, n)
    BY DEF KprintfInv, KprintfTypeOK
  <1>4. buffer' = [k \in DOMAIN buffer |-> IF k = TerminatorAt /\ k < count THEN NUL ELSE buffer[k]]
    BY DEF _vsnprintf_terminate
  <1>5. PrintedSoFar
    <2>1. format <= n + 1
      BY <1>1, <1>2
    <2>. QED  BY <2>1 DEF KprintfInv, n
  <1>6. TerminatorAt = IF idx < count THEN idx ELSE count - 1
    BY DEF TerminatorAt
  <1>. HIDE DEF n, count
  <1>7. PICK text :
          /\ Joins(text, PassedItems) /\ IsText(text) /\ idx = Len(text)
          /\ \A k \in DOMAIN buffer : buffer[k] = IF k < Smaller(idx, count) THEN text[k + 1] ELSE Garbage
    BY <1>5, Zenon DEF PrintedSoFar, count
  <1>8. TextTerminated'
    <2>1. ASSUME NEW k \in DOMAIN buffer
          PROVE  buffer'[k] = IF k < end THEN text[k + 1] ELSE IF k = end THEN NUL ELSE Garbage
      <3>1. k \in Nat
        BY <1>3, <2>1, KprintfAssumption
      <3>2. k = end => k = TerminatorAt /\ k < count /\ ~(k < end)
        BY <1>1, <1>3, <1>6, <3>1 DEF Smaller
      <3>3. k > end => k # TerminatorAt /\ ~(k < Smaller(idx, count)) /\ ~(k < end) /\ k # end
        BY <1>1, <1>3, <1>6, <3>1 DEF Smaller
      <3>4. k < end => k # TerminatorAt /\ k < Smaller(idx, count)
        BY <1>1, <1>3, <1>6, <3>1 DEF Smaller
      <3>5. /\ k = TerminatorAt /\ k < count => buffer'[k] = NUL
            /\ k # TerminatorAt => buffer'[k] = buffer[k]
        BY <1>4, <2>1
      <3>6. buffer[k] = IF k < Smaller(idx, count) THEN text[k + 1] ELSE Garbage
        BY <1>7, <2>1
      <3>7. k = end \/ k > end \/ k < end
        BY <1>1, <1>3, <3>1 DEF Smaller
      <3>. QED  BY <3>2, <3>3, <3>4, <3>5, <3>6, <3>7, Zenon
    <2>2. PassedItems' = PassedItems
      BY <1>2 DEF PassedItems
    <2>3. DOMAIN buffer' = DOMAIN buffer
      BY <1>4
    <2>4. end = Smaller(Len(text), call'.count - 1) /\ idx' = Len(text)
      BY <1>2, <1>7 DEF count
    <2>5. Joins(text, PassedItems')
      BY <1>7, <2>2
    <2>. DEFINE last == Smaller(Len(text), call'.count - 1)
    <2>. HIDE DEF end, last
    <2>6. end = last
      BY <2>4 DEF last
    <2>7. \A k \in DOMAIN buffer' : buffer'[k] = IF k < last THEN text[k + 1] ELSE IF k = last THEN NUL ELSE Garbage
      BY <2>1, <2>3, <2>6
    <2>. QED  BY <2>4, <2>5, <2>7, Zenon DEF TextTerminated, last
  <1>9. KprintfTypeOK'
    <2>1. format' \in 1 .. n + 2 /\ Len(args) = Smaller(format' - 1, n)
      BY <1>1, <1>2, <1>3 DEF Smaller
    <2>. QED  BY <1>1, <1>2, <1>3, <1>4, <2>1 DEF KprintfTypeOK, n, count
  <1>10. ~(format' <= n + 1)
    BY <1>1, <1>2
  <1>11. ArgumentsPassed'
    BY <1>2 DEF KprintfInv, ArgumentsPassed
  <1>. QED  BY <1>1, <1>2, <1>8, <1>9, <1>10, <1>11, Zenon DEF KprintfInv, n

\* The processor's name, from its registers.
LEMMA VendorCall ==
  ASSUME NEW processor \in CPUs
  PROVE  WellFormedCall([items |-> VendorItems(processor), count |-> 13])
  <1>1. processor.ebx \in Seq(STRING) /\ processor.edx \in Seq(STRING) /\ processor.ecx \in Seq(STRING)
    BY BootAssumption
  <1>2. <<>> \in Seq(STRING)
    BY EmptySeq
  <1>3. ASSUME NEW register \in Seq(STRING) PROVE WellFormedItem(FourOf(register))
    <2>1. {"PRECISION"} \subseteq Flags /\ "" \in Lengths /\ "s" \notin Numeric
      BY DEF Flags, Lengths, Numeric
    <2>. DEFINE item == FourOf(register)
    <2>2. /\ DOMAIN item = {"specifier", "length", "flags", "width", "precision", "arg"}
          /\ item.flags = {"PRECISION"} /\ item.length = ""
          /\ item.specifier = "s" /\ item.arg = {register}
      BY DEF FourOf
    <2>7. item.width = 0 /\ item.precision = 4
      BY DEF FourOf
    <2>. HIDE DEF item
    <2>3. item.specifier \notin Numeric /\ item.flags \subseteq Flags /\ item.length \in Lengths
      BY <2>1, <2>2, Zenon
    <2>4. item.arg \subseteq Seq(STRING)
      BY <1>3, <2>2, Zenon
    <2>5. item.width \in Int /\ item.precision \in Int
      BY <2>7
    <2>6. WellFormedItem(item)
      BY <2>2, <2>3, <2>4, <2>5, Zenon DEF WellFormedItem
    <2>. QED  BY <2>6 DEF item
  <1>4. PICK a \in Seq(STRING), b \in Seq(STRING), c \in Seq(STRING) :
          VendorItems(processor) = <<FourOf(a), FourOf(b), FourOf(c)>>
    BY <1>1, <1>2, Zenon DEF VendorItems
  <1>. DEFINE items == <<FourOf(a), FourOf(b), FourOf(c)>>
  <1>. HIDE DEF FourOf
  <1>5. DOMAIN items = 1 .. 3 /\ items[1] = FourOf(a) /\ items[2] = FourOf(b) /\ items[3] = FourOf(c)
    OBVIOUS
  <1>6. items \in Seq(ToSet(items))
    BY <1>5 DEF ToSet
  <1>7. \A k \in DOMAIN items : WellFormedItem(items[k])
    BY <1>3, <1>5
  <1>8. WellFormedCall([items |-> items, count |-> 13])
    <2>. HIDE DEF items
    <2>. QED  BY <1>6, <1>7 DEF WellFormedCall
  <1>. QED  BY <1>4, <1>8

LEMMA KprintfInvariance == Spec => []KprintfInv
  <1>1. Init => KprintfInv
    <2>. SUFFICES ASSUME Init PROVE KprintfInv
      OBVIOUS
    <2>1. KprintfIdle
      BY DEF Init
    <2>. QED  BY <2>1, IdleState
  <1>2. KprintfInv /\ [Next]_vars => KprintfInv'
    <2>. SUFFICES ASSUME KprintfInv, [Next]_vars PROVE KprintfInv'
      OBVIOUS
    <2>1. CASE phase' \in FormatsText /\ snprintf(Calls)
      BY <2>1, CallKeepsInv, BootAssumption
    <2>2. CASE phase' \in FormatsText /\ \E processor \in CPUs :
                 snprintf({[items |-> VendorItems(processor), count |-> 13]})
      BY <2>2, CallKeepsInv, VendorCall
    <2>3. CASE phase' \in FormatsText /\ KprintfNext
      BY <2>3, ItemKeepsInv, TerminatorKeepsInv DEF KprintfNext
    <2>4. CASE KprintfReset
      BY <2>4, IdleInv
    <2>5. CASE UNCHANGED kprintfVars /\ (phase \in FormatsText => phase' \in FormatsText)
      <3>1. call' = call /\ args' = args /\ format' = format /\ buffer' = buffer /\ idx' = idx
        BY <2>5 DEF kprintfVars
      <3>2. KprintfTypeOK' /\ TextTerminated' /\ PrintedSoFar' = PrintedSoFar /\ ArgumentsPassed'
        BY <3>1 DEF KprintfInv, KprintfTypeOK, TextTerminated, PrintedSoFar, PassedItems, Returned, ArgumentsPassed
      <3>. QED  BY <2>5, <3>1, <3>2, Zenon DEF KprintfInv
    <2>6. UNCHANGED vars => UNCHANGED kprintfVars /\ phase' = phase
      BY DEF vars, bootVars
    <2>. QED  BY <2>1, <2>2, <2>3, <2>4, <2>5, <2>6, KprintfSteps, Zenon
  <1>. QED  BY <1>1, <1>2, PTL DEF Spec

\* Whatever the format, its arguments and count (kprintf.c:606-967), those C
\* promises nothing about as well: what snprintf returns is what its items
\* print, one behind the other, and a terminator, in the bytes it was given;
\* it writes none behind.
THEOREM TextsAreTerminated == Spec => []TextTerminated
  <1>1. KprintfInv => TextTerminated
    BY DEF KprintfInv
  <1>. QED  BY <1>1, KprintfInvariance, PTL

\* When a call returns whose items do not depart from C, the buffer holds
\* the text the C standard gives for its format and arguments, cut off and
\* terminated within count bytes, and the result is the length of the whole
\* text (kprintf.c:606-967).  This is for every format, flag, width,
\* precision and argument.
THEOREM TextIsAsInC == Spec => []TextAsInC
  <1>1. KprintfInv => TextAsInC
    <2>. SUFFICES ASSUME KprintfInv, Returned, \A k \in DOMAIN args : ~Departs(PassedItems[k])
                  PROVE  \E text \in {CFormat(PassedItems)} :
                           LET end == Smaller(Len(text), call.count - 1)
                           IN /\ idx = Len(text)
                              /\ \A k \in DOMAIN buffer :
                                   buffer[k] = IF k < end THEN text[k + 1] ELSE IF k = end THEN NUL ELSE Garbage
      BY Zenon DEF TextAsInC
    <2>1. PICK text :
            LET end == Smaller(Len(text), call.count - 1)
            IN /\ Joins(text, PassedItems) /\ idx = Len(text)
               /\ \A k \in DOMAIN buffer :
                    buffer[k] = IF k < end THEN text[k + 1] ELSE IF k = end THEN NUL ELSE Garbage
      BY Zenon DEF KprintfInv, TextTerminated
    <2>2. /\ DOMAIN args = 1 .. Len(args) /\ Len(PassedItems) = Len(args) /\ Len(args) \in Nat
          /\ WellFormedCall(call) /\ ArgumentsPassed
      <3>1. WellFormedCall(call) /\ ArgumentsPassed /\ IsText(args)
        BY DEF KprintfInv
      <3>2. Len(args) \in Nat
        BY <3>1, TextLength
      <3>. QED  BY <3>1, <3>2, PassedLength
    <2>3. ASSUME NEW k \in 1 .. Len(PassedItems)
          PROVE  Output(PassedItems[k]) = CText(PassedItems[k])
      <3>1. k \in DOMAIN args
        BY <2>2, <2>3
      <3>2. k \in DOMAIN call.items /\ args[k] \in call.items[k].arg
        BY <2>2, <3>1 DEF ArgumentsPassed
      <3>3. WellFormedItem(call.items[k])
        BY <2>2, <3>2, Zenon DEF WellFormedCall
      <3>4. PassedItems[k] = Passed(call.items[k], args[k])
        BY <3>1 DEF PassedItems
      <3>5. HasArgument(PassedItems[k])
        BY <3>2, <3>3, <3>4, PassedHasArgument
      <3>. QED  BY <3>1, <3>5, ItemAsInC
    <2>4. text = CFormat(PassedItems)
      <3>. HIDE DEF PassedItems
      <3>. QED  BY <2>1, <2>2, <2>3, JoinsAsInC
    <2>. QED  BY <2>1, <2>4, Zenon
  <1>. QED  BY <1>1, KprintfInvariance, PTL
----------------------------------------------------------------------------
(* Types.                                                                  *)

\* What of acpi_init's variables AcpiInv does not tell.
AcpiTyped ==
  /\ has_xsdt_var \in BOOLEAN
  /\ i \in 0 .. Len(Rsdt.entries)
  /\ madt \in {NULL} \cup {HigherHalf + a : a \in DOMAIN Tables}
  /\ table_ptr \in Nat

LEMMA AcpiTypedInit == Init => AcpiTyped
  <1>1. NoFirmware.rsdt.entries = <<>> /\ Len(<<>>) = 0
    BY EmptySeq DEF NoFirmware
  <1>. SUFFICES ASSUME Init PROVE AcpiTyped
    OBVIOUS
  <1>2. Len(Rsdt.entries) = 0
    BY <1>1, Zenon DEF Init, AcpiInit, Rsdt
  <1>3. i = 0 /\ madt = NULL /\ table_ptr = 0
    BY DEF Init, AcpiInit, NULL
  <1>4. has_xsdt_var \in BOOLEAN
    BY Zenon DEF Init, AcpiInit
  <1>5. i \in 0 .. Len(Rsdt.entries) /\ madt \in {NULL} /\ table_ptr \in Nat
    BY <1>2, <1>3
  <1>. QED  BY <1>4, <1>5, Zenon DEF AcpiTyped

LEMMA AcpiKeepsTypes ==
  ASSUME AcpiInv, AcpiInv', AcpiTyped, AcpiNext
  PROVE  AcpiTyped'
  <1>. DEFINE Loaded == {HigherHalf + a : a \in DOMAIN Tables}
  <1>. USE DEF Goto
  <1>1. CASE rsdp_init
    <2>1. PICK fw \in Firmwares :
            /\ firmware' = fw
            /\ has_xsdt_var' = has_xsdt_var \/ has_xsdt_var' = (fw.revision >= 2)
      BY <1>1 DEF rsdp_init
    <2>2. i' = 0 /\ madt' = madt /\ table_ptr' = table_ptr
      BY <1>1 DEF rsdp_init, AcpiInv
    <2>3. Len(Rsdt.entries)' \in Nat
      <3>1. fw.rsdt.entries \in Seq(DOMAIN Tables)
        BY AcpiAssumption DEF WellFormedRsdt
      <3>. QED  BY <2>1, <3>1, LenProperties DEF Rsdt
    <2>4. has_xsdt_var' \in BOOLEAN
      <3>1. (fw.revision >= 2) \in BOOLEAN
        OBVIOUS
      <3>2. has_xsdt_var \in BOOLEAN
        BY DEF AcpiTyped
      <3>. QED  BY ONLY <2>1, <3>1, <3>2, Zenon
    <2>. QED  BY <2>2, <2>3, <2>4 DEF AcpiTyped
  <1>2. CASE CheckRsdt
    <2>1. UNCHANGED <<firmware, has_xsdt_var, i, madt, table_ptr, arrays>>
      BY <1>2, Zenon DEF CheckRsdt
    <2>. QED  BY <2>1 DEF AcpiTyped, Rsdt
  <1>3. ASSUME step' \in {"parse", "done"} PROVE madt' \in Loaded /\ table_ptr' \in Nat
    BY <1>3 DEF AcpiInv, Reading
  <1>4. CASE acpi_find_sdt_table
    <2>1. firmware' = firmware /\ has_xsdt_var' = has_xsdt_var /\ step = "search" /\ firmware \in Firmwares
      BY <1>4 DEF acpi_find_sdt_table, AcpiInv
    <2>2. Len(Rsdt.entries)' = Len(Rsdt.entries)
      BY <2>1 DEF Rsdt
    <2>3. \/ UNCHANGED <<i, madt, table_ptr>>
          \/ step' = "parse" /\ i' = i
          \/ ~(i >= entry_count) /\ i' = i + 1 /\ UNCHANGED <<madt, table_ptr>>
      BY <1>4, Zenon DEF acpi_find_sdt_table
    <2>4. CASE UNCHANGED <<i, madt, table_ptr>>
      BY <2>1, <2>2, <2>4 DEF AcpiTyped
    <2>5. CASE step' = "parse" /\ i' = i
      BY <1>3, <2>1, <2>2, <2>5 DEF AcpiTyped
    <2>6. CASE ~(i >= entry_count) /\ i' = i + 1 /\ UNCHANGED <<madt, table_ptr>>
      <3>1. i' \in 0 .. Len(Rsdt.entries)
        BY <2>1, <2>6, EntryCount, RsdtEntries DEF AcpiTyped
      <3>. QED  BY <2>1, <2>2, <2>6, <3>1 DEF AcpiTyped
    <2>. QED  BY <2>3, <2>4, <2>5, <2>6
  <1>5. CASE madt_init
    <2>1. firmware' = firmware /\ has_xsdt_var' = has_xsdt_var /\ i' = i /\ step' \in {"parse", "done"}
      BY <1>5 DEF madt_init
    <2>. QED  BY <1>3, <2>1 DEF AcpiTyped, Rsdt
  <1>. QED  BY <1>1, <1>2, <1>4, <1>5 DEF AcpiNext

LEMMA AcpiTypes == Spec => []AcpiTypeOK
  <1>1. AcpiInv /\ AcpiInv' /\ AcpiTyped /\ [Next]_vars => AcpiTyped'
    <2>1. UNCHANGED acpiVars /\ AcpiTyped => AcpiTyped'
      BY DEF acpiVars, AcpiTyped, Rsdt
    <2>2. UNCHANGED vars => UNCHANGED acpiVars
      BY DEF vars
    <2>. QED  BY <2>1, <2>2, AcpiKeepsTypes, AcpiSteps
  <1>2. AcpiInv /\ AcpiTyped => AcpiTypeOK
    <2>. SUFFICES ASSUME AcpiInv, AcpiTyped PROVE AcpiTypeOK
      OBVIOUS
    <2>1. ASSUME NEW t \in madt_entry_type_t, NEW k \in DOMAIN arrays[t] PROVE arrays[t][k] > HigherHalf
      <3>1. step \in {"parse", "done"} /\ Reading
        BY <2>1, EmptySeq DEF AcpiInv
      <3>2. arrays[t][k] \in ToSet(arrays[t])
        BY <2>1 DEF ToSet
      <3>3. PICK a \in DOMAIN Tables : madt = HigherHalf + a
        BY <3>1 DEF Reading
      <3>4. PICK o \in DOMAIN Records : arrays[t][k] = madt + o
        BY <3>1, <3>2 DEF Reading, Collected
      <3>5. a \in Nat \ {0} /\ HigherHalf \in Nat /\ TableAt(madt) = Tables[a]
        BY <3>3, AcpiAssumption DEF TableAt
      <3>6. o \in Nat
        BY <3>1, <3>4, <3>5, MadtRecords DEF Reading, IsGood, Records, MadtBytes
      <3>. QED  BY <3>3, <3>4, <3>5, <3>6
    <2>2. DOMAIN arrays = madt_entry_type_t
      BY DEF AcpiInv
    <2>. QED  BY <2>1, <2>2 DEF AcpiTypeOK, AcpiInv, AcpiTyped
  <1>. QED  BY <1>1, <1>2, AcpiTypedInit, AcpiInvariance, PTL DEF Spec

LEMMA SerialTypes == Spec => []SerialTypeOK
  <1>1. SerialInv => SerialTypeOK
    <2>. SUFFICES ASSUME SerialInv PROVE SerialTypeOK
      OBVIOUS
    <2>1. \E S : fifo \in Seq(S)
      BY DEF SerialInv
    <2>2. Len(fifo) \in Nat /\ Len(fifo) <= 1
      BY <2>1, LenProperties DEF SerialInv
    <2>3. Len(fifo) <= FifoBytes
      BY <2>2, SerialAssumption
    <2>4. DOMAIN uart = Registers
      BY DEF SerialInv, Programmed
    <2>. QED  BY <2>3, <2>4, SevenWrites DEF SerialTypeOK, SerialInv
  <1>. QED  BY <1>1, SerialInvariance, PTL

LEMMA DrawingTypes ==
  ASSUME DrawInv
  PROVE  DrawingTypeOK /\ (phase # "draw" => pixels = {})
  <1>1. CASE shape = NoShape
    <2>1. pen = PenUp /\ pixels = {}
      BY <1>1, Zenon DEF DrawInv
    <2>2. PenUp.down = FALSE /\ NoShape.kind = "none"
      BY DEF PenUp, NoShape
    <2>3. pen.down \in BOOLEAN /\ shape.kind \in {"none", "line", "circle"}
      BY <1>1, <2>1, <2>2
    <2>. QED  BY <2>1, <2>3, Zenon DEF DrawingTypeOK, DrawInv
  <1>2. CASE shape # NoShape
    <2>1. gfx \in Screens /\ phase = "draw" /\ pen.down \in BOOLEAN /\ FitsScreen(shape, gfx)
      BY <1>2, Zenon DEF DrawInv
    <2>2. PICK drawn : Drawn(drawn)
      BY <1>2 DEF DrawInv
    <2>3. \A u \in pixels : u \in 0 .. gfx.fb_height * gfx.fb_pitch - 1
      BY <2>1, <2>2, PointsAreDrawn DEF Drawn
    <2>4. shape.kind \in {"none", "line", "circle"}
      BY <2>1, ShapeKinds
    <2>. QED  BY <2>1, <2>3, <2>4, Zenon DEF DrawingTypeOK, DrawInv
  <1>. QED  BY <1>1, <1>2

Phases == {"framebuffer", "draw", "serial", "welcome", "format", "pmm", "vmm", "gdt", "idt",
           "slab", "vendor", "acpi", "apic", "idle", "halted"}

SegmentTypes ==
  /\ tss \in TssAddresses /\ tr \in {-1, tss}
  /\ DOMAIN segment = {"cs", "ds", "es", "fs", "gs", "ss"}

MainInv ==
  /\ phase \in Phases /\ cpu \in CPUs \cup {NoCPU} /\ gate_selector \in {0, 8}
  /\ DOMAIN lapic \subseteq {15}
  /\ kernel \in {"running", "undefined"}
  /\ SegmentTypes

\* What kmain changes by itself.
LEMMA MainSteps ==
  ASSUME Next
  PROVE  /\ phase' \in Phases \/ phase' = phase
         /\ cpu' = cpu \/ cpu' \in CPUs
         /\ lapic' = lapic \/ lapic_enable
         /\ kernel' = kernel \/ kernel' = "undefined"
  <1>. DEFINE Changed ==
                /\ phase' \in Phases \/ phase' = phase
                /\ cpu' = cpu \/ cpu' \in CPUs
                /\ lapic' = lapic \/ lapic_enable
  <1>. USE DEF Phase, Enter, LogAndEnter, SameMachine, Phases
  <1>1. ASSUME FramebufferInit PROVE Changed  BY <1>1, Zenon DEF FramebufferInit
  <1>2. ASSUME Draw PROVE Changed  BY <1>2, Zenon DEF Draw
  <1>3. ASSUME SerialInitPhase PROVE Changed  BY <1>3, Zenon DEF SerialInitPhase
  <1>4. ASSUME SendString \/ Uart \/ Interrupt PROVE Changed  BY <1>4, Zenon DEF SendString, Uart, Interrupt
  <1>5. ASSUME Welcome PROVE Changed  BY <1>5, Zenon DEF Welcome
  <1>6. ASSUME Format PROVE Changed  BY <1>6, Zenon DEF Format
  <1>7. ASSUME PmmInit \/ VmmInit \/ SlabInit PROVE Changed  BY <1>7, Zenon DEF PmmInit, VmmInit, SlabInit
  <1>8. ASSUME GdtPhase \/ IdtInit PROVE Changed  BY <1>8, Zenon DEF GdtPhase, IdtInit
  <1>9. ASSUME GetVendor PROVE Changed  BY <1>9, Zenon DEF GetVendor
  <1>10. ASSUME AcpiPhase PROVE Changed  BY <1>10, Zenon DEF AcpiPhase
  <1>11. ASSUME ApicInit PROVE Changed  BY <1>11, Zenon DEF ApicInit
  <1>12. kernel' = kernel \/ kernel' = "undefined"
    BY Zenon DEF Next, Run, Uart, Interrupt
  <1>. HIDE DEF Changed
  <1>13. Changed
    BY <1>1, <1>2, <1>3, <1>4, <1>5, <1>6, <1>7, <1>8, <1>9, <1>10, <1>11, Zenon DEF Next, Run, kmain
  <1>. QED  BY <1>12, <1>13 DEF Changed

LEMMA MainInvariance == Spec => []MainInv
  <1>1. Init => MainInv
    <2>. SUFFICES ASSUME Init PROVE MainInv
      OBVIOUS
    <2>1. SegmentTypes
      BY GdtAssumption DEF Init, GdtInit, SegmentTypes
    <2>2. DOMAIN lapic = {}
      BY DEF Init
    <2>3. phase = "framebuffer" /\ cpu = NoCPU /\ gate_selector = 0 /\ kernel = "running"
      BY DEF Init
    <2>. QED  BY <2>1, <2>2, <2>3 DEF MainInv, Phases
  <1>2. MainInv /\ [Next]_vars => MainInv'
    <2>. SUFFICES ASSUME MainInv, [Next]_vars PROVE MainInv'
      OBVIOUS
    <2>1. CASE UNCHANGED vars
      BY <2>1 DEF vars, gdtVars, bootVars, MainInv, SegmentTypes
    <2>2. CASE Next
      <3>1. /\ phase' \in Phases \/ phase' = phase
            /\ cpu' = cpu \/ cpu' \in CPUs
            /\ lapic' = lapic \/ lapic_enable
            /\ kernel' = kernel \/ kernel' = "undefined"
        BY <2>2, MainSteps
      <3>2. phase' \in Phases /\ cpu' \in CPUs \cup {NoCPU} /\ kernel' \in {"running", "undefined"}
        BY <3>1, Zenon DEF MainInv
      <3>3. DOMAIN lapic' \subseteq {15}
        BY <3>1 DEF MainInv, lapic_enable, lapic_write_register
      <3>4. \/ gdt_init /\ UNCHANGED gate_selector
            \/ gate_selector' = 8 /\ UNCHANGED gdtVars
            \/ UNCHANGED <<gdtVars, gate_selector>>
        BY <2>2, SegmentSteps
      <3>5. gate_selector' \in {0, 8}
        BY <3>4 DEF MainInv
      <3>6. CASE gdt_init
        <4>1. /\ tr' = SystemBase(gdt, 64) /\ tss' = tss
              /\ segment' = [cs |-> 8, ds |-> 16, es |-> 16, fs |-> 16, gs |-> 16, ss |-> 16]
          BY <3>6 DEF gdt_init, _load_gdt_and_tss_asm
        <4>2. tss \in TssAddresses
          BY DEF MainInv, SegmentTypes
        <4>3. tr' = tss' /\ tss' \in TssAddresses
          BY <4>1, <4>2, LoadedUsable
        <4>4. DOMAIN segment' = {"cs", "ds", "es", "fs", "gs", "ss"}
          BY <4>1
        <4>5. SegmentTypes'
          BY <4>3, <4>4 DEF SegmentTypes
        <4>. QED  BY <3>2, <3>3, <3>5, <4>5, Zenon DEF MainInv
      <3>7. CASE UNCHANGED gdtVars
        <4>1. SegmentTypes'
          BY <3>7 DEF MainInv, SegmentTypes, gdtVars
        <4>. QED  BY <3>2, <3>3, <3>5, <4>1, Zenon DEF MainInv
      <3>. QED  BY <3>4, <3>6, <3>7
    <2>. QED  BY <2>1, <2>2
  <1>. QED  BY <1>1, <1>2, PTL DEF Spec

\* Every variable of the kernel's start keeps its type, a library is only at
\* work in its phase, and no pixel is outside the framebuffer (kernel.c:39-80).
THEOREM TypeCorrect == Spec => []TypeOK
  <1>1. MainInv => GdtTypeOK
    <2>. SUFFICES ASSUME MainInv PROVE GdtTypeOK
      OBVIOUS
    <2>1. tss \in 0 .. QWord - 1
      BY GdtAssumption DEF MainInv, SegmentTypes
    <2>. HIDE DEF QWord
    <2>2. tr \in -1 .. QWord - 1
      <3>1. QWord \in Int
        BY GdtAssumption DEF QWord, DWord, Word
      <3>. QED  BY <2>1, <3>1 DEF MainInv, SegmentTypes
    <2>. QED  BY <2>2 DEF GdtTypeOK, MainInv, SegmentTypes
  <1>2. MainInv /\ AcpiTypeOK /\ KprintfInv /\ SerialTypeOK /\ DrawInv => TypeOK
    BY <1>1, DrawingTypes, Zenon DEF TypeOK, MainInv, Phases, KprintfInv, FormatsText
  <1>. QED
    BY <1>2, MainInvariance, AcpiTypes, KprintfInvariance, SerialTypes, DrawInvariance, PTL
=============================================================================
