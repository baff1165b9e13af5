-------------------------- MODULE InterruptsProofs --------------------------
(***************************************************************************)
(* Theorems about Interrupts, for every set of devices, exceptions, calls  *)
(* of the running kernel and masks the firmware leaves.                    *)
(***************************************************************************)
EXTENDS Interrupts, SequenceTheorems, TLAPS
----------------------------------------------------------------------------
(* The inductive invariant.                                                *)

\* What the calls of the running kernel consist of: no PIC is programmed.
Quiet ==
  {In(p) : p \in PICs} \cup {Simple("poll"), Simple("read")}
    \cup {DataSaved(a[1], a[2], a[3]) : a \in PICs \X (SUBSET Lines) \X (SUBSET Lines)}

Instruction ==
  Quiet \cup {Command(a[1], a[2]) : a \in PICs \X (0 .. 255)}
        \cup {Data(a[1], a[2]) : a \in PICs \X (0 .. 255)}
        \cup {Gates(vectors) : vectors \in SUBSET (0 .. 255)}
        \cup {Simple("load_idt"), Simple("other")}

Base(p) == IF p = "master" THEN 32 ELSE 40

\* The initialization word a PIC expects before instruction j of a remapping.
RemapIcw(p, j) ==
  LET d == IF p = "master" THEN 0 ELSE 1
  IN IF j \in (4 + d) .. (5 + d) THEN 2
     ELSE IF j \in (6 + d) .. (7 + d) THEN 3
     ELSE IF j \in (8 + d) .. (9 + d) THEN 4 ELSE 0

\* The instructions of kmain that come before the first interrupt, and where
\* the two remappings begin.
EarlyInstructions == 21
FirstRemap == 1
SecondRemap == 22

BootIcw(p, k) ==
  IF k > SecondRemap THEN RemapIcw(p, k - SecondRemap) ELSE RemapIcw(p, k - FirstRemap)

GatesReady(vectors) == \A v \in vectors : v \in DOMAIN idt /\ idt[v] = "stub"

\* The kernel is about to execute instruction k of kmain.
Booting(k) ==
  /\ code = SubSeq(kmain, k, Len(kmain))
  /\ \A p \in PICs : pics[p].icw = BootIcw(p, k)
  /\ k > FirstRemap + 5 => pics["master"].base = Base("master")
  /\ k > FirstRemap + 6 => pics["slave"].base = Base("slave")
  /\ k > 1 => GatesReady(0 .. 31)
  /\ k > 18 => GatesReady(32 .. 47)
  /\ k <= EarlyInstructions => status = "running" /\ ~interrupts /\ stack = <<>>

Running ==
  /\ code \in Seq(Quiet)
  /\ \A p \in PICs : pics[p].icw = 0 /\ pics[p].base = Base(p)
  /\ GatesReady(0 .. 47)

Vectors == FaultVectors \cup (32 .. 47)

\* The lines the handler of an IRQ has to end.
InService(p, number) ==
  IF number < 40 THEN (IF p = "master" THEN {number - 32} ELSE {})
  ELSE IF p = "master" THEN {Cascade} ELSE {number - 40}

HandlerInv ==
  /\ stack = <<>> \/ \E v \in Vectors : stack = Stub(v)
  /\ status = "halted" => \E v \in FaultVectors : stack = Stub(v)
  /\ status = "running" /\ stack = <<>> => \A p \in PICs : pics[p].isr = {}
  /\ status = "running" /\ stack # <<>> /\ IsrNumber > 31
       => \A p \in PICs : pics[p].isr \subseteq InService(p, IsrNumber)

IrqInv ==
  /\ TypeOK
  /\ Running \/ \E k \in DOMAIN kmain : Booting(k)
  /\ HandlerInv
----------------------------------------------------------------------------
(* The stack of a handler.                                                 *)

\* Where the fields of interrupt_cpu_state_t lie.
FieldIndex(name) ==
  CHOOSE k \in DOMAIN interrupt_cpu_state_t : interrupt_cpu_state_t[k] = name

LEMMA FieldIndices ==
  /\ Len(interrupt_cpu_state_t) = 22
  /\ FieldIndex("isr_number") = 16 /\ FieldIndex("error_code") = 17
  /\ FieldIndex("rip") = 18 /\ FieldIndex("cs") = 19 /\ FieldIndex("rflags") = 20
  /\ FieldIndex("rsp") = 21 /\ FieldIndex("ss") = 22
  <1>1. DOMAIN interrupt_cpu_state_t = 1 .. 22 /\ Len(interrupt_cpu_state_t) = 22
    BY DEF interrupt_cpu_state_t
  <1>2. /\ \A k \in 1 .. 22 : interrupt_cpu_state_t[k] = "isr_number" <=> k = 16
        /\ \A k \in 1 .. 22 : interrupt_cpu_state_t[k] = "error_code" <=> k = 17
        /\ \A k \in 1 .. 22 : interrupt_cpu_state_t[k] = "rip" <=> k = 18
        /\ \A k \in 1 .. 22 : interrupt_cpu_state_t[k] = "cs" <=> k = 19
        /\ \A k \in 1 .. 22 : interrupt_cpu_state_t[k] = "rflags" <=> k = 20
        /\ \A k \in 1 .. 22 : interrupt_cpu_state_t[k] = "rsp" <=> k = 21
        /\ \A k \in 1 .. 22 : interrupt_cpu_state_t[k] = "ss" <=> k = 22
    BY DEF interrupt_cpu_state_t
  <1>3. ASSUME NEW name, NEW n \in 1 .. 22,
               \A k \in 1 .. 22 : interrupt_cpu_state_t[k] = name <=> k = n
        PROVE  FieldIndex(name) = n
    BY <1>1, <1>3 DEF FieldIndex
  <1>. QED  BY <1>1, <1>2, <1>3

LEMMA FieldPlaces ==
  /\ Len(interrupt_cpu_state_t) = 22
  /\ Field("isr_number") = stack[16]
  /\ Field("error_code") = stack[17]
  /\ Field("rip") = stack[18] /\ Field("cs") = stack[19] /\ Field("rflags") = stack[20]
  /\ Field("rsp") = stack[21] /\ Field("ss") = stack[22]
  <1>1. \A name : Field(name) = stack[FieldIndex(name)]
    BY DEF Field, FieldIndex
  <1>. QED  BY <1>1, FieldIndices

LEMMA PushOrderElements ==
  /\ Len(PushOrder) = 15 /\ DOMAIN PushOrder = 1 .. 15
  /\ \A k \in 1 .. 15 : PushOrder[k] \in Registers
  BY DEF PushOrder, Registers

\* No two fields have one name, so that each of the first fifteen is its own.
LEMMA RegisterPlaces ==
  \A k \in 1 .. 15 : Field(interrupt_cpu_state_t[k]) = stack[k]
  <1>1. \A j, k \in 1 .. 22 : interrupt_cpu_state_t[j] = interrupt_cpu_state_t[k] => j = k
    BY DEF interrupt_cpu_state_t
  <1>2. DOMAIN interrupt_cpu_state_t = 1 .. 22
    BY DEF interrupt_cpu_state_t
  <1>. TAKE k \in 1 .. 15
  <1>3. FieldIndex(interrupt_cpu_state_t[k]) = k
    <2>1. k \in 1 .. 22
      OBVIOUS
    <2>. QED  BY <1>1, <1>2, <2>1 DEF FieldIndex
  <1>. QED  BY <1>3 DEF Field, FieldIndex

\* Where the structure has a register, pusha64 has put it, but for rbp and rsi.
LEMMA RegistersWherePushed ==
  /\ \A r \in Registers \ {"rbp", "rsi"} :
       \E k \in 1 .. 15 : interrupt_cpu_state_t[k] = r /\ PushOrder[16 - k] = r
  /\ interrupt_cpu_state_t[9] = "rbp" /\ PushOrder[7] = "rsi"
  /\ interrupt_cpu_state_t[11] = "rsi" /\ PushOrder[5] = "rbp"
  <1>1. \A k \in 1 .. 15 : k \notin {5, 7} =>
          interrupt_cpu_state_t[16 - k] = PushOrder[k]
    BY DEF interrupt_cpu_state_t, PushOrder
  <1>2. ASSUME NEW r \in Registers \ {"rbp", "rsi"}
        PROVE  \E k \in 1 .. 15 : interrupt_cpu_state_t[k] = r /\ PushOrder[16 - k] = r
    <2>1. PICK j \in 1 .. 15 : PushOrder[j] = r
      BY PushOrderElements DEF Registers
    <2>2. j \notin {5, 7}
      BY <2>1 DEF PushOrder
    <2>3. 16 - j \in 1 .. 15 /\ 16 - (16 - j) = j
      OBVIOUS
    <2>. QED  BY <1>1, <2>1, <2>2, <2>3
  <1>3. /\ interrupt_cpu_state_t[9] = "rbp" /\ interrupt_cpu_state_t[11] = "rsi"
        /\ PushOrder[7] = "rsi" /\ PushOrder[5] = "rbp"
    BY DEF interrupt_cpu_state_t, PushOrder
  <1>. QED  BY <1>2, <1>3

LEMMA ConcatAt ==
  ASSUME NEW S, NEW s \in Seq(S), NEW t \in Seq(S)
  PROVE  /\ s \o t \in Seq(S) /\ Len(s \o t) = Len(s) + Len(t)
         /\ \A k \in 1 .. Len(s) : (s \o t)[k] = s[k]
         /\ \A k \in 1 .. Len(t) : (s \o t)[Len(s) + k] = t[k]
  <1>1. Len(s) \in Nat /\ Len(t) \in Nat
    OBVIOUS
  <1>2. \A k \in 1 .. Len(t) : /\ Len(s) + k \in 1 .. Len(s) + Len(t)
                               /\ ~(Len(s) + k <= Len(s)) /\ Len(s) + k - Len(s) = k
    BY <1>1
  <1>3. \A k \in 1 .. Len(s) : k \in 1 .. Len(s) + Len(t) /\ k <= Len(s)
    BY <1>1
  <1>. QED  BY <1>2, <1>3, ConcatProperties

\* The words a stub leaves: the registers, the number, one word in the place
\* of the error code, and the frame of the CPU.
LEMMA StubWords ==
  ASSUME NEW v
  PROVE  /\ Len(Stub(v)) = 22 /\ Stub(v) # <<>>
         /\ \A k \in 1 .. 15 : Stub(v)[k] = regs[PushOrder[16 - k]]
         /\ Stub(v)[16] = <<"isr_number", v>>
         /\ Stub(v)[17] = Word(IF v \in CpuErrorCodes THEN "error_code" ELSE "zero")
         /\ Stub(v)[18] = Word("rip") /\ Stub(v)[19] = Word("cs")
         /\ Stub(v)[20] = Word("rflags") /\ Stub(v)[21] = Word("rsp")
         /\ Stub(v)[22] = Word("ss")
  <1>. DEFINE pushed == [k \in DOMAIN PushOrder |-> regs[PushOrder[k]]]
              top    == Reverse(pushed)
              number == <<<<"isr_number", v>>>>
              own    == IF v \in ErrorStubs THEN <<>> ELSE <<Word("zero")>>
              cpu    == IF v \in CpuErrorCodes THEN <<Word("error_code")>> ELSE <<>>
              frame  == <<Word("rip"), Word("cs"), Word("rflags"), Word("rsp"), Word("ss")>>
              S      == {regs[PushOrder[k]] : k \in DOMAIN PushOrder}
                          \cup {<<"isr_number", v>>}
                          \cup {Word(name) : name \in {"zero", "error_code", "rip", "cs",
                                                       "rflags", "rsp", "ss"}}
  <1>1. /\ pushed \in Seq(S) /\ Len(pushed) = 15
        /\ \A k \in 1 .. 15 : pushed[k] = regs[PushOrder[k]]
    BY PushOrderElements
  <1>2. /\ top \in Seq(S) /\ Len(top) = 15
        /\ \A k \in 1 .. 15 : top[k] = regs[PushOrder[16 - k]]
    <2>. HIDE DEF pushed, S
    <2>1. top = [k \in 1 .. 15 |-> pushed[16 - k]]
      BY <1>1 DEF Reverse
    <2>2. \A k \in 1 .. 15 : 16 - k \in 1 .. 15
      OBVIOUS
    <2>3. \A k \in 1 .. 15 : pushed[16 - k] \in S
      BY <1>1, <2>2, ElementOfSeq
    <2>. HIDE DEF top
    <2>4. top \in Seq(S) /\ Len(top) = 15
      BY <2>1, <2>3
    <2>. QED  BY <1>1, <2>1, <2>2, <2>4
  <1>3. /\ number \in Seq(S) /\ Len(number) = 1 /\ number[1] = <<"isr_number", v>>
        /\ frame \in Seq(S) /\ Len(frame) = 5
        /\ frame[1] = Word("rip") /\ frame[2] = Word("cs") /\ frame[3] = Word("rflags")
        /\ frame[4] = Word("rsp") /\ frame[5] = Word("ss")
    OBVIOUS
  <1>4. /\ own \in Seq(S) /\ cpu \in Seq(S)
        /\ v \in CpuErrorCodes
             => own = <<>> /\ Len(own) = 0 /\ Len(cpu) = 1 /\ cpu[1] = Word("error_code")
        /\ v \notin CpuErrorCodes
             => cpu = <<>> /\ Len(cpu) = 0 /\ Len(own) = 1 /\ own[1] = Word("zero")
    <2>1. ErrorStubs = CpuErrorCodes
      BY DEF ErrorStubs, CpuErrorCodes
    <2>2. Word("error_code") \in S /\ Word("zero") \in S
      OBVIOUS
    <2>. HIDE DEF S
    <2>3. CASE v \in CpuErrorCodes
      <3>1. own = <<>> /\ cpu = <<Word("error_code")>>
        BY <2>1, <2>3
      <3>. QED  BY <2>2, <2>3, <3>1
    <2>4. CASE v \notin CpuErrorCodes
      <3>1. own = <<Word("zero")>> /\ cpu = <<>>
        BY <2>1, <2>4
      <3>. QED  BY <2>2, <2>4, <3>1
    <2>. QED  BY <2>3, <2>4
  <1>. DEFINE upper == top \o number
              error == own \o cpu
              words == upper \o error
              all   == words \o frame
  <1>5. Stub(v) = ((upper \o own) \o cpu) \o frame
    BY DEF Stub
  <1>. HIDE DEF pushed, top, number, own, cpu, frame, S
  <1>6. /\ upper \in Seq(S) /\ Len(upper) = 15 + 1
        /\ \A k \in 1 .. 15 : upper[k] = top[k]
        /\ upper[15 + 1] = number[1]
    <2>1. /\ upper \in Seq(S) /\ Len(upper) = Len(top) + Len(number)
          /\ \A k \in 1 .. Len(top) : upper[k] = top[k]
          /\ \A k \in 1 .. Len(number) : upper[Len(top) + k] = number[k]
      <3>1. top \in Seq(S) /\ number \in Seq(S)
        BY <1>2, <1>3
      <3>. QED  BY <3>1, ConcatAt
    <2>. HIDE DEF upper
    <2>2. 1 \in 1 .. Len(number)
      BY <1>3
    <2>. QED  BY <1>2, <1>3, <2>1, <2>2
  <1>7. /\ error \in Seq(S) /\ Len(error) = 1
        /\ error[1] = Word(IF v \in CpuErrorCodes THEN "error_code" ELSE "zero")
    <2>1. CASE v \in CpuErrorCodes
      <3>1. error = cpu
        BY <1>4, <2>1, ConcatEmptySeq
      <3>. QED  BY <1>4, <2>1, <3>1
    <2>2. CASE v \notin CpuErrorCodes
      <3>1. error = own
        BY <1>4, <2>2, ConcatEmptySeq
      <3>. QED  BY <1>4, <2>2, <3>1
    <2>. QED  BY <2>1, <2>2
  <1>. HIDE DEF upper
  <1>8. Stub(v) = all
    <2>1. upper \in Seq(S) /\ own \in Seq(S) /\ cpu \in Seq(S)
      BY <1>4, <1>6
    <2>2. (upper \o own) \o cpu = upper \o error
      BY <2>1, ConcatAssociative
    <2>. QED  BY <1>5, <2>2
  <1>. HIDE DEF error
  <1>9. /\ words \in Seq(S) /\ Len(words) = 16 + 1
        /\ \A k \in 1 .. 16 : words[k] = upper[k]
        /\ words[16 + 1] = error[1]
    <2>1. /\ words \in Seq(S) /\ Len(words) = Len(upper) + Len(error)
          /\ \A k \in 1 .. Len(upper) : words[k] = upper[k]
          /\ \A k \in 1 .. Len(error) : words[Len(upper) + k] = error[k]
      <3>1. upper \in Seq(S) /\ error \in Seq(S)
        BY <1>6, <1>7
      <3>. QED  BY <3>1, ConcatAt
    <2>. HIDE DEF words
    <2>. QED  BY <1>6, <1>7, <2>1
  <1>. HIDE DEF words
  <1>10. /\ Len(all) = 17 + 5
         /\ \A k \in 1 .. 17 : all[k] = words[k]
         /\ \A k \in 1 .. 5 : all[17 + k] = frame[k]
    <2>1. /\ Len(all) = Len(words) + Len(frame)
          /\ \A k \in 1 .. Len(words) : all[k] = words[k]
          /\ \A k \in 1 .. Len(frame) : all[Len(words) + k] = frame[k]
      <3>1. words \in Seq(S) /\ frame \in Seq(S)
        BY <1>3, <1>9
      <3>. QED  BY <3>1, ConcatAt
    <2>. HIDE DEF all
    <2>. QED  BY <1>3, <1>9, <2>1
  <1>. HIDE DEF all
  <1>11. Len(all) = 22 /\ all # <<>>
    <2>1. Len(all) = 22 /\ Len(all) # 0
      BY <1>10
    <2>2. all # <<>>
      <3>1. SUFFICES ASSUME all = <<>> PROVE Len(all) = 0
        BY <2>1
      <3>. QED  BY <3>1
    <2>. QED  BY <2>1, <2>2
  <1>12. \A k \in 1 .. 15 : all[k] = regs[PushOrder[16 - k]]
    <2>. TAKE k \in 1 .. 15
    <2>1. k \in 1 .. 16 /\ k \in 1 .. 17
      OBVIOUS
    <2>2. all[k] = words[k] /\ words[k] = upper[k] /\ upper[k] = top[k]
      BY <1>6, <1>9, <1>10, <2>1
    <2>. QED  BY <1>2, <2>2
  <1>13. /\ all[16] = <<"isr_number", v>>
         /\ all[17] = Word(IF v \in CpuErrorCodes THEN "error_code" ELSE "zero")
    BY <1>3, <1>6, <1>7, <1>9, <1>10
  <1>14. /\ all[17 + 1] = Word("rip") /\ all[17 + 2] = Word("cs")
         /\ all[17 + 3] = Word("rflags") /\ all[17 + 4] = Word("rsp")
         /\ all[17 + 5] = Word("ss")
    BY <1>3, <1>10
  <1>15. /\ all[18] = Word("rip") /\ all[19] = Word("cs") /\ all[20] = Word("rflags")
         /\ all[21] = Word("rsp") /\ all[22] = Word("ss")
    BY <1>14
  <1>. QED  BY <1>8, <1>11, <1>12, <1>13, <1>15

\* What isr_handler sees of the words a stub left.
LEMMA StubFields ==
  ASSUME NEW v, stack = Stub(v)
  PROVE  /\ IsrNumber = v /\ Len(stack) = Len(interrupt_cpu_state_t) /\ stack # <<>>
         /\ Field("error_code") = Word(IF v \in CpuErrorCodes THEN "error_code" ELSE "zero")
         /\ \A name \in {"rip", "cs", "rflags", "rsp", "ss"} : Field(name) = Word(name)
         /\ \A r \in Registers \ {"rbp", "rsi"} : Field(r) = regs[r]
         /\ Field("rbp") = regs["rsi"] /\ Field("rsi") = regs["rbp"]
  <1>1. IsrNumber = v
    BY FieldPlaces, StubWords DEF IsrNumber
  <1>2. \A k \in 1 .. 15 : Field(interrupt_cpu_state_t[k]) = regs[PushOrder[16 - k]]
    BY RegisterPlaces, StubWords
  <1>3. \A r \in Registers \ {"rbp", "rsi"} : Field(r) = regs[r]
    BY <1>2, RegistersWherePushed
  <1>4. Field("rbp") = regs["rsi"] /\ Field("rsi") = regs["rbp"]
    <2>1. 9 \in 1 .. 15 /\ 11 \in 1 .. 15 /\ 16 - 9 = 7 /\ 16 - 11 = 5
      OBVIOUS
    <2>2. /\ Field(interrupt_cpu_state_t[9]) = regs[PushOrder[7]]
          /\ Field(interrupt_cpu_state_t[11]) = regs[PushOrder[5]]
      BY <1>2, <2>1
    <2>. QED  BY <2>2, RegistersWherePushed
  <1>. QED  BY <1>1, <1>3, <1>4, FieldPlaces, StubWords
----------------------------------------------------------------------------
(* The kernel's code, instruction by instruction.                          *)

Listing(s, n) == s \in Seq(Instruction) /\ Len(s) = n

\* Concatenation as an operator of its own, for the lemmas on whole programs.
Cat(s, t) == s \o t

LEMMA CatListing ==
  ASSUME NEW s, NEW t, NEW m \in Nat, NEW n \in Nat, Listing(s, m), Listing(t, n)
  PROVE  /\ Listing(Cat(s, t), m + n)
         /\ \A k \in 1 .. m : Cat(s, t)[k] = s[k]
         /\ \A k \in 1 .. n : Cat(s, t)[m + k] = t[k]
  <1>1. s \in Seq(Instruction) /\ t \in Seq(Instruction)
    BY DEF Listing
  <1>2. /\ Cat(s, t) \in Seq(Instruction) /\ Len(Cat(s, t)) = Len(s) + Len(t)
        /\ \A k \in 1 .. Len(s) : Cat(s, t)[k] = s[k]
        /\ \A k \in 1 .. Len(t) : Cat(s, t)[Len(s) + k] = t[k]
    BY <1>1, ConcatAt DEF Cat
  <1>3. Len(s) = m /\ Len(t) = n
    BY DEF Listing
  <1>. QED  BY <1>2, <1>3 DEF Listing

LEMMA InstructionTypes ==
  /\ \A p \in PICs : In(p) \in Quiet
  /\ \A p \in PICs, set \in SUBSET Lines, clear \in SUBSET Lines :
       DataSaved(p, set, clear) \in Quiet
  /\ Simple("poll") \in Quiet /\ Simple("read") \in Quiet
  /\ \A p \in PICs, value \in 0 .. 255 :
       Command(p, value) \in Instruction /\ Data(p, value) \in Instruction
  /\ \A vectors \in SUBSET (0 .. 255) : Gates(vectors) \in Instruction
  /\ Simple("load_idt") \in Instruction /\ Simple("other") \in Instruction
  /\ Quiet \subseteq Instruction
  <1>1. \A p \in PICs, set \in SUBSET Lines, clear \in SUBSET Lines :
          DataSaved(p, set, clear) \in Quiet
    <2>. TAKE p \in PICs, set \in SUBSET Lines, clear \in SUBSET Lines
    <2>. DEFINE a == <<p, set, clear>>
    <2>1. a \in PICs \X (SUBSET Lines) \X (SUBSET Lines)
      OBVIOUS
    <2>2. a[1] = p /\ a[2] = set /\ a[3] = clear
      OBVIOUS
    <2>. HIDE DEF a
    <2>3. DataSaved(a[1], a[2], a[3]) \in Quiet
      BY <2>1 DEF Quiet
    <2>. QED  BY <2>2, <2>3
  <1>2. \A p \in PICs, value \in 0 .. 255 :
          Command(p, value) \in Instruction /\ Data(p, value) \in Instruction
    <2>. TAKE p \in PICs, value \in 0 .. 255
    <2>. DEFINE a == <<p, value>>
    <2>1. a \in PICs \X (0 .. 255) /\ a[1] = p /\ a[2] = value
      OBVIOUS
    <2>. HIDE DEF a
    <2>2. Command(a[1], a[2]) \in Instruction /\ Data(a[1], a[2]) \in Instruction
      BY <2>1 DEF Instruction
    <2>. QED  BY <2>1, <2>2
  <1>3. /\ \A p \in PICs : In(p) \in Quiet
        /\ Simple("poll") \in Quiet /\ Simple("read") \in Quiet
        /\ \A vectors \in SUBSET (0 .. 255) : Gates(vectors) \in Instruction
        /\ Simple("load_idt") \in Instruction /\ Simple("other") \in Instruction
        /\ Quiet \subseteq Instruction
    BY DEF Quiet, Instruction
  <1>. QED  BY <1>1, <1>2, <1>3

LEMMA RemapListing == Listing(pic_remap, 16)
  <1>. DEFINE m == In("master")
  <1>1. "master" \in PICs /\ "slave" \in PICs /\ {} \in SUBSET Lines
    BY DEF PICs
  <1>2. \A v \in {0, 1, 2, 4, 17, 32, 40} : v \in 0 .. 255
    OBVIOUS
  <1>3. \A p \in {"master", "slave"} :
          /\ In(p) \in Instruction /\ DataSaved(p, {}, {}) \in Instruction
          /\ \A v \in {0, 1, 2, 4, 17, 32, 40} :
               Command(p, v) \in Instruction /\ Data(p, v) \in Instruction
    BY <1>1, <1>2, InstructionTypes
  <1>4. pic_remap \in Seq(Instruction) /\ Len(pic_remap) = 16
    BY <1>3 DEF pic_remap, RemapTo
  <1>. QED  BY <1>4 DEF Listing

\* The 40 instructions of kmain.
LEMMA KmainListing ==
  /\ Listing(kmain, 40)
  /\ kmain[1] = Gates(0 .. 31)
  /\ \A j \in 1 .. 16 : kmain[FirstRemap + j] = pic_remap[j]
  /\ kmain[18] = Gates((32 .. 47) \cup {255})
  /\ kmain[19] = In("master") /\ kmain[20] = DataSaved("master", {1}, {})
  /\ kmain[21] = Simple("load_idt") /\ kmain[22] = Simple("other")
  /\ \A j \in 1 .. 16 : kmain[SecondRemap + j] = pic_remap[j]
  /\ kmain[39] = Data("slave", 255) /\ kmain[40] = Data("master", 255)
  <1>. DEFINE g == <<Gates(0 .. 31)>>
              h == <<Gates((32 .. 47) \cup {255})>>
              m == <<In("master"), DataSaved("master", {1}, {})>>
              l == <<Simple("load_idt")>>
              o == <<Simple("other")>>
              d == <<Data("slave", 255), Data("master", 255)>>
  <1>1. /\ Listing(g, 1) /\ g[1] = Gates(0 .. 31)
        /\ Listing(h, 1) /\ h[1] = Gates((32 .. 47) \cup {255})
    <2>1. 0 .. 31 \in SUBSET (0 .. 255) /\ (32 .. 47) \cup {255} \in SUBSET (0 .. 255)
      OBVIOUS
    <2>2. Gates(0 .. 31) \in Instruction /\ Gates((32 .. 47) \cup {255}) \in Instruction
      BY <2>1, InstructionTypes
    <2>. QED  BY <2>2 DEF Listing
  <1>2. /\ Listing(m, 2) /\ m[1] = In("master") /\ m[2] = DataSaved("master", {1}, {})
        /\ Listing(d, 2) /\ d[1] = Data("slave", 255) /\ d[2] = Data("master", 255)
    <2>1. /\ "master" \in PICs /\ "slave" \in PICs /\ {1} \in SUBSET Lines
          /\ {} \in SUBSET Lines /\ 255 \in 0 .. 255
      BY DEF PICs, Lines
    <2>2. /\ In("master") \in Instruction /\ DataSaved("master", {1}, {}) \in Instruction
          /\ Data("slave", 255) \in Instruction /\ Data("master", 255) \in Instruction
      BY <2>1, InstructionTypes
    <2>. QED  BY <2>2 DEF Listing
  <1>3. /\ Listing(l, 1) /\ l[1] = Simple("load_idt")
        /\ Listing(o, 1) /\ o[1] = Simple("other")
    BY InstructionTypes DEF Listing
  <1>4. kmain = Cat(Cat(Cat(Cat(Cat(Cat(g, pic_remap), h), m), l), o), Cat(pic_remap, d))
    <2>1. pic_set_mask(Keyboard) = m
      <3>1. PicOf(1) = "master" /\ LineIn(1) = 1
        BY DEF PicOf, LineIn
      <3>. QED  BY <3>1 DEF pic_set_mask, Keyboard
    <2>. QED  BY <2>1 DEF kmain, idt_init, apic_init, pic_disable, Cat
  <1>. HIDE DEF g, h, m, l, o, d
  <1>. DEFINE s1 == Cat(g, pic_remap)
              s2 == Cat(s1, h)
              s3 == Cat(s2, m)
              s4 == Cat(s3, l)
              s5 == Cat(s4, o)
              t  == Cat(pic_remap, d)
              s  == Cat(s5, t)
  <1>5. /\ Listing(s1, 1 + 16) /\ \A k \in 1 .. 1 : s1[k] = g[k]
        /\ \A k \in 1 .. 16 : s1[1 + k] = pic_remap[k]
    BY <1>1, RemapListing, CatListing
  <1>6. /\ Listing(t, 16 + 2) /\ \A k \in 1 .. 16 : t[k] = pic_remap[k]
        /\ \A k \in 1 .. 2 : t[16 + k] = d[k]
    BY <1>2, RemapListing, CatListing
  <1>. HIDE DEF s1, t
  <1>7. /\ Listing(s2, 17 + 1) /\ \A k \in 1 .. 17 : s2[k] = s1[k]
        /\ \A k \in 1 .. 1 : s2[17 + k] = h[k]
    BY <1>1, <1>5, CatListing
  <1>. HIDE DEF s2
  <1>8. /\ Listing(s3, 18 + 2) /\ \A k \in 1 .. 18 : s3[k] = s2[k]
        /\ \A k \in 1 .. 2 : s3[18 + k] = m[k]
    BY <1>2, <1>7, CatListing
  <1>. HIDE DEF s3
  <1>9. /\ Listing(s4, 20 + 1) /\ \A k \in 1 .. 20 : s4[k] = s3[k]
        /\ \A k \in 1 .. 1 : s4[20 + k] = l[k]
    BY <1>3, <1>8, CatListing
  <1>. HIDE DEF s4
  <1>10. /\ Listing(s5, 21 + 1) /\ \A k \in 1 .. 21 : s5[k] = s4[k]
         /\ \A k \in 1 .. 1 : s5[21 + k] = o[k]
    BY <1>3, <1>9, CatListing
  <1>. HIDE DEF s5
  <1>11. /\ Listing(s, 22 + 18) /\ \A k \in 1 .. 22 : s[k] = s5[k]
         /\ \A k \in 1 .. 18 : s[22 + k] = t[k]
    BY <1>6, <1>10, CatListing
  <1>. HIDE DEF s
  <1>12. kmain = s
    BY <1>4 DEF s1, s2, s3, s4, s5, t, s
  <1>13. /\ Listing(kmain, 40) /\ \A k \in 1 .. 22 : kmain[k] = s5[k]
         /\ \A k \in 1 .. 18 : kmain[22 + k] = t[k]
    BY <1>11, <1>12
  <1>14. \A k \in 1 .. 17 : kmain[k] = s1[k]
    <2>. TAKE k \in 1 .. 17
    <2>1. k \in 1 .. 18 /\ k \in 1 .. 20 /\ k \in 1 .. 21 /\ k \in 1 .. 22
      OBVIOUS
    <2>. QED  BY <1>7, <1>8, <1>9, <1>10, <1>13, <2>1
  <1>15. kmain[1] = Gates(0 .. 31)
    BY <1>1, <1>5, <1>14
  <1>16. \A j \in 1 .. 16 : kmain[1 + j] = pic_remap[j]
    <2>. TAKE j \in 1 .. 16
    <2>1. 1 + j \in 1 .. 17
      OBVIOUS
    <2>. QED  BY <1>5, <1>14, <2>1
  <1>17. kmain[18] = Gates((32 .. 47) \cup {255})
    <2>1. s2[17 + 1] = h[1]
      BY <1>7
    <2>2. 18 \in 1 .. 18 /\ 18 \in 1 .. 20 /\ 18 \in 1 .. 21 /\ 18 \in 1 .. 22
      OBVIOUS
    <2>3. kmain[18] = s2[18]
      BY <1>8, <1>9, <1>10, <1>13, <2>2
    <2>. QED  BY <1>1, <2>1, <2>3
  <1>18. kmain[18 + 1] = In("master") /\ kmain[18 + 2] = DataSaved("master", {1}, {})
    BY <1>2, <1>8, <1>9, <1>10, <1>13
  <1>19. kmain[20 + 1] = Simple("load_idt") /\ kmain[21 + 1] = Simple("other")
    BY <1>3, <1>9, <1>10, <1>13
  <1>20. \A j \in 1 .. 16 : kmain[22 + j] = pic_remap[j]
    BY <1>6, <1>13
  <1>21. kmain[22 + 17] = Data("slave", 255) /\ kmain[22 + 18] = Data("master", 255)
    <2>1. t[16 + 1] = Data("slave", 255) /\ t[16 + 2] = Data("master", 255)
      BY <1>2, <1>6
    <2>. QED  BY <1>13, <2>1
  <1>. QED  BY <1>13, <1>15, <1>16, <1>17, <1>18, <1>19, <1>20, <1>21
            DEF FirstRemap, SecondRemap

\* The rest of kmain's code is executed instruction by instruction.
LEMMA KmainStep ==
  ASSUME NEW k \in 1 .. 40, code = SubSeq(kmain, k, Len(kmain))
  PROVE  /\ code # <<>> /\ Head(code) = kmain[k] /\ Head(code) \in Instruction
         /\ Tail(code) = SubSeq(kmain, k + 1, Len(kmain))
         /\ k = 40 => Tail(code) = <<>>
  <1>1. kmain \in Seq(Instruction) /\ Len(kmain) = 40
    BY KmainListing DEF Listing
  <1>2. kmain[k] \in Instruction
    BY <1>1, ElementOfSeq
  <1>. HIDE DEF Instruction
  <1>3. k \in 1 .. Len(kmain) /\ Len(kmain) \in k .. Len(kmain)
    BY <1>1
  <1>4. Head(code) = kmain[k] /\ Tail(code) = SubSeq(kmain, k + 1, Len(kmain))
    BY <1>1, <1>3, HeadTailOfSubSeq
  <1>5. Len(code) = 40 - k + 1
    <2>1. \A i \in k .. 40 : kmain[i] \in Instruction
      <3>. TAKE i \in k .. 40
      <3>1. i \in 1 .. Len(kmain)
        BY <1>1
      <3>. QED  BY <1>1, <3>1, ElementOfSeq
    <2>2. k \in Int /\ 40 \in Int /\ k <= 40
      OBVIOUS
    <2>. QED  BY <1>1, <2>1, <2>2, SubSeqProperties
  <1>6. code # <<>>
    <2>1. SUFFICES ASSUME code = <<>> PROVE Len(code) = 0
      BY <1>5
    <2>. QED  BY <2>1
  <1>7. k = 40 => SubSeq(kmain, k + 1, Len(kmain)) = <<>>
    BY <1>1, SubSeqEmpty
  <1>. QED  BY <1>2, <1>4, <1>6, <1>7

LEMMA CallsAreQuiet == \A call \in Calls : CodeOf(call) \in Seq(Quiet)
  <1>. TAKE call \in Calls
  <1>1. \A line \in 0 .. 15 : PicOf(line) \in PICs /\ LineIn(line) \in Lines
    BY DEF PicOf, LineIn, PICs, Lines
  <1>2. \A line \in 0 .. 15 : pic_set_mask(line) \in Seq(Quiet)
                              /\ pic_clear_mask(line) \in Seq(Quiet)
    <2>. TAKE line \in 0 .. 15
    <2>1. /\ In(PicOf(line)) \in Quiet
          /\ DataSaved(PicOf(line), {LineIn(line)}, {}) \in Quiet
          /\ DataSaved(PicOf(line), {}, {LineIn(line)}) \in Quiet
      <3>1. {LineIn(line)} \in SUBSET Lines /\ {} \in SUBSET Lines
        BY <1>1
      <3>. QED  BY <1>1, <3>1, InstructionTypes
    <2>. QED  BY <2>1 DEF pic_set_mask, pic_clear_mask
  <1>3. keyboard_init \in Seq(Quiet)
    <2>1. pic_clear_mask(Keyboard) \in Seq(Quiet)
      BY <1>2 DEF Keyboard
    <2>2. <<Simple("poll")>> \in Seq(Quiet)
      BY InstructionTypes
    <2>. HIDE DEF pic_clear_mask, Quiet
    <2>. QED  BY <2>1, <2>2, ConcatProperties DEF keyboard_init
  <1>4. CASE call.name = "keyboard"
    BY <1>3, <1>4 DEF CodeOf
  <1>5. CASE call.name # "keyboard"
    <2>1. call.name \in {"set_mask", "clear_mask"} /\ call.line \in 0 .. 15
      BY <1>5, InterruptsAssumption DEF InterruptsAssumption
    <2>2. pic_set_mask(call.line) \in Seq(Quiet) /\ pic_clear_mask(call.line) \in Seq(Quiet)
      BY <1>2, <2>1
    <2>. QED  BY <2>1, <2>2 DEF CodeOf
  <1>. QED  BY <1>4, <1>5
----------------------------------------------------------------------------
(* What one instruction does to the PICs.                                  *)

IcwBaseKept == \A q \in PICs : pics'[q].icw = pics[q].icw /\ pics'[q].base = pics[q].base

LEMMA BitsAreLines == \A value : Bits(value) \in SUBSET Lines
  BY DEF Bits

LEMMA WriteCommandTypes ==
  ASSUME NEW pic \in Pic, NEW value \in 0 .. 255
  PROVE  /\ WriteCommand(pic, value) \in Pic
         /\ WriteCommand(pic, value).isr \subseteq pic.isr
         /\ WriteCommand(pic, value).base = pic.base
         /\ WriteCommand(pic, value).icw = IF value = 17 THEN 2 ELSE pic.icw
  BY DEF WriteCommand, EndOfInterrupt, Pic

LEMMA WriteDataTypes ==
  ASSUME NEW pic \in Pic, NEW value \in 0 .. 255
  PROVE  /\ WriteData(pic, value) \in Pic
         /\ WriteData(pic, value).isr = pic.isr
         /\ WriteData(pic, value).base = IF pic.icw = 2 THEN value ELSE pic.base
         /\ WriteData(pic, value).icw = IF pic.icw = 2 THEN 3 ELSE IF pic.icw = 3 THEN 4 ELSE 0
  <1>. DEFINE b == Bits(value)
  <1>1. b \in SUBSET Lines
    BY BitsAreLines
  <1>2. pic.icw \in {0, 2, 3, 4}
    BY DEF Pic
  <1>. HIDE DEF b
  <1>3. CASE pic.icw = 0
    <2>1. WriteData(pic, value) = [pic EXCEPT !.imr = b]
      BY <1>3 DEF WriteData, b
    <2>. QED  BY <1>1, <1>3, <2>1 DEF Pic
  <1>4. CASE pic.icw = 2
    <2>1. WriteData(pic, value) = [pic EXCEPT !.base = value, !.icw = 3]
      BY <1>4 DEF WriteData
    <2>. QED  BY <1>4, <2>1 DEF Pic
  <1>5. CASE pic.icw = 3
    BY <1>5 DEF WriteData, Pic
  <1>6. CASE pic.icw = 4
    BY <1>6 DEF WriteData, Pic
  <1>. QED  BY <1>2, <1>3, <1>4, <1>5, <1>6
----------------------------------------------------------------------------
(* What Execute does with each kind of instruction.                        *)

IsrShrinks == \A q \in PICs : pics'[q].isr \subseteq pics[q].isr

Ops == {"in", "command", "data", "saved", "gates", "load_idt", "poll", "read", "other"}

LEMMA ExecuteFrame ==
  ASSUME Execute
  PROVE  /\ status = "running" /\ stack = <<>> /\ code # <<>>
         /\ status' = status /\ regs' = regs /\ stack' = stack
  BY DEF Execute, Idle

\* A PIC is replaced by another.
LEMMA OnePicChanges ==
  ASSUME TypeOK, NEW p \in PICs, NEW new \in Pic, pics' = [pics EXCEPT ![p] = new]
  PROVE  /\ pics' \in [PICs -> Pic] /\ pics'[p] = new
         /\ \A q \in PICs \ {p} : pics'[q] = pics[q]
         /\ new.isr \subseteq pics[p].isr => IsrShrinks
  <1>1. pics \in [PICs -> Pic]
    BY DEF TypeOK
  <1>. HIDE DEF Pic
  <1>2. /\ pics' \in [PICs -> Pic] /\ pics'[p] = new
        /\ \A q \in PICs \ {p} : pics'[q] = pics[q]
    BY <1>1
  <1>3. ASSUME new.isr \subseteq pics[p].isr
        PROVE  \A q \in PICs : pics'[q].isr \subseteq pics[q].isr
    <2>. TAKE q \in PICs
    <2>. QED  BY <1>2, <1>3
  <1>. QED  BY <1>2, <1>3 DEF IsrShrinks

LEMMA TwoPicsChange ==
  ASSUME TypeOK, NEW master \in Pic, NEW slave \in Pic,
         pics' = [pics EXCEPT !["master"] = master, !["slave"] = slave]
  PROVE  pics' \in [PICs -> Pic] /\ pics'["master"] = master /\ pics'["slave"] = slave
  <1>1. pics \in [PICs -> Pic]
    BY DEF TypeOK
  <1>2. PICs = {"master", "slave"}
    BY DEF PICs
  <1>. HIDE DEF Pic
  <1>3. pics' = [q \in PICs |-> IF q = "slave" THEN slave
                                ELSE IF q = "master" THEN master ELSE pics[q]]
    BY <1>1, <1>2
  <1>. QED  BY <1>1, <1>2, <1>3

LEMMA ExecuteCommand ==
  ASSUME TypeOK, Execute, NEW p \in PICs, NEW value \in 0 .. 255,
         Head(code) = Command(p, value)
  PROVE  /\ TypeOK' /\ IsrShrinks /\ code' = Tail(code)
         /\ idt' = idt /\ interrupts' = interrupts
         /\ pics'[p].base = pics[p].base
         /\ pics'[p].icw = IF value = 17 THEN 2 ELSE pics[p].icw
         /\ \A q \in PICs \ {p} : pics'[q] = pics[q]
  <1>1. Head(code).op = "command" /\ Head(code).pic = p /\ Head(code).value = value
    BY DEF Command
  <1>2. /\ pics' = [pics EXCEPT ![p] = WriteCommand(@, value)]
        /\ UNCHANGED <<saved, interrupts, idt, obf>> /\ code' = Tail(code)
    BY <1>1 DEF Execute, ExecutePort, Advance
  <1>. DEFINE new == WriteCommand(pics[p], value)
  <1>3. pics[p] \in Pic /\ pics' = [pics EXCEPT ![p] = new]
    BY <1>2 DEF TypeOK
  <1>4. /\ new \in Pic /\ new.isr \subseteq pics[p].isr /\ new.base = pics[p].base
        /\ new.icw = IF value = 17 THEN 2 ELSE pics[p].icw
    BY <1>3, WriteCommandTypes
  <1>. HIDE DEF new
  <1>5. /\ pics' \in [PICs -> Pic] /\ pics'[p] = new /\ IsrShrinks
        /\ \A q \in PICs \ {p} : pics'[q] = pics[q]
    BY <1>3, <1>4, OnePicChanges
  <1>6. TypeOK'
    BY <1>2, <1>5, ExecuteFrame DEF TypeOK
  <1>. QED  BY <1>2, <1>4, <1>5, <1>6

LEMMA ExecuteData ==
  ASSUME TypeOK, Execute, NEW p \in PICs, NEW value \in 0 .. 255,
         Head(code) = Data(p, value)
  PROVE  /\ TypeOK' /\ IsrShrinks /\ code' = Tail(code)
         /\ idt' = idt /\ interrupts' = interrupts
         /\ pics'[p].base = IF pics[p].icw = 2 THEN value ELSE pics[p].base
         /\ pics'[p].icw = IF pics[p].icw = 2 THEN 3 ELSE IF pics[p].icw = 3 THEN 4 ELSE 0
         /\ \A q \in PICs \ {p} : pics'[q] = pics[q]
  <1>1. Head(code).op = "data" /\ Head(code).pic = p /\ Head(code).value = value
    BY DEF Data
  <1>2. /\ pics' = [pics EXCEPT ![p] = WriteData(@, value)]
        /\ UNCHANGED <<saved, interrupts, idt, obf>> /\ code' = Tail(code)
    BY <1>1 DEF Execute, ExecutePort, Advance
  <1>. DEFINE new == WriteData(pics[p], value)
  <1>3. pics[p] \in Pic /\ pics' = [pics EXCEPT ![p] = new]
    BY <1>2 DEF TypeOK
  <1>4. /\ new \in Pic /\ new.isr \subseteq pics[p].isr
        /\ new.base = IF pics[p].icw = 2 THEN value ELSE pics[p].base
        /\ new.icw = IF pics[p].icw = 2 THEN 3 ELSE IF pics[p].icw = 3 THEN 4 ELSE 0
    BY <1>3, WriteDataTypes
  <1>. HIDE DEF new
  <1>5. /\ pics' \in [PICs -> Pic] /\ pics'[p] = new /\ IsrShrinks
        /\ \A q \in PICs \ {p} : pics'[q] = pics[q]
    BY <1>3, <1>4, OnePicChanges
  <1>6. TypeOK'
    BY <1>2, <1>5, ExecuteFrame DEF TypeOK
  <1>. QED  BY <1>2, <1>4, <1>5, <1>6

LEMMA ExecuteQuiet ==
  ASSUME TypeOK, Execute, Head(code) \in Quiet
  PROVE  /\ TypeOK' /\ IsrShrinks /\ IcwBaseKept
         /\ idt' = idt /\ interrupts' = interrupts
         /\ \/ code' = Tail(code)
            \/ Head(code) = Simple("poll") /\ code' = <<Simple("read")>> \o code
  <1>. DEFINE i == Head(code)
  <1>1. CASE \E p \in PICs : i = In(p)
    <2>. PICK p \in PICs : i = In(p)
      BY <1>1
    <2>1. i.op = "in" /\ i.pic = p
      BY DEF In
    <2>2. /\ saved' = [saved EXCEPT ![p] = pics[p].imr]
          /\ UNCHANGED <<pics, interrupts, idt, obf>> /\ code' = Tail(code)
      BY <2>1 DEF Execute, ExecutePort, Advance
    <2>3. pics[p].imr \in SUBSET Lines
      BY DEF TypeOK, Pic
    <2>4. TypeOK'
      BY <2>2, <2>3, ExecuteFrame DEF TypeOK
    <2>. QED  BY <2>2, <2>4 DEF IsrShrinks, IcwBaseKept
  <1>2. CASE i = Simple("poll") \/ i = Simple("read")
    <2>1. i.op = "poll" \/ i.op = "read"
      BY <1>2 DEF Simple
    <2>2. /\ obf' \in BOOLEAN /\ UNCHANGED <<pics, saved, interrupts, idt>>
          /\ \/ code' = Tail(code)
             \/ i.op = "poll" /\ code' = <<Simple("read")>> \o code
      BY <2>1 DEF Execute, ExecutePort, Advance, TypeOK
    <2>3. TypeOK'
      BY <2>2, ExecuteFrame DEF TypeOK
    <2>4. i.op = "poll" => i = Simple("poll")
      BY <1>2 DEF Simple
    <2>. QED  BY <2>2, <2>3, <2>4 DEF IsrShrinks, IcwBaseKept
  <1>3. CASE \E a \in PICs \X (SUBSET Lines) \X (SUBSET Lines) :
               i = DataSaved(a[1], a[2], a[3])
    <2>. PICK a \in PICs \X (SUBSET Lines) \X (SUBSET Lines) :
                i = DataSaved(a[1], a[2], a[3])
      BY <1>3
    <2>. DEFINE p == a[1]
                imr == (saved[p] \cup a[2]) \ a[3]
                new == [pics[p] EXCEPT !.imr = imr]
    <2>1. i.op = "saved" /\ i.pic = p /\ i.set = a[2] /\ i.clear = a[3]
      BY DEF DataSaved
    <2>2. p \in PICs /\ a[2] \in SUBSET Lines /\ saved \in [PICs -> SUBSET Lines]
      BY DEF TypeOK
    <2>3. /\ saved' = [saved EXCEPT ![p] = {}]
          /\ pics' = [pics EXCEPT ![p] = new]
          /\ UNCHANGED <<interrupts, idt, obf>> /\ code' = Tail(code)
      BY <2>1 DEF Execute, ExecutePort, Advance
    <2>4. imr \in SUBSET Lines /\ pics[p] \in Pic
      BY <2>2 DEF TypeOK
    <2>. HIDE DEF imr, p
    <2>5. new \in Pic /\ new.isr = pics[p].isr /\ new.icw = pics[p].icw /\ new.base = pics[p].base
      BY <2>4 DEF Pic
    <2>. HIDE DEF new
    <2>6. /\ pics' \in [PICs -> Pic] /\ pics'[p] = new /\ IsrShrinks
          /\ \A q \in PICs \ {p} : pics'[q] = pics[q]
      BY <2>2, <2>3, <2>5, OnePicChanges
    <2>7. saved' \in [PICs -> SUBSET Lines]
      BY <2>2, <2>3
    <2>8. TypeOK'
      BY <2>3, <2>6, <2>7, ExecuteFrame DEF TypeOK
    <2>9. \A q \in PICs : pics'[q].icw = pics[q].icw /\ pics'[q].base = pics[q].base
      BY <2>5, <2>6
    <2>. QED  BY <2>3, <2>6, <2>8, <2>9 DEF IcwBaseKept
  <1>. QED  BY <1>1, <1>2, <1>3 DEF Quiet

LEMMA ExecuteGates ==
  ASSUME TypeOK, Execute, NEW vectors \in SUBSET (0 .. 255), Head(code) = Gates(vectors)
  PROVE  /\ TypeOK' /\ pics' = pics /\ interrupts' = interrupts /\ code' = Tail(code)
         /\ \A v \in vectors : v < 48 => v \in DOMAIN idt' /\ idt'[v] = "stub"
         /\ \A v \in DOMAIN idt \ vectors : v \in DOMAIN idt' /\ idt'[v] = idt[v]
  <1>1. Head(code).op = "gates" /\ Head(code).vectors = vectors
    BY DEF Gates
  <1>2. CreateGates(vectors) /\ UNCHANGED <<saved, interrupts, pics, obf>> /\ code' = Tail(code)
    BY <1>1 DEF Execute, ExecutePort, Advance
  <1>3. PICK behind \in {"stub", "garbage"} :
          idt' = [v \in DOMAIN idt \cup vectors |->
                    IF v \in vectors THEN create_descriptor(v, behind) ELSE idt[v]]
    BY <1>2 DEF CreateGates
  <1>4. \A v : create_descriptor(v, behind) \in {"stub", "garbage"}
               /\ (v < 48 => create_descriptor(v, behind) = "stub")
    BY DEF create_descriptor
  <1>5. /\ DOMAIN idt' \subseteq 0 .. 255
        /\ \A v \in DOMAIN idt' : idt'[v] \in {"stub", "garbage"}
    BY <1>3, <1>4 DEF TypeOK
  <1>6. TypeOK'
    BY <1>2, <1>5, ExecuteFrame DEF TypeOK
  <1>. QED  BY <1>2, <1>3, <1>4, <1>6

LEMMA ExecuteSimple ==
  ASSUME TypeOK, Execute, NEW op \in {"load_idt", "other"}, Head(code) = Simple(op)
  PROVE  /\ TypeOK' /\ pics' = pics /\ idt' = idt /\ code' = Tail(code)
         /\ op = "other" => interrupts' = interrupts
  <1>1. Head(code).op = op
    BY DEF Simple
  <1>2. /\ UNCHANGED <<saved, idt, pics, obf>> /\ code' = Tail(code)
        /\ interrupts' \in BOOLEAN /\ (op = "other" => interrupts' = interrupts)
    BY <1>1 DEF Execute, ExecutePort, Advance, TypeOK
  <1>3. TypeOK'
    BY <1>2, ExecuteFrame DEF TypeOK
  <1>. QED  BY <1>2, <1>3
----------------------------------------------------------------------------
(* The remapping leaves both PICs operating, with the vectors of the IRQs. *)

LEMMA RemapInstructions ==
  /\ pic_remap[1] = In("master") /\ pic_remap[2] = In("slave")
  /\ pic_remap[3] = Command("master", 17) /\ pic_remap[4] = Command("slave", 17)
  /\ pic_remap[5] = Data("master", 32) /\ pic_remap[6] = Data("slave", 40)
  /\ \A j \in {7, 9, 11, 13} : \E value \in 0 .. 255 : pic_remap[j] = Data("master", value)
  /\ \A j \in {8, 10, 12, 14} : \E value \in 0 .. 255 : pic_remap[j] = Data("slave", value)
  /\ pic_remap[15] = DataSaved("master", {}, {})
  /\ pic_remap[16] = DataSaved("slave", {}, {})
  <1>1. /\ pic_remap[7] = Data("master", 4) /\ pic_remap[8] = Data("slave", 2)
        /\ pic_remap[9] = Data("master", 1) /\ pic_remap[10] = Data("slave", 1)
        /\ pic_remap[11] = Data("master", 0) /\ pic_remap[12] = Data("slave", 0)
        /\ pic_remap[13] = Data("master", 1) /\ pic_remap[14] = Data("slave", 1)
    BY DEF pic_remap, RemapTo
  <1>2. /\ pic_remap[1] = In("master") /\ pic_remap[2] = In("slave")
        /\ pic_remap[3] = Command("master", 17) /\ pic_remap[4] = Command("slave", 17)
        /\ pic_remap[5] = Data("master", 32) /\ pic_remap[6] = Data("slave", 40)
        /\ pic_remap[15] = DataSaved("master", {}, {})
        /\ pic_remap[16] = DataSaved("slave", {}, {})
    BY DEF pic_remap, RemapTo
  <1>3. 0 \in 0 .. 255 /\ 1 \in 0 .. 255 /\ 2 \in 0 .. 255 /\ 4 \in 0 .. 255
    OBVIOUS
  <1>. QED  BY <1>1, <1>2, <1>3

\* The only instruction of one PIC and of the other that writes its vectors.
RemapBase(p, j, base) ==
  IF j = (IF p = "master" THEN 5 ELSE 6) THEN Base(p) ELSE base

LEMMA RemapStep ==
  ASSUME TypeOK, Execute, NEW j \in 1 .. 16, Head(code) = pic_remap[j],
         \A p \in PICs : pics[p].icw = RemapIcw(p, j)
  PROVE  /\ TypeOK' /\ IsrShrinks /\ code' = Tail(code)
         /\ idt' = idt /\ interrupts' = interrupts
         /\ \A p \in PICs : /\ pics'[p].icw = RemapIcw(p, j + 1)
                            /\ pics'[p].base = RemapBase(p, j, pics[p].base)
  <1>1. "master" \in PICs /\ "slave" \in PICs /\ PICs = {"master", "slave"}
    BY DEF PICs
  <1>2. CASE j \in {1, 2, 15, 16}
    <2>1. Head(code) \in Quiet /\ Head(code).op \in {"in", "saved"}
      <3>1. {} \in SUBSET Lines
        OBVIOUS
      <3>2. \A p \in PICs : In(p).op = "in" /\ DataSaved(p, {}, {}).op = "saved"
        BY DEF In, DataSaved
      <3>3. \E p \in PICs : Head(code) = In(p) \/ Head(code) = DataSaved(p, {}, {})
        BY <1>1, <1>2, RemapInstructions
      <3>. QED  BY <3>1, <3>2, <3>3, InstructionTypes
    <2>2. Head(code) # Simple("poll")
      BY <2>1 DEF Simple
    <2>3. /\ TypeOK' /\ IsrShrinks /\ IcwBaseKept /\ code' = Tail(code)
          /\ idt' = idt /\ interrupts' = interrupts
      BY <2>1, <2>2, ExecuteQuiet
    <2>4. \A p \in PICs : RemapIcw(p, j + 1) = RemapIcw(p, j)
                          /\ \A base : RemapBase(p, j, base) = base
      BY <1>2 DEF RemapIcw, RemapBase
    <2>. QED  BY <2>3, <2>4 DEF IcwBaseKept
  <1>3. CASE j \in {3, 4}
    <2>1. PICK p \in PICs : /\ Head(code) = Command(p, 17)
                            /\ p = IF j = 3 THEN "master" ELSE "slave"
      BY <1>1, <1>3, RemapInstructions
    <2>2. /\ TypeOK' /\ IsrShrinks /\ code' = Tail(code)
          /\ idt' = idt /\ interrupts' = interrupts
          /\ pics'[p].base = pics[p].base /\ pics'[p].icw = 2
          /\ \A q \in PICs \ {p} : pics'[q] = pics[q]
      <3>1. 17 \in 0 .. 255
        OBVIOUS
      <3>. QED  BY <2>1, <3>1, ExecuteCommand
    <2>3. \A q \in PICs : /\ q = p => RemapIcw(q, j + 1) = 2
                          /\ q # p => RemapIcw(q, j + 1) = RemapIcw(q, j)
                          /\ \A base : RemapBase(q, j, base) = base
      BY <1>1, <1>3, <2>1 DEF RemapIcw, RemapBase
    <2>4. ASSUME NEW q \in PICs
          PROVE  /\ pics'[q].icw = RemapIcw(q, j + 1)
                 /\ pics'[q].base = RemapBase(q, j, pics[q].base)
      <3>1. CASE q = p
        BY <2>2, <2>3, <3>1
      <3>2. CASE q # p
        BY <2>2, <2>3, <3>2
      <3>. QED  BY <3>1, <3>2
    <2>. QED  BY <2>2, <2>4
  <1>4. CASE j \in 5 .. 14
    <2>1. PICK p \in PICs : p = IF j \in {5, 7, 9, 11, 13} THEN "master" ELSE "slave"
      BY <1>1
    <2>2. PICK value \in 0 .. 255 : /\ Head(code) = Data(p, value)
                                    /\ j \in {5, 6} => value = Base(p)
      <3>1. j \in {5, 6, 7, 8, 9, 10, 11, 12, 13, 14}
        BY <1>4
      <3>2. CASE j \in {5, 6}
        BY <2>1, <3>2, RemapInstructions DEF Base
      <3>3. CASE j \in {7, 9, 11, 13}
        BY <2>1, <3>3, RemapInstructions
      <3>4. CASE j \in {8, 10, 12, 14}
        BY <2>1, <3>4, RemapInstructions
      <3>. QED  BY <3>1, <3>2, <3>3, <3>4
    <2>3. /\ TypeOK' /\ IsrShrinks /\ code' = Tail(code)
          /\ idt' = idt /\ interrupts' = interrupts
          /\ pics'[p].base = IF pics[p].icw = 2 THEN value ELSE pics[p].base
          /\ pics'[p].icw = IF pics[p].icw = 2 THEN 3 ELSE IF pics[p].icw = 3 THEN 4 ELSE 0
          /\ \A q \in PICs \ {p} : pics'[q] = pics[q]
      BY <2>2, ExecuteData
    <2>4. \A q \in PICs :
            /\ q = p => /\ RemapIcw(q, j + 1) = IF RemapIcw(q, j) = 2 THEN 3
                                                ELSE IF RemapIcw(q, j) = 3 THEN 4 ELSE 0
                        /\ RemapIcw(q, j) = 2 <=> j \in {5, 6}
                        /\ \A base : RemapBase(q, j, base)
                                       = IF j \in {5, 6} THEN Base(q) ELSE base
            /\ q # p => /\ RemapIcw(q, j + 1) = RemapIcw(q, j)
                        /\ \A base : RemapBase(q, j, base) = base
      BY <1>1, <1>4, <2>1 DEF RemapIcw, RemapBase
    <2>5. ASSUME NEW q \in PICs
          PROVE  /\ pics'[q].icw = RemapIcw(q, j + 1)
                 /\ pics'[q].base = RemapBase(q, j, pics[q].base)
      <3>1. CASE q = p
        <4>1. pics[q].icw = RemapIcw(q, j)
          OBVIOUS
        <4>. QED  BY <2>2, <2>3, <2>4, <3>1, <4>1
      <3>2. CASE q # p
        BY <2>3, <2>4, <3>2
      <3>. QED  BY <3>1, <3>2
    <2>. QED  BY <2>3, <2>5
  <1>5. j \in {1, 2, 15, 16} \/ j \in {3, 4} \/ j \in 5 .. 14
    OBVIOUS
  <1>. QED  BY <1>2, <1>3, <1>4, <1>5
----------------------------------------------------------------------------
(* From the first instruction of kmain to the calls of the running kernel. *)

GatesStay ==
  \A v \in DOMAIN idt : v < 48 /\ idt[v] = "stub" => v \in DOMAIN idt' /\ idt'[v] = "stub"

Control == Running \/ \E k \in DOMAIN kmain : Booting(k)

LEMMA KmainDomain == DOMAIN kmain = 1 .. 40
  BY KmainListing DEF Listing

LEMMA KmainBounds ==
  \A k \in DOMAIN kmain : k \in Int /\ (k <= EarlyInstructions \/ k > 21)
  BY KmainDomain DEF EarlyInstructions

LEMMA BootNext ==
  ASSUME NEW k \in 1 .. 40, Booting(k), Execute, code' = Tail(code),
         \A p \in PICs : /\ pics'[p].icw = BootIcw(p, k + 1)
                         /\ pics'[p].base \in {pics[p].base, Base(p)},
         k = 6 => pics'["master"].base = Base("master"),
         k = 7 => pics'["slave"].base = Base("slave"),
         GatesStay, k = 1 => GatesReady(0 .. 31)', k = 18 => GatesReady(32 .. 47)',
         k < EarlyInstructions => interrupts' = interrupts
  PROVE  Control'
  <1>1. code = SubSeq(kmain, k, Len(kmain))
    BY DEF Booting
  <1>2. code' = SubSeq(kmain, k + 1, Len(kmain)) /\ (k = 40 => code' = <<>>)
    BY <1>1, KmainStep
  <1>3. "master" \in PICs /\ "slave" \in PICs /\ PICs = {"master", "slave"}
    BY DEF PICs
  <1>4. /\ k + 1 > 6 => pics'["master"].base = Base("master")
        /\ k + 1 > 7 => pics'["slave"].base = Base("slave")
    <2>1. /\ k > 6 => pics["master"].base = Base("master")
          /\ k > 7 => pics["slave"].base = Base("slave")
      BY DEF Booting, FirstRemap
    <2>2. /\ pics'["master"].base \in {pics["master"].base, Base("master")}
          /\ pics'["slave"].base \in {pics["slave"].base, Base("slave")}
      BY <1>3
    <2>. QED  BY <2>1, <2>2
  <1>5. /\ GatesReady(0 .. 31)'
        /\ k + 1 > 18 => GatesReady(32 .. 47)'
    <2>1. \A vectors \in SUBSET (0 .. 47) : GatesReady(vectors) => GatesReady(vectors)'
      BY DEF GatesReady, GatesStay
    <2>2. (k > 1 => GatesReady(0 .. 31)) /\ (k > 18 => GatesReady(32 .. 47))
      BY DEF Booting
    <2>. 0 .. 31 \in SUBSET (0 .. 47) /\ 32 .. 47 \in SUBSET (0 .. 47)
      OBVIOUS
    <2>3. k > 1 => GatesReady(0 .. 31)'
      BY <2>1, <2>2
    <2>4. k > 18 => GatesReady(32 .. 47)'
      BY <2>1, <2>2
    <2>. QED  BY <2>3, <2>4
  <1>6. CASE k < 40
    <2>1. k + 1 \in DOMAIN kmain
      BY <1>6, KmainDomain
    <2>2. k + 1 <= EarlyInstructions => status' = "running" /\ ~interrupts' /\ stack' = <<>>
      <3>1. SUFFICES ASSUME k + 1 <= EarlyInstructions
                     PROVE  status' = "running" /\ ~interrupts' /\ stack' = <<>>
        OBVIOUS
      <3>2. k < EarlyInstructions /\ k <= EarlyInstructions
        BY <3>1 DEF EarlyInstructions
      <3>3. ~interrupts
        BY <3>2 DEF Booting
      <3>. QED  BY <3>2, <3>3, ExecuteFrame
    <2>3. Booting(k + 1)'
      BY <1>2, <1>4, <1>5, <2>2 DEF Booting, FirstRemap
    <2>. QED  BY <2>1, <2>3 DEF Control
  <1>7. CASE k = 40
    <2>1. code' \in Seq(Quiet)
      <3>1. <<>> \in Seq(Quiet)
        OBVIOUS
      <3>. QED  BY <1>2, <1>7, <3>1
    <2>2. \A p \in PICs : pics'[p].icw = 0 /\ pics'[p].base = Base(p)
      <3>1. \A p \in PICs : BootIcw(p, 41) = 0
        BY DEF BootIcw, RemapIcw, SecondRemap
      <3>2. \A p \in PICs : pics'[p].base = Base(p)
        BY <1>3, <1>4, <1>7
      <3>. QED  BY <1>7, <3>1, <3>2
    <2>3. GatesReady(0 .. 47)'
      <3>1. \A v \in 0 .. 47 : v \in 0 .. 31 \/ v \in 32 .. 47
        OBVIOUS
      <3>2. GatesReady(0 .. 31)' /\ GatesReady(32 .. 47)'
        BY <1>5, <1>7
      <3>. QED  BY <3>1, <3>2 DEF GatesReady
    <2>. QED  BY <2>1, <2>2, <2>3 DEF Control, Running
  <1>. QED  BY <1>6, <1>7

LEMMA ExecuteBooting ==
  ASSUME TypeOK, NEW k \in 1 .. 40, Booting(k), Execute
  PROVE  TypeOK' /\ IsrShrinks /\ Control'
  <1>1. Head(code) = kmain[k]
    BY KmainStep DEF Booting
  <1>2. \A p \in PICs : pics[p].icw = BootIcw(p, k)
    BY DEF Booting
  <1>3. CASE k \in {1, 18}
    <2>. DEFINE vectors == IF k = 1 THEN 0 .. 31 ELSE (32 .. 47) \cup {255}
    <2>1. vectors \in SUBSET (0 .. 255)
      OBVIOUS
    <2>2. Head(code) = Gates(vectors)
      BY <1>1, <1>3, KmainListing
    <2>3. (k = 1 => 0 .. 31 \subseteq vectors) /\ (k = 18 => 32 .. 47 \subseteq vectors)
      OBVIOUS
    <2>. HIDE DEF vectors
    <2>4. /\ TypeOK' /\ pics' = pics /\ interrupts' = interrupts /\ code' = Tail(code)
          /\ \A v \in vectors : v < 48 => v \in DOMAIN idt' /\ idt'[v] = "stub"
          /\ \A v \in DOMAIN idt \ vectors : v \in DOMAIN idt' /\ idt'[v] = idt[v]
      BY <2>1, <2>2, ExecuteGates
    <2>5. GatesStay
      BY <2>4 DEF GatesStay
    <2>6. (k = 1 => GatesReady(0 .. 31)') /\ (k = 18 => GatesReady(32 .. 47)')
      <3>1. (\A v \in 0 .. 31 : v < 48) /\ (\A v \in 32 .. 47 : v < 48)
        OBVIOUS
      <3>. QED  BY <2>3, <2>4, <3>1 DEF GatesReady
    <2>7. \A p \in PICs : BootIcw(p, k + 1) = BootIcw(p, k)
      BY <1>3 DEF BootIcw, RemapIcw, FirstRemap, SecondRemap
    <2>8. \A p \in PICs : /\ pics'[p].icw = BootIcw(p, k + 1)
                          /\ pics'[p].base \in {pics[p].base, Base(p)}
      BY <1>2, <2>4, <2>7
    <2>9. k # 6 /\ k # 7
      BY <1>3
    <2>10. Control'
      BY <2>4, <2>5, <2>6, <2>8, <2>9, BootNext
    <2>. QED  BY <2>4, <2>10 DEF IsrShrinks
  <1>4. CASE k \in 2 .. 17 \/ k \in 23 .. 38
    <2>1. PICK j \in 1 .. 16 : /\ k = FirstRemap + j \/ k = SecondRemap + j
                               /\ k = 6 => j = 5
                               /\ k = 7 => j = 6
      <3>1. CASE k \in 2 .. 17
        <4>1. k - 1 \in 1 .. 16 /\ k = FirstRemap + (k - 1)
          BY <3>1 DEF FirstRemap
        <4>. QED  BY <4>1
      <3>2. CASE k \in 23 .. 38
        <4>1. k - 22 \in 1 .. 16 /\ k = SecondRemap + (k - 22) /\ k # 6 /\ k # 7
          BY <3>2 DEF SecondRemap
        <4>. QED  BY <4>1
      <3>. QED  BY <1>4, <3>1, <3>2
    <2>2. Head(code) = pic_remap[j]
      BY <1>1, <2>1, KmainListing
    <2>3. \A p \in PICs : BootIcw(p, k) = RemapIcw(p, j) /\ BootIcw(p, k + 1) = RemapIcw(p, j + 1)
      BY <2>1 DEF BootIcw, RemapIcw, FirstRemap, SecondRemap
    <2>4. /\ TypeOK' /\ IsrShrinks /\ code' = Tail(code)
          /\ idt' = idt /\ interrupts' = interrupts
          /\ \A p \in PICs : /\ pics'[p].icw = RemapIcw(p, j + 1)
                             /\ pics'[p].base = RemapBase(p, j, pics[p].base)
      BY <1>2, <2>2, <2>3, RemapStep
    <2>5. \A p \in PICs : /\ pics'[p].icw = BootIcw(p, k + 1)
                          /\ pics'[p].base \in {pics[p].base, Base(p)}
      BY <2>3, <2>4 DEF RemapBase
    <2>6. /\ k = 6 => pics'["master"].base = Base("master")
          /\ k = 7 => pics'["slave"].base = Base("slave")
      BY <2>1, <2>4 DEF RemapBase, PICs
    <2>7. GatesStay
      BY <2>4 DEF GatesStay
    <2>8. k # 1 /\ k # 18
      BY <1>4
    <2>9. Control'
      BY <2>4, <2>5, <2>6, <2>7, <2>8, BootNext
    <2>. QED  BY <2>4, <2>9
  <1>5. CASE k \in {19, 20}
    <2>1. Head(code) \in Quiet /\ Head(code) # Simple("poll")
      <3>1. "master" \in PICs /\ {1} \in SUBSET Lines /\ {} \in SUBSET Lines
        BY DEF PICs, Lines
      <3>2. Head(code) = In("master") \/ Head(code) = DataSaved("master", {1}, {})
        BY <1>1, <1>5, KmainListing
      <3>3. Head(code).op # "poll"
        BY <3>2 DEF In, DataSaved
      <3>4. Head(code) # Simple("poll")
        BY <3>3 DEF Simple
      <3>. QED  BY <3>1, <3>2, <3>4, InstructionTypes
    <2>2. /\ TypeOK' /\ IsrShrinks /\ IcwBaseKept /\ code' = Tail(code)
          /\ idt' = idt /\ interrupts' = interrupts
      BY <2>1, ExecuteQuiet
    <2>3. \A p \in PICs : BootIcw(p, k + 1) = BootIcw(p, k)
      BY <1>5 DEF BootIcw, RemapIcw, FirstRemap, SecondRemap
    <2>4. \A p \in PICs : /\ pics'[p].icw = BootIcw(p, k + 1)
                          /\ pics'[p].base \in {pics[p].base, Base(p)}
      BY <1>2, <2>2, <2>3 DEF IcwBaseKept
    <2>5. GatesStay /\ k # 1 /\ k # 18 /\ k # 6 /\ k # 7
      BY <1>5, <2>2 DEF GatesStay
    <2>6. Control'
      BY <2>2, <2>4, <2>5, BootNext
    <2>. QED  BY <2>2, <2>6
  <1>6. CASE k \in {21, 22}
    <2>. DEFINE op == IF k = 21 THEN "load_idt" ELSE "other"
    <2>1. op \in {"load_idt", "other"} /\ Head(code) = Simple(op)
      BY <1>1, <1>6, KmainListing
    <2>2. k < EarlyInstructions => op = "other"
      BY <1>6 DEF EarlyInstructions
    <2>. HIDE DEF op
    <2>3. /\ TypeOK' /\ pics' = pics /\ idt' = idt /\ code' = Tail(code)
          /\ op = "other" => interrupts' = interrupts
      BY <2>1, ExecuteSimple
    <2>4. \A p \in PICs : BootIcw(p, k + 1) = BootIcw(p, k)
      BY <1>6 DEF BootIcw, RemapIcw, FirstRemap, SecondRemap
    <2>5. \A p \in PICs : /\ pics'[p].icw = BootIcw(p, k + 1)
                          /\ pics'[p].base \in {pics[p].base, Base(p)}
      BY <1>2, <2>3, <2>4
    <2>6. GatesStay /\ k # 1 /\ k # 18 /\ k # 6 /\ k # 7
      BY <1>6, <2>3 DEF GatesStay
    <2>7. Control'
      BY <2>2, <2>3, <2>5, <2>6, BootNext
    <2>. QED  BY <2>3, <2>7 DEF IsrShrinks
  <1>7. CASE k \in {39, 40}
    <2>. DEFINE p == IF k = 39 THEN "slave" ELSE "master"
    <2>1. p \in PICs /\ 255 \in 0 .. 255 /\ Head(code) = Data(p, 255)
      BY <1>1, <1>7, KmainListing DEF PICs
    <2>. HIDE DEF p
    <2>2. \A q \in PICs : BootIcw(q, k) = 0 /\ BootIcw(q, k + 1) = 0
      BY <1>7 DEF BootIcw, RemapIcw, SecondRemap
    <2>3. /\ TypeOK' /\ IsrShrinks /\ code' = Tail(code)
          /\ idt' = idt /\ interrupts' = interrupts
          /\ pics'[p].base = IF pics[p].icw = 2 THEN 255 ELSE pics[p].base
          /\ pics'[p].icw = IF pics[p].icw = 2 THEN 3 ELSE IF pics[p].icw = 3 THEN 4 ELSE 0
          /\ \A q \in PICs \ {p} : pics'[q] = pics[q]
      BY <2>1, ExecuteData
    <2>4. \A q \in PICs : /\ pics'[q].icw = BootIcw(q, k + 1)
                          /\ pics'[q].base \in {pics[q].base, Base(q)}
      <3>. TAKE q \in PICs
      <3>1. pics[q].icw = 0 /\ pics[p].icw = 0
        BY <1>2, <2>1, <2>2
      <3>2. CASE q = p
        BY <2>2, <2>3, <3>1, <3>2
      <3>3. CASE q # p
        BY <2>2, <2>3, <3>1, <3>3
      <3>. QED  BY <3>2, <3>3
    <2>5. GatesStay /\ k # 1 /\ k # 18 /\ k # 6 /\ k # 7
      BY <1>7, <2>3 DEF GatesStay
    <2>6. Control'
      BY <2>3, <2>4, <2>5, BootNext
    <2>. QED  BY <2>3, <2>6
  <1>8. \/ k \in {1, 18} \/ k \in 2 .. 17 \/ k \in 23 .. 38 \/ k \in {19, 20}
        \/ k \in {21, 22} \/ k \in {39, 40}
    OBVIOUS
  <1>. QED  BY <1>3, <1>4, <1>5, <1>6, <1>7, <1>8

\* The running kernel only reads the PICs and changes their masks.
LEMMA ExecuteRunning ==
  ASSUME TypeOK, Running, Execute
  PROVE  TypeOK' /\ IsrShrinks /\ Running'
  <1>1. code \in Seq(Quiet) /\ code # <<>>
    BY ExecuteFrame DEF Running
  <1>2. Head(code) \in Quiet /\ Tail(code) \in Seq(Quiet)
    <2>. HIDE DEF Quiet
    <2>. QED  BY <1>1, HeadTailProperties
  <1>3. /\ TypeOK' /\ IsrShrinks /\ IcwBaseKept /\ idt' = idt
        /\ code' = Tail(code) \/ code' = <<Simple("read")>> \o code
    BY <1>2, ExecuteQuiet
  <1>4. code' \in Seq(Quiet)
    <2>1. <<Simple("read")>> \in Seq(Quiet)
      BY InstructionTypes
    <2>. HIDE DEF Quiet
    <2>2. <<Simple("read")>> \o code \in Seq(Quiet)
      BY <1>1, <2>1, ConcatProperties
    <2>. QED  BY <1>2, <1>3, <2>2
  <1>5. Running'
    BY <1>3, <1>4 DEF Running, IcwBaseKept, GatesReady
  <1>. QED  BY <1>3, <1>5

LEMMA ExecuteKeepsInv ==
  ASSUME IrqInv, Execute
  PROVE  IrqInv'
  <1>1. TypeOK /\ Control /\ HandlerInv
    BY DEF IrqInv, Control
  <1>2. /\ status = "running" /\ stack = <<>> /\ status' = status /\ stack' = stack
    BY ExecuteFrame
  <1>3. TypeOK' /\ IsrShrinks /\ Control'
    <2>1. CASE Running
      BY <1>1, <2>1, ExecuteRunning DEF Control
    <2>2. CASE \E k \in DOMAIN kmain : Booting(k)
      BY <1>1, <2>2, ExecuteBooting, KmainDomain
    <2>. QED  BY <1>1, <2>1, <2>2 DEF Control
  <1>4. \A p \in PICs : pics[p].isr = {}
    BY <1>1, <1>2 DEF HandlerInv
  <1>5. \A p \in PICs : pics'[p].isr = {}
    BY <1>3, <1>4 DEF IsrShrinks
  <1>6. HandlerInv'
    BY <1>2, <1>5 DEF HandlerInv
  <1>. QED  BY <1>3, <1>6 DEF IrqInv, Control

LEMMA CallKeepsInv ==
  ASSUME IrqInv, NEW call \in Calls, Call(call)
  PROVE  IrqInv'
  <1>1. TypeOK /\ Control /\ HandlerInv
    BY DEF IrqInv, Control
  <1>2. /\ status = "running" /\ stack = <<>> /\ code = <<>> /\ code' = CodeOf(call)
        /\ UNCHANGED <<status, saved, interrupts, idt, pics, regs, stack, obf>>
    BY DEF Call, Idle
  <1>3. Running
    <2>1. ASSUME NEW k \in DOMAIN kmain, Booting(k) PROVE FALSE
      <3>1. code # <<>>
        BY <2>1, KmainDomain, KmainStep DEF Booting
      <3>. QED  BY <1>2, <3>1
    <2>. QED  BY <1>1, <2>1 DEF Control
  <1>4. code' \in Seq(Quiet)
    BY <1>2, CallsAreQuiet
  <1>5. Running'
    BY <1>2, <1>3, <1>4 DEF Running, GatesReady
  <1>6. TypeOK' /\ HandlerInv'
    BY <1>1, <1>2 DEF TypeOK, HandlerInv
  <1>. QED  BY <1>5, <1>6 DEF IrqInv
----------------------------------------------------------------------------
(* Interrupts, exceptions and requests leave the kernel's code where it    *)
(* was, and the PICs with the vectors they have.                           *)

LEMMA ControlKept ==
  ASSUME Control, IcwBaseKept, UNCHANGED <<code, idt>>,
         \/ interrupts \/ stack # <<>>
         \/ UNCHANGED <<status, interrupts, stack>>
  PROVE  Control'
  <1>1. ASSUME Running PROVE Running'
    BY <1>1 DEF Running, IcwBaseKept, GatesReady
  <1>2. ASSUME NEW k \in DOMAIN kmain, Booting(k) PROVE Booting(k)'
    <2>1. PICs = {"master", "slave"}
      BY DEF PICs
    <2>2. k <= EarlyInstructions => status' = "running" /\ ~interrupts' /\ stack' = <<>>
      BY <1>2 DEF Booting
    <2>. QED  BY <1>2, <2>1, <2>2 DEF Booting, IcwBaseKept, GatesReady
  <1>. QED  BY <1>1, <1>2 DEF Control

\* Once interrupts are enabled there is a gate for every exception and every
\* IRQ, and the PICs use the vectors of these gates.
LEMMA InterruptsOpen ==
  ASSUME Control, interrupts \/ stack # <<>>
  PROVE  GatesReady(0 .. 47) /\ \A p \in PICs : pics[p].base = Base(p)
  <1>1. ASSUME NEW k \in DOMAIN kmain, Booting(k)
        PROVE  GatesReady(0 .. 47) /\ \A p \in PICs : pics[p].base = Base(p)
    <2>1. k \in Int /\ k > 21
      BY <1>1, KmainBounds, Zenon DEF Booting
    <2>2. GatesReady(0 .. 31) /\ GatesReady(32 .. 47)
      BY <1>1, <2>1 DEF Booting
    <2>3. \A v \in 0 .. 47 : v \in 0 .. 31 \/ v \in 32 .. 47
      OBVIOUS
    <2>4. GatesReady(0 .. 47)
      BY <2>2, <2>3 DEF GatesReady
    <2>. QED  BY <1>1, <2>1, <2>4 DEF Booting, FirstRemap, PICs
  <1>. QED  BY <1>1 DEF Control, Running

LEMMA EnterHandler ==
  ASSUME NEW v \in 0 .. 47, GatesReady(0 .. 47), Enter(v), regs' = regs, idt' = idt
  PROVE  /\ stack' = Stub(v) /\ Stub(v)' = Stub(v)
         /\ status' = status /\ interrupts' = FALSE
         /\ IsrNumber' = v /\ stack' # <<>> /\ Len(stack') = Len(interrupt_cpu_state_t)
  <1>1. stack' = Stub(v) /\ status' = status /\ interrupts' = FALSE
    BY DEF Enter, GatesReady
  <1>2. Stub(v)' = Stub(v)
    BY DEF Stub
  <1>3. Len(Stub(v)) = 22 /\ Stub(v) # <<>> /\ Stub(v)[16] = <<"isr_number", v>>
    BY StubWords
  <1>. HIDE DEF Stub
  <1>4. Field("isr_number")' = stack'[16] /\ Len(interrupt_cpu_state_t) = 22
    BY FieldIndices DEF Field, FieldIndex
  <1>5. IsrNumber' = v
    BY <1>1, <1>3, <1>4 DEF IsrNumber
  <1>. QED  BY <1>1, <1>2, <1>3, <1>4, <1>5

\* An IRQ that puts lines in service, and the number it is delivered with.
LEMMA IRQKeepsInv ==
  ASSUME IrqInv, status = "running", stack = <<>>, interrupts,
         NEW v \in 32 .. 47, Enter(v),
         UNCHANGED <<code, saved, idt, regs, obf>>,
         pics' \in [PICs -> Pic], IcwBaseKept,
         \A p \in PICs : pics'[p].isr \subseteq InService(p, v)
  PROVE  IrqInv'
  <1>1. TypeOK /\ Control /\ HandlerInv
    BY DEF IrqInv, Control
  <1>2. GatesReady(0 .. 47)
    BY <1>1, InterruptsOpen
  <1>3. /\ stack' = Stub(v) /\ Stub(v)' = Stub(v)
        /\ status' = status /\ interrupts' = FALSE
        /\ IsrNumber' = v /\ stack' # <<>> /\ Len(stack') = Len(interrupt_cpu_state_t)
    <2>1. v \in 0 .. 47
      OBVIOUS
    <2>. QED  BY <1>2, <2>1, EnterHandler
  <1>4. TypeOK'
    BY <1>1, <1>3 DEF TypeOK
  <1>5. Control'
    BY <1>1, ControlKept
  <1>6. HandlerInv'
    <2>1. v \in Vectors
      BY DEF Vectors
    <2>. QED  BY <1>3, <2>1 DEF HandlerInv
  <1>. QED  BY <1>4, <1>5, <1>6 DEF IrqInv, Control

LEMMA FaultKeepsInv ==
  ASSUME IrqInv, NEW v \in FaultVectors, Fault(v)
  PROVE  IrqInv'
  <1>1. TypeOK /\ Control /\ HandlerInv
    BY DEF IrqInv, Control
  <1>2. /\ status = "running" /\ (interrupts \/ stack # <<>>) /\ Enter(v)
        /\ UNCHANGED <<code, saved, idt, pics, regs, obf>>
    BY DEF Fault
  <1>3. v \in 0 .. 31 /\ v \in 0 .. 47 /\ v \in Vectors
    BY InterruptsAssumption DEF InterruptsAssumption, Vectors
  <1>4. GatesReady(0 .. 47)
    BY <1>1, <1>2, InterruptsOpen
  <1>5. /\ stack' = Stub(v) /\ Stub(v)' = Stub(v)
        /\ status' = status /\ interrupts' = FALSE
        /\ IsrNumber' = v /\ stack' # <<>> /\ Len(stack') = Len(interrupt_cpu_state_t)
    BY <1>2, <1>3, <1>4, EnterHandler
  <1>6. TypeOK'
    BY <1>1, <1>2, <1>5 DEF TypeOK
  <1>7. Control'
    <2>1. IcwBaseKept
      BY <1>2 DEF IcwBaseKept
    <2>. QED  BY <1>1, <1>2, <2>1, ControlKept
  <1>8. HandlerInv'
    <2>1. ~(v > 31)
      BY <1>3
    <2>. QED  BY <1>2, <1>3, <1>5, <2>1 DEF HandlerInv
  <1>. QED  BY <1>6, <1>7, <1>8 DEF IrqInv, Control

\* The four ways an IRQ comes.
LEMMA DeliverMasterKeepsInv ==
  ASSUME IrqInv, NEW l \in Lines, DeliverMaster(l)
  PROVE  IrqInv'
  <1>. DEFINE new == [pics["master"] EXCEPT !.irr = @ \ {l}, !.isr = @ \cup {l}]
  <1>1. /\ status = "running" /\ stack = <<>> /\ interrupts
        /\ UNCHANGED <<code, saved, idt, regs, obf>> /\ Enter(pics["master"].base + l)
    BY DEF DeliverMaster
  <1>2. TypeOK /\ Control /\ HandlerInv /\ "master" \in PICs /\ pics["master"] \in Pic
    BY DEF IrqInv, Control, TypeOK, PICs
  <1>3. pics' = [pics EXCEPT !["master"] = new]
    BY <1>2 DEF DeliverMaster, TypeOK
  <1>4. /\ new \in Pic /\ new.isr = pics["master"].isr \cup {l}
        /\ new.icw = pics["master"].icw /\ new.base = pics["master"].base
    BY <1>2 DEF Pic
  <1>. HIDE DEF new
  <1>5. /\ pics' \in [PICs -> Pic] /\ pics'["master"] = new
        /\ \A q \in PICs \ {"master"} : pics'[q] = pics[q]
    BY <1>2, <1>3, <1>4, OnePicChanges
  <1>6. IcwBaseKept
    BY <1>4, <1>5 DEF IcwBaseKept
  <1>7. 32 + l \in 32 .. 47 /\ 32 + l < 40 /\ (32 + l) - 32 = l
    BY DEF Lines
  <1>8. Enter(32 + l)
    BY <1>1, <1>2, InterruptsOpen DEF Base
  <1>9. \A p \in PICs : pics[p].isr = {}
    BY <1>1, <1>2 DEF HandlerInv
  <1>10. \A p \in PICs : pics'[p].isr \subseteq InService(p, 32 + l)
    BY <1>4, <1>5, <1>7, <1>9 DEF InService
  <1>. QED  BY <1>1, <1>5, <1>6, <1>7, <1>8, <1>10, IRQKeepsInv

\* A slave's line goes into service in both PICs, at the slave only if its
\* request was still there.
LEMMA SlaveKeepsInv ==
  ASSUME IrqInv, NEW l \in Lines, NEW served \in SUBSET {l}, NEW n \in Lines,
         n = l \/ served = {},
         status = "running", stack = <<>>, interrupts,
         UNCHANGED <<code, saved, idt, regs, obf>>, Enter(pics["slave"].base + n),
         pics' = [pics EXCEPT !["master"].isr = @ \cup {Cascade},
                              !["slave"].irr = @ \ {l}, !["slave"].isr = @ \cup served]
  PROVE  IrqInv'
  <1>. DEFINE master == [pics["master"] EXCEPT !.isr = @ \cup {Cascade}]
              slave  == [pics["slave"] EXCEPT !.irr = @ \ {l}, !.isr = @ \cup served]
  <1>1. TypeOK /\ Control /\ HandlerInv
    BY DEF IrqInv, Control
  <1>2. pics["master"] \in Pic /\ pics["slave"] \in Pic /\ PICs = {"master", "slave"}
    BY <1>1 DEF TypeOK, PICs
  <1>3. pics' = [pics EXCEPT !["master"] = master, !["slave"] = slave]
    BY <1>1, <1>2 DEF TypeOK
  <1>4. Cascade \in Lines /\ served \subseteq Lines
    BY DEF Cascade, Lines
  <1>5. /\ master \in Pic /\ master.isr = pics["master"].isr \cup {Cascade}
        /\ master.icw = pics["master"].icw /\ master.base = pics["master"].base
    BY <1>2, <1>4 DEF Pic
  <1>6. /\ slave \in Pic /\ slave.isr = pics["slave"].isr \cup served
        /\ slave.icw = pics["slave"].icw /\ slave.base = pics["slave"].base
    BY <1>2, <1>4 DEF Pic
  <1>. HIDE DEF master, slave, Pic
  <1>7. /\ pics' \in [PICs -> Pic] /\ pics'["master"] = master /\ pics'["slave"] = slave
    BY <1>1, <1>3, <1>5, <1>6, TwoPicsChange
  <1>8. IcwBaseKept
    BY <1>2, <1>5, <1>6, <1>7 DEF IcwBaseKept
  <1>9. 40 + n \in 32 .. 47 /\ ~(40 + n < 40) /\ (40 + n) - 40 = n
    BY DEF Lines
  <1>10. Enter(40 + n)
    BY <1>1, <1>2, InterruptsOpen DEF Base
  <1>11. pics["master"].isr = {} /\ pics["slave"].isr = {}
    BY <1>1, <1>2 DEF HandlerInv
  <1>12. \A p \in PICs : pics'[p].isr \subseteq InService(p, 40 + n)
    <2>1. pics'["master"].isr \subseteq InService("master", 40 + n)
      BY <1>5, <1>7, <1>9, <1>11 DEF InService
    <2>2. pics'["slave"].isr \subseteq InService("slave", 40 + n)
      BY <1>6, <1>7, <1>9, <1>11 DEF InService
    <2>. QED  BY <1>2, <2>1, <2>2
  <1>. QED  BY <1>7, <1>8, <1>9, <1>10, <1>12, IRQKeepsInv

LEMMA DeliverSlaveKeepsInv ==
  ASSUME IrqInv, NEW l \in Lines, DeliverSlave(l)
  PROVE  IrqInv'
  <1>. DEFINE served == {l}
  <1>1. /\ status = "running" /\ stack = <<>> /\ interrupts
        /\ UNCHANGED <<code, saved, idt, regs, obf>> /\ Enter(pics["slave"].base + l)
        /\ pics' = [pics EXCEPT !["master"].isr = @ \cup {Cascade},
                                !["slave"].irr = @ \ {l}, !["slave"].isr = @ \cup served]
    BY DEF DeliverSlave
  <1>2. served \in SUBSET {l}
    OBVIOUS
  <1>. HIDE DEF served
  <1>. QED  BY <1>1, <1>2, SlaveKeepsInv

LEMMA SpuriousSlaveKeepsInv ==
  ASSUME IrqInv, NEW l \in Lines, SpuriousSlave(l)
  PROVE  IrqInv'
  <1>. DEFINE served == {}
  <1>1. /\ status = "running" /\ stack = <<>> /\ interrupts
        /\ UNCHANGED <<code, saved, idt, regs, obf>> /\ Enter(pics["slave"].base + 7)
        /\ pics' = [pics EXCEPT !["master"].isr = @ \cup {Cascade},
                                !["slave"].irr = @ \ {l}]
    BY DEF SpuriousSlave
  <1>2. pics' = [pics EXCEPT !["master"].isr = @ \cup {Cascade},
                             !["slave"].irr = @ \ {l}, !["slave"].isr = @ \cup served]
    <2>1. pics \in [PICs -> Pic] /\ PICs = {"master", "slave"}
      BY DEF IrqInv, TypeOK, PICs
    <2>. DEFINE m1 == [pics["master"] EXCEPT !.isr = @ \cup {Cascade}]
                s1 == [pics["slave"] EXCEPT !.irr = @ \ {l}]
                s2 == [pics["slave"] EXCEPT !.irr = @ \ {l}, !.isr = @ \cup served]
    <2>2. pics' = [pics EXCEPT !["master"] = m1, !["slave"] = s1]
      BY <1>1, <2>1
    <2>3. s1 = s2
      <3>1. pics["slave"] \in Pic
        BY <2>1
      <3>. QED  BY <3>1 DEF Pic
    <2>4. [pics EXCEPT !["master"].isr = @ \cup {Cascade},
                       !["slave"].irr = @ \ {l}, !["slave"].isr = @ \cup served]
            = [pics EXCEPT !["master"] = m1, !["slave"] = s2]
      BY <2>1
    <2>. QED  BY <2>2, <2>3, <2>4
  <1>3. served \in SUBSET {l} /\ served = {} /\ 7 \in Lines
    BY DEF Lines
  <1>. HIDE DEF served
  <1>. QED  BY <1>1, <1>2, <1>3, SlaveKeepsInv

LEMMA SpuriousMasterKeepsInv ==
  ASSUME IrqInv, NEW l \in Lines, SpuriousMaster(l)
  PROVE  IrqInv'
  <1>. DEFINE new == [pics["master"] EXCEPT !.irr = @ \ {l}]
  <1>1. /\ status = "running" /\ stack = <<>> /\ interrupts
        /\ UNCHANGED <<code, saved, idt, regs, obf>> /\ Enter(pics["master"].base + 7)
    BY DEF SpuriousMaster
  <1>2. TypeOK /\ Control /\ HandlerInv /\ "master" \in PICs /\ pics["master"] \in Pic
    BY DEF IrqInv, Control, TypeOK, PICs
  <1>3. pics' = [pics EXCEPT !["master"] = new]
    BY <1>2 DEF SpuriousMaster, TypeOK
  <1>4. /\ new \in Pic /\ new.isr = pics["master"].isr
        /\ new.icw = pics["master"].icw /\ new.base = pics["master"].base
    BY <1>2 DEF Pic
  <1>. HIDE DEF new
  <1>5. /\ pics' \in [PICs -> Pic] /\ pics'["master"] = new
        /\ \A q \in PICs \ {"master"} : pics'[q] = pics[q]
    BY <1>2, <1>3, <1>4, OnePicChanges
  <1>6. IcwBaseKept
    BY <1>4, <1>5 DEF IcwBaseKept
  <1>7. Enter(39)
    <2>1. 32 + 7 = 39
      OBVIOUS
    <2>2. pics["master"].base = 32
      BY <1>1, <1>2, InterruptsOpen DEF Base
    <2>. QED  BY <1>1, <2>1, <2>2
  <1>8. \A p \in PICs : pics[p].isr = {}
    BY <1>1, <1>2 DEF HandlerInv
  <1>9. \A p \in PICs : pics'[p].isr \subseteq InService(p, 39)
    BY <1>4, <1>5, <1>8
  <1>10. 39 \in 32 .. 47
    OBVIOUS
  <1>. QED  BY <1>1, <1>5, <1>6, <1>7, <1>9, <1>10, IRQKeepsInv

\* The end of interrupt a PIC is sent ends the only line it has in service.
LEMMA HandlerEndsItsIRQ ==
  ASSUME NEW pic \in Pic, NEW line, pic.isr \subseteq {line}
  PROVE  /\ WriteCommand(pic, 32) \in Pic /\ WriteCommand(pic, 32).isr = {}
         /\ WriteCommand(pic, 32).icw = pic.icw /\ WriteCommand(pic, 32).base = pic.base
  <1>1. WriteCommand(pic, 32) = EndOfInterrupt(pic)
    BY DEF WriteCommand
  <1>2. pic.isr \subseteq Lines /\ \A l \in Lines : ~(l < l)
    BY DEF Pic, Lines
  <1>3. {l \in pic.isr : \E m \in pic.isr : m < l} = {}
    BY <1>2
  <1>. QED  BY <1>1, <1>3 DEF EndOfInterrupt, Pic

\* The registers a handler returns to are words the stub has pushed.
LEMMA ReturnedRegisters ==
  ASSUME TypeOK, NEW v, stack = Stub(v), Return
  PROVE  regs' \in [Registers -> {Word(r) : r \in Registers}]
  <1>1. ASSUME NEW r \in Registers
        PROVE  stack[CHOOSE k \in DOMAIN PopOrder : PopOrder[k] = r]
                 \in {Word(name) : name \in Registers}
    <2>1. PICK k \in DOMAIN PopOrder :
            k = CHOOSE n \in DOMAIN PopOrder : PopOrder[n] = r
      BY <1>1 DEF PopOrder, Registers
    <2>2. k \in 1 .. 15 /\ 16 - k \in 1 .. 15
      BY PushOrderElements DEF PopOrder
    <2>3. stack[k] = regs[PushOrder[16 - k]] /\ PushOrder[16 - k] \in Registers
      BY <2>2, StubWords, PushOrderElements
    <2>4. regs \in [Registers -> {Word(name) : name \in Registers}]
      BY DEF TypeOK
    <2>. QED  BY <2>1, <2>3, <2>4
  <1>2. regs' = [r \in Registers |->
                   stack[CHOOSE k \in DOMAIN PopOrder : PopOrder[k] = r]]
    BY DEF Return
  <1>. QED  BY <1>1, <1>2

LEMMA HandleIRQKeepsInv ==
  ASSUME IrqInv, HandleIRQ
  PROVE  IrqInv'
  <1>1. TypeOK /\ Control /\ HandlerInv
    BY DEF IrqInv, Control
  <1>2. /\ status = "running" /\ stack # <<>> /\ isr_handler /\ Return
        /\ UNCHANGED <<code, saved, idt>>
    BY DEF HandleIRQ
  <1>3. PICK v \in Vectors : stack = Stub(v)
    BY <1>1, <1>2 DEF HandlerInv
  <1>4. v = IsrNumber /\ v \in 32 .. 47
    BY <1>2, <1>3, StubFields DEF isr_handler
  <1>5. \A p \in PICs : pics[p] \in Pic /\ pics[p].isr \subseteq InService(p, v)
    <2>1. v > 31
      BY <1>4
    <2>. QED  BY <1>1, <1>2, <1>4, <2>1 DEF HandlerInv, TypeOK
  <1>6. pics' = [p \in PICs |-> IF p = "slave" /\ v < 40 THEN pics[p]
                                ELSE WriteCommand(pics[p], 32)]
    BY <1>2, <1>4 DEF isr_handler, pic_signal_EOI
  <1>7. ASSUME NEW p \in PICs
        PROVE  /\ pics'[p] \in Pic /\ pics'[p].isr = {}
               /\ pics'[p].icw = pics[p].icw /\ pics'[p].base = pics[p].base
    <2>1. CASE p = "slave" /\ v < 40
      <3>1. pics'[p] = pics[p]
        BY <1>6, <2>1
      <3>2. InService(p, v) = {}
        BY <2>1 DEF InService
      <3>. QED  BY <1>5, <3>1, <3>2
    <2>2. CASE ~(p = "slave" /\ v < 40)
      <3>1. pics'[p] = WriteCommand(pics[p], 32)
        BY <1>6, <2>2
      <3>2. \E line : InService(p, v) \subseteq {line}
        BY <2>2 DEF InService
      <3>3. PICK line : pics[p].isr \subseteq {line}
        BY <1>5, <3>2
      <3>. QED  BY <1>5, <3>1, <3>3, HandlerEndsItsIRQ
    <2>. QED  BY <2>1, <2>2
  <1>8. pics' \in [PICs -> Pic] /\ IcwBaseKept
    <2>1. \A p \in PICs : pics'[p] \in Pic
      BY <1>7
    <2>2. pics' = [p \in PICs |-> pics'[p]]
      BY <1>6
    <2>. HIDE DEF Pic
    <2>3. pics' \in [PICs -> Pic]
      BY <2>1, <2>2
    <2>. QED  BY <1>7, <2>3 DEF IcwBaseKept
  <1>9. /\ stack' = <<>> /\ interrupts' = TRUE /\ status' \in {"running", "undefined"}
        /\ regs' \in [Registers -> {Word(r) : r \in Registers}] /\ obf' \in BOOLEAN
    <2>1. regs' \in [Registers -> {Word(r) : r \in Registers}]
      BY <1>1, <1>2, <1>3, ReturnedRegisters
    <2>2. obf' \in BOOLEAN
      BY <1>1, <1>2 DEF isr_handler, keyboard_irq_handler, TypeOK
    <2>. QED  BY <1>2, <2>1, <2>2 DEF Return
  <1>10. TypeOK'
    BY <1>1, <1>2, <1>8, <1>9 DEF TypeOK
  <1>11. Control'
    BY <1>1, <1>2, <1>8, ControlKept
  <1>12. HandlerInv'
    BY <1>7, <1>9 DEF HandlerInv
  <1>. QED  BY <1>10, <1>11, <1>12 DEF IrqInv, Control

LEMMA HandleExceptionKeepsInv ==
  ASSUME IrqInv, HandleException
  PROVE  IrqInv'
  <1>1. TypeOK /\ Control /\ HandlerInv
    BY DEF IrqInv, Control
  <1>2. /\ status = "running" /\ stack # <<>> /\ IsrNumber <= 31
        /\ status' = "halted" /\ interrupts' = FALSE
        /\ UNCHANGED <<code, saved, idt, pics, regs, stack, obf>>
    BY DEF HandleException
  <1>3. TypeOK'
    BY <1>1, <1>2 DEF TypeOK
  <1>4. Control'
    <2>1. IcwBaseKept
      BY <1>2 DEF IcwBaseKept
    <2>. QED  BY <1>1, <1>2, <2>1, ControlKept
  <1>5. PICK v \in Vectors : stack = Stub(v)
    BY <1>1, <1>2 DEF HandlerInv
  <1>6. v \in FaultVectors
    <2>1. v = IsrNumber
      BY <1>5, StubFields
    <2>2. v \notin 32 .. 47
      BY <1>2, <2>1
    <2>. QED  BY <2>2 DEF Vectors
  <1>7. stack' = Stub(v)'
    BY <1>2, <1>5 DEF Stub
  <1>8. HandlerInv'
    BY <1>2, <1>5, <1>6, <1>7 DEF HandlerInv
  <1>. QED  BY <1>3, <1>4, <1>8 DEF IrqInv, Control

LEMMA RaiseKeepsInv ==
  ASSUME IrqInv, NEW line \in Devices, Raise(line)
  PROVE  IrqInv'
  <1>. DEFINE p == PicOf(line)
              new == [pics[p] EXCEPT !.irr = @ \cup {LineIn(line)}]
  <1>1. TypeOK /\ Control /\ HandlerInv
    BY DEF IrqInv, Control
  <1>2. /\ pics' = [pics EXCEPT ![p].irr = @ \cup {LineIn(line)}]
        /\ obf' = (obf \/ line = Keyboard)
        /\ UNCHANGED <<status, code, saved, interrupts, idt, regs, stack>>
    BY DEF Raise
  <1>3. p \in PICs /\ LineIn(line) \in Lines
    <2>1. line \in 0 .. 15
      BY InterruptsAssumption DEF InterruptsAssumption
    <2>. QED  BY <2>1 DEF PicOf, LineIn, PICs, Lines
  <1>. HIDE DEF p
  <1>4. pics[p] \in Pic /\ pics' = [pics EXCEPT ![p] = new]
    BY <1>1, <1>2, <1>3 DEF TypeOK
  <1>5. /\ new \in Pic /\ new.isr = pics[p].isr /\ new.icw = pics[p].icw
        /\ new.base = pics[p].base
    BY <1>3, <1>4 DEF Pic
  <1>. HIDE DEF new
  <1>6. /\ pics' \in [PICs -> Pic] /\ pics'[p] = new
        /\ \A q \in PICs \ {p} : pics'[q] = pics[q]
    BY <1>1, <1>3, <1>4, <1>5, OnePicChanges
  <1>7. \A q \in PICs : /\ pics'[q].isr = pics[q].isr /\ pics'[q].icw = pics[q].icw
                        /\ pics'[q].base = pics[q].base
    BY <1>5, <1>6
  <1>8. TypeOK'
    <2>1. obf' \in BOOLEAN
      BY <1>2
    <2>. QED  BY <1>1, <1>2, <1>6, <2>1 DEF TypeOK
  <1>9. Control'
    BY <1>1, <1>2, <1>7, ControlKept DEF IcwBaseKept
  <1>10. HandlerInv'
    <2>1. (\A v : Stub(v)' = Stub(v)) /\ IsrNumber' = IsrNumber
      BY <1>2 DEF Stub, IsrNumber, Field
    <2>. QED  BY <1>1, <1>2, <1>7, <2>1 DEF HandlerInv
  <1>. QED  BY <1>8, <1>9, <1>10 DEF IrqInv, Control
----------------------------------------------------------------------------
(* The invariant.                                                          *)

LEMMA InitInv == Init => IrqInv
  <1>. SUFFICES ASSUME Init PROVE IrqInv
    OBVIOUS
  <1>1. /\ status = "running" /\ code = kmain /\ interrupts = FALSE
        /\ saved = [p \in PICs |-> {}] /\ idt = [v \in {} |-> "stub"]
        /\ regs = [r \in Registers |-> Word(r)] /\ stack = <<>> /\ obf = FALSE
    BY DEF Init
  <1>2. PICK masks \in InitialMasks :
          pics = [p \in PICs |-> [base |-> IF p = "master" THEN 8 ELSE 112,
                                  imr |-> masks[p], irr |-> {}, isr |-> {}, icw |-> 0]]
    BY DEF Init
  <1>3. masks \in [PICs -> SUBSET Lines]
    BY InterruptsAssumption DEF InterruptsAssumption
  <1>4. \A p \in PICs : pics[p] \in Pic /\ pics[p].icw = 0 /\ pics[p].isr = {}
    BY <1>2, <1>3 DEF Pic
  <1>5. pics \in [PICs -> Pic]
    <2>. HIDE DEF Pic
    <2>. QED  BY <1>2, <1>4
  <1>6. TypeOK
    <2>1. saved \in [PICs -> SUBSET Lines] /\ regs \in [Registers -> {Word(r) : r \in Registers}]
      BY <1>1
    <2>2. DOMAIN idt = {}
      BY <1>1
    <2>. QED  BY <1>1, <1>5, <2>1, <2>2 DEF TypeOK
  <1>7. Booting(1)
    <2>1. code = SubSeq(kmain, 1, Len(kmain))
      BY <1>1, KmainListing, SubSeqFull DEF Listing
    <2>2. \A p \in PICs : BootIcw(p, 1) = 0
      BY DEF BootIcw, RemapIcw, FirstRemap, SecondRemap
    <2>. QED  BY <1>1, <1>4, <2>1, <2>2 DEF Booting, FirstRemap
  <1>8. 1 \in DOMAIN kmain
    BY KmainDomain
  <1>9. HandlerInv
    BY <1>1, <1>4 DEF HandlerInv
  <1>. QED  BY <1>6, <1>7, <1>8, <1>9 DEF IrqInv

LEMMA StutterKeepsInv ==
  ASSUME IrqInv, UNCHANGED vars
  PROVE  IrqInv'
  <1>1. /\ status' = status /\ code' = code /\ saved' = saved /\ interrupts' = interrupts
        /\ idt' = idt /\ pics' = pics /\ regs' = regs /\ stack' = stack /\ obf' = obf
    BY DEF vars
  <1>2. TypeOK /\ Control /\ HandlerInv
    BY DEF IrqInv, Control
  <1>3. TypeOK'
    BY <1>1, <1>2 DEF TypeOK
  <1>4. Control'
    BY <1>1, <1>2, ControlKept DEF IcwBaseKept
  <1>5. HandlerInv'
    <2>1. (\A v : Stub(v)' = Stub(v)) /\ IsrNumber' = IsrNumber
      BY <1>1 DEF Stub, IsrNumber, Field
    <2>. QED  BY <1>1, <1>2, <2>1 DEF HandlerInv
  <1>. QED  BY <1>3, <1>4, <1>5 DEF IrqInv, Control

LEMMA NextKeepsInv == IrqInv /\ [Next]_vars => IrqInv'
  <1>. SUFFICES ASSUME IrqInv, [Next]_vars PROVE IrqInv'
    OBVIOUS
  <1>1. CASE Execute
    BY <1>1, ExecuteKeepsInv
  <1>2. CASE HandleIRQ
    BY <1>2, HandleIRQKeepsInv
  <1>3. CASE HandleException
    BY <1>3, HandleExceptionKeepsInv
  <1>4. CASE Deliver
    BY <1>4, DeliverMasterKeepsInv, DeliverSlaveKeepsInv, SpuriousMasterKeepsInv,
       SpuriousSlaveKeepsInv DEF Deliver
  <1>5. CASE \E call \in Calls : Call(call)
    BY <1>5, CallKeepsInv
  <1>6. CASE \E vector \in FaultVectors : Fault(vector)
    BY <1>6, FaultKeepsInv
  <1>7. CASE \E line \in Devices : Raise(line)
    BY <1>7, RaiseKeepsInv
  <1>8. CASE UNCHANGED vars
    BY <1>8, StutterKeepsInv
  <1>. QED  BY <1>1, <1>2, <1>3, <1>4, <1>5, <1>6, <1>7, <1>8 DEF Next

LEMMA Invariance == Spec => []IrqInv
  BY InitInv, NextKeepsInv, PTL DEF Spec
----------------------------------------------------------------------------
(* Theorems.                                                               *)

\* Type correctness: the masks, base vectors and lines of the two PICs, the
\* gates, and the 22 words of interrupt_cpu_state_t (cpu.h:37) of a handler.
THEOREM WordsOfHandler == Spec => []TypeOK
  <1>1. IrqInv => TypeOK
    BY DEF IrqInv
  <1>. QED  BY <1>1, Invariance, PTL

\* pic_signal_EOI (pic.c:107) ends every line the PICs have put in service,
\* also after a spurious IRQ of the slave and also while the PICs are being
\* remapped a second time: no PIC keeps a line that would block the others.
THEOREM HandlersEndTheirIRQs == Spec => []NothingLeftInService
  <1>1. IrqInv => NothingLeftInService
    BY DEF IrqInv, HandlerInv, NothingLeftInService
  <1>. QED  BY <1>1, Invariance, PTL

LEMMA IRQVectors == \A v \in Vectors : v > 31 => v \in 32 .. 47
  <1>1. FaultVectors \subseteq 0 .. 31
    BY InterruptsAssumption DEF InterruptsAssumption
  <1>. QED  BY <1>1 DEF Vectors

\* The number isr_handler is called with (interrupts.c:66) belongs to the line
\* in service: no interrupt arrives before the PICs are remapped (idt.c:83-91).
THEOREM NumbersMatchLines == Spec => []NumberMatchesLine
  <1>1. IrqInv => NumberMatchesLine
    <2>. SUFFICES ASSUME IrqInv, status = "running", stack # <<>>, IsrNumber > 31,
                         NEW p \in PICs, NEW l \in Lines, l \in pics[p].isr
                  PROVE  \/ IsrNumber = 32 + l + (IF p = "slave" THEN 8 ELSE 0)
                         \/ p = "master" /\ l = Cascade /\ IsrNumber >= 40
      BY DEF NumberMatchesLine
    <2>1. PICK v \in Vectors : stack = Stub(v)
      BY DEF IrqInv, HandlerInv
    <2>2. IsrNumber = v
      BY <2>1, StubFields
    <2>3. v \in 32 .. 47
      BY <2>2, IRQVectors
    <2>4. l \in InService(p, v)
      BY <2>2 DEF IrqInv, HandlerInv
    <2>5. l \in 0 .. 7 /\ p \in {"master", "slave"}
      BY DEF Lines, PICs
    <2>. QED  BY <2>2, <2>3, <2>4, <2>5 DEF InService
  <1>. QED  BY <1>1, Invariance, PTL

\* Only a fault makes isr_handler halt the kernel (interrupts.c:67-68): no
\* IRQ, and no spurious one, has the number of an exception.
THEOREM NoIRQHalts == Spec => []OnlyFaultsHalt
  <1>1. IrqInv => OnlyFaultsHalt
    <2>. SUFFICES ASSUME IrqInv, status = "halted" PROVE IsrNumber \in FaultVectors
      BY DEF OnlyFaultsHalt
    <2>1. PICK v \in FaultVectors : stack = Stub(v)
      BY DEF IrqInv, HandlerInv
    <2>. QED  BY <2>1, StubFields
  <1>. QED  BY <1>1, Invariance, PTL

\* Whichever of the 48 stubs was used, with or without an error code of the
\* CPU, the dump (interrupts.c:73-86) finds the frame and each register in its
\* place, but rbp and rsi in each other's.
THEOREM StubsAgreeWithState == Spec => []DumpShowsCause
  <1>1. IrqInv => DumpShowsCause
    <2>. SUFFICES ASSUME IrqInv, stack # <<>>
                  PROVE  /\ Field("error_code")
                              = Word(IF IsrNumber \in CpuErrorCodes THEN "error_code" ELSE "zero")
                         /\ \A name \in {"rip", "cs", "rflags", "rsp", "ss"} :
                              Field(name) = Word(name)
                         /\ \A r \in Registers \ {"rbp", "rsi"} : Field(r) = regs[r]
                         /\ Field("rbp") = regs["rsi"] /\ Field("rsi") = regs["rbp"]
      BY DEF DumpShowsCause
    <2>1. PICK v \in Vectors : stack = Stub(v)
      BY DEF IrqInv, HandlerInv
    <2>. QED  BY <2>1, StubFields
  <1>. QED  BY <1>1, Invariance, PTL

\* The kernel's code becomes undefined only by a handler that returns to it
\* with other registers (isr_asm.s:31): no interrupt and no exception, however
\* early, meets a vector without a gate of idt.c:76-91.
UndefinedOnlyByRegisters ==
  [][status' = "undefined" /\ status # "undefined" => HandleIRQ /\ regs' # regs]_vars

THEOREM EveryInterruptHasItsGate == Spec => UndefinedOnlyByRegisters
  <1>1. ASSUME IrqInv, [Next]_vars, status' = "undefined", status # "undefined"
        PROVE  HandleIRQ /\ regs' # regs
    <2>1. TypeOK /\ Control /\ HandlerInv
      BY <1>1 DEF IrqInv, Control
    <2>2. ASSUME NEW v \in 0 .. 47, Enter(v), interrupts \/ stack # <<>>
          PROVE  FALSE
      BY <1>1, <2>1, <2>2, InterruptsOpen DEF Enter, GatesReady
    <2>3. CASE HandleIRQ
      BY <1>1, <2>3 DEF HandleIRQ, Return
    <2>4. CASE Deliver
      <3>1. PICK l \in Lines, p \in PICs, n \in Lines :
              Enter(pics[p].base + n) /\ interrupts
        <4>1. "master" \in PICs /\ "slave" \in PICs /\ 7 \in Lines
          BY DEF PICs, Lines
        <4>. QED  BY <2>4, <4>1 DEF Deliver, DeliverMaster, DeliverSlave, SpuriousMaster,
                                    SpuriousSlave
      <3>2. pics[p].base = Base(p)
        BY <2>1, <3>1, InterruptsOpen
      <3>3. Base(p) + n \in 0 .. 47
        BY DEF Base, Lines
      <3>. QED  BY <2>2, <3>1, <3>2, <3>3
    <2>5. CASE \E vector \in FaultVectors : Fault(vector)
      <3>1. PICK v \in FaultVectors : Enter(v) /\ (interrupts \/ stack # <<>>)
        BY <2>5 DEF Fault
      <3>2. v \in 0 .. 47
        BY InterruptsAssumption DEF InterruptsAssumption
      <3>. QED  BY <2>2, <3>1, <3>2
    <2>6. CASE Execute \/ HandleException
      BY <1>1, <2>6 DEF Execute, HandleException
    <2>7. CASE \/ \E call \in Calls : Call(call)
               \/ \E line \in Devices : Raise(line)
               \/ UNCHANGED vars
      BY <1>1, <2>7 DEF Call, Raise, vars
    <2>. QED  BY <1>1, <2>3, <2>4, <2>5, <2>6, <2>7 DEF Next
  <1>2. IrqInv /\ [Next]_vars
          => [status' = "undefined" /\ status # "undefined" => HandleIRQ /\ regs' # regs]_vars
    BY <1>1
  <1>. QED  BY <1>2, Invariance, PTL DEF Spec, UndefinedOnlyByRegisters
=============================================================================
