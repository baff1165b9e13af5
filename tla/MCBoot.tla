------------------------------- MODULE MCBoot -------------------------------
(* An instance of Boot for TLC: a small screen with unused bytes in each   *)
(* row, lines and circles in all directions, integers of four to eight     *)
(* bits, a TSS whose address has eight different bytes, an RSDT of up to    *)
(* three entries, which point to a table of another kind and to good,      *)
(* wrong, full and too long MADTs, and three processors.                   *)
EXTENDS Boot, TLC

MCScreens == {[fb_width |-> 25, fb_height |-> 23, fb_pitch |-> 32]}
MCTagLists ==
  {<< [identifier |-> "STIVALE2_STRUCT_TAG_MEMMAP_ID", screen |-> NoScreen],
      [identifier |-> "STIVALE2_STRUCT_TAG_FRAMEBUFFER_ID", screen |-> s],
      [identifier |-> "STIVALE2_STRUCT_TAG_RSDP_ID", screen |-> NoScreen] >> : s \in MCScreens}
MCShapes ==
  {Line(x0, y0, x1, y1) : x0 \in {0, 3, 6}, y0 \in 0 .. 5, x1 \in 0 .. 6, y1 \in {0, 2, 5}}
    \cup {Circle(3, 3, r) : r \in 1 .. 3} \cup {Circle(12, 11, r) : r \in {8, 11}}

----------------------------------------------------------------------------
Conversion(type, flags, width, precision, arguments) ==
  [specifier |-> type[1], length |-> type[2], flags |-> flags, width |-> width,
   precision |-> precision, arg |-> arguments]
Text(c) == Conversion(<<"text", "">>, {}, 0, 0, {c})

\* No flag, one or two, and a precision or none.
FlagSets == {f \in SUBSET Flags : Cardinality(f \ {"PRECISION"}) <= 2}
Precisions(flags) == IF "PRECISION" \in flags THEN {0, 1, 3} ELSE {0}

Types ==
  {<<"d", "">>, <<"d", "hh">>, <<"d", "l">>, <<"u", "">>, <<"x", "l">>, <<"X", "">>, <<"o", "">>, <<"p", "">>}
Numbers ==
  UNION {{Conversion(t, f, w, p, {0, -9, 25} \cup (IF t[2] = "l" THEN {-90} ELSE {})) :
            t \in Types, w \in {0, 2, 4, -4}, p \in Precisions(f)} : f \in FlagSets}
Strings ==
  UNION {{Conversion(<<"s", "">>, f, w, p, {<<>>, <<"K", "n", "u", "t">>}) :
            w \in {0, 2, 6, -6}, p \in Precisions(f)} : f \in SUBSET {"LEFT", "PRECISION"}}
    \cup {Conversion(<<"c", "">>, f, w, 0, {"K"}) : f \in SUBSET {"LEFT"}, w \in {0, 3, -3}}
    \cup {Conversion(<<"%", "">>, {}, 0, 0, {0})}

Unlimited == 1000
MCCalls ==
  {[items |-> <<n, Text("z")>>, count |-> Unlimited] : n \in Numbers}
    \cup {[items |-> <<Text("a"), Conversion(<<"d", "l">>, {"ZEROPAD"}, 4, 0, {-90}), s>>, count |-> c] :
            s \in Strings, c \in {0, 1, 3, 6, 8, Unlimited}}

----------------------------------------------------------------------------
\* What the boot loader leaves: 16- and 32-bit segments first, then 64-bit.
MCBootSegments ==
  [table |-> 0 :> Descriptor(0, 0) @@ 8 :> Descriptor(154, 0) @@ 16 :> Descriptor(146, 0)
     @@ 24 :> Descriptor(154, 192) @@ 32 :> Descriptor(146, 192)
     @@ 40 :> Descriptor(154, 160) @@ 48 :> Descriptor(146, 160),
   segment |-> [r \in {"cs", "ds", "es", "fs", "gs", "ss"} |-> IF r = "cs" THEN 40 ELSE 48]]

\* The digits 1 to 8 to the base 9.
MCTssAddresses == {1 + 2*9 + 3*9^2 + 4*9^3 + 5*9^4 + 6*9^5 + 7*9^6 + 8*9^7}

UartLeft(ier, lcr, fcr, low) ==
  [ier |-> ier, lcr |-> lcr, mcr |-> 0, fcr |-> fcr, divisor_low |-> low, divisor_high |-> 0]
MCUartStates == {UartLeft(0, 0, 0, 12), UartLeft(0, 131, 1, 1)}

Processor(max, apic) ==
  [cpuid_max |-> max, apic |-> apic, ebx |-> <<"G", "e", "n", "u">>,
   edx |-> <<"i", "n", "e", "I">>, ecx |-> <<"n", "t", "e", "l">>]
MCCPUs == {Processor(1, TRUE), Processor(1, FALSE), Processor(0, TRUE)}
----------------------------------------------------------------------------
Madt(length, sum, records) ==
  [signature |-> "APIC", sum |-> sum, length |-> length, records |-> records]
Record(type, length) == [type |-> type, length |-> length]

\* Two processors, an I/O APIC, two overrides, an NMI and a record of type 5.
Usual ==
  44 :> Record(0, 8) @@ 52 :> Record(1, 12) @@ 64 :> Record(2, 10) @@ 74 :> Record(0, 8)
    @@ 82 :> Record(5, 16) @@ 98 :> Record(2, 10) @@ 108 :> Record(4, 6)

\* Nothing but records of one type.
Uniform(n, type, length) ==
  [o \in {MadtBytes + k * length : k \in 0 .. n - 1} |-> Record(type, length)]

\* 35 NMIs fill 254 bytes; 64 local APICs are more than fit an array.
MCTables ==
  1000 :> [signature |-> "FACP", sum |-> 0, length |-> 116]
    @@ 2000 :> Madt(114, 0, Usual)
    @@ 3000 :> Madt(114, 7, Usual)
    @@ 4000 :> Madt(44 + 35 * 6, 0, Uniform(35, 4, 6))
    @@ 5000 :> Madt(44 + 64 * 8, 0, Uniform(64, 0, 8))

MCFirmwares ==
  { [rsdp_sum |-> rsdp_sum, revision |-> revision,
     rsdt |-> [signature |-> "RSDT", sum |-> sum, entries |-> entries,
               length |-> HeaderBytes + 4 * Len(entries)]] :
      rsdp_sum \in {0, 3}, revision \in {0, 2}, sum \in {0, 9},
      entries \in UNION {[1 .. n -> DOMAIN MCTables] : n \in 0 .. 2} \cup {<<1000, 3000, 4000>>, <<1000, 3000, 5000>>} }
=============================================================================
