------------------------------ MODULE Kprintf ------------------------------
(***************************************************************************)
(* The formatted output of the kernel (libs/libk/kprintf/kprintf.c): a     *)
(* call of snprintf, one item of its format at a time, writing the memory  *)
(* at the buffer.                                                          *)
(*                                                                         *)
(* An item is a character that is printed as it is or a conversion, a      *)
(* record of what its characters say, with the set of the arguments the    *)
(* caller may pass for it.  A width or a precision may come from an        *)
(* argument (a '*'), and only then be negative.  The conversions of        *)
(* floating point numbers are not compiled.                                *)
(***************************************************************************)
EXTENDS Integers, Sequences, SequencesExt

CONSTANTS
  CharValues, ShortValues, IntValues, LongValues, \* how many values a type has; long long is long
  PointerBytes, \* sizeof(void*)
  NtoaBuffer,   \* PRINTF_NTOA_BUFFER_SIZE
  BufferBytes   \* the bytes of memory that are looked at, from the buffer on

ASSUME KprintfAssumption ==
  /\ {CharValues, ShortValues, IntValues, LongValues, PointerBytes, NtoaBuffer, BufferBytes} \subseteq Nat \ {0}

VARIABLES
  call,    \* the items of the format and count
  args,    \* the arguments read so far, one for each item
  format,  \* the item that is looked at next; behind the last one, the terminator
  buffer,  \* the memory at the buffer
  idx      \* the number of characters so far

kprintfVars == <<call, args, format, buffer, idx>>

Garbage == "garbage" \* what the memory held before
NUL     == "NUL"
NoCall  == [items |-> <<>>, count |-> 0]

Flags == {"ZEROPAD", "LEFT", "PLUS", "SPACE", "HASH", "PRECISION"}

Lengths == {"hh", "h", "", "l", "ll", "t", "j", "z"}
Numeric == {"d", "i", "u", "x", "X", "o", "b", "p"}

\* What the caller owes: every item is one, the argument of a conversion of
\* a number is a number and that of "%s" a string.
WellFormedItem(item) ==
  /\ DOMAIN item = {"specifier", "length", "flags", "width", "precision", "arg"}
  /\ item.width \in Int /\ item.precision \in Int
  /\ item.flags \subseteq Flags /\ item.length \in Lengths
  /\ item.specifier \in Numeric => item.arg \subseteq Int
  /\ item.specifier = "s" => item.arg \subseteq Seq(STRING)

WellFormedCall(c) ==
  /\ c.count \in Nat
  /\ c.items \in Seq(ToSet(c.items))
  /\ \A k \in DOMAIN c.items : WellFormedItem(c.items[k])

Smaller(a, b) == IF a < b THEN a ELSE b
Times(c, n) == [k \in 1 .. (IF n > 0 THEN n ELSE 0) |-> c]
----------------------------------------------------------------------------
(* Arguments.                                                              *)

Unsigned(value, values) == (value % values)
Signed(value, values) == ((value + values \div 2) % values) - values \div 2

ValuesOf(length) ==
  CASE length = "hh" -> CharValues
    [] length = "h"  -> ShortValues
    [] length = ""   -> IntValues
    [] length \in {"l", "ll", "t", "j", "z"} -> LongValues

IsSigned(item) == item.specifier \in {"d", "i"}

\* An item with its argument.
Passed(item, argument) == [item EXCEPT !.arg = argument]

\* The argument as the type of the conversion has it.
va_arg(item) ==
  IF IsSigned(item) THEN Signed(item.arg, ValuesOf(item.length))
  ELSE Unsigned(item.arg, ValuesOf(item.length))

\* The absolute value; 0 - value wraps for the smallest one, which is right.
Magnitude(value) == IF value < 0 THEN -value ELSE value
Pointer(item) == Unsigned(item.arg, LongValues)

DigitChars ==
  <<"0", "1", "2", "3", "4", "5", "6", "7", "8", "9", "a", "b", "c", "d", "e", "f">>
UpperChars ==
  <<"0", "1", "2", "3", "4", "5", "6", "7", "8", "9", "A", "B", "C", "D", "E", "F">>
----------------------------------------------------------------------------
(* Numbers.  Their characters are collected in reverse, in buf.            *)

Put(buf, c) == IF Len(buf) < NtoaBuffer THEN Append(buf, c) ELSE buf

PutZeros(buf, n) == buf \o Times("0", Smaller(n, NtoaBuffer) - Len(buf))

\* Pads before or behind; zeros are in buf already.
_out_rev(buf, width, flags) ==
  LET spaces == Times(" ", width - Len(buf))
  IN CASE "LEFT" \in flags -> Reverse(buf) \o spaces
       [] {"LEFT", "ZEROPAD"} \intersect flags = {} -> spaces \o Reverse(buf)
       [] OTHER -> Reverse(buf)

\* Mutant: no room is left for the sign.
WidthOfZeros_all(negative, width, flags) == width

WidthOfZeros(negative, width, flags) ==
  IF /\ width > 0 /\ "LEFT" \notin flags /\ "ZEROPAD" \in flags
     /\ negative \/ {"PLUS", "SPACE"} \intersect flags # {}
    THEN width - 1 ELSE width

LeadingZeros(buf, prec, width, flags) ==
  IF "LEFT" \in flags THEN buf
  ELSE LET zeros == PutZeros(buf, prec)
       IN IF "ZEROPAD" \in flags THEN PutZeros(zeros, width) ELSE zeros

\* The prefix takes the place of digits, zeros as a rule, when the width is
\* reached.
HashPrefix(buf, base, prec, width, flags) ==
  LET len == Len(buf)
      full == "PRECISION" \notin flags /\ len > 0 /\ len \in {prec, width}
      kept == CASE ~full -> len
                [] full /\ base = 16 /\ len > 1 -> len - 2
                [] OTHER -> len - 1
      rest == SubSeq(buf, 1, kept)
      marked == CASE base = 16 -> Put(rest, IF "UPPERCASE" \in flags THEN "X" ELSE "x")
                  [] base = 2  -> Put(rest, "b")
                  [] OTHER     -> rest
  IN IF "HASH" \in flags THEN Put(marked, "0") ELSE buf

Sign(buf, negative, flags) ==
  CASE negative -> Put(buf, "-")
    [] ~negative /\ "PLUS" \in flags -> Put(buf, "+")
    [] ~negative /\ "PLUS" \notin flags /\ "SPACE" \in flags -> Put(buf, " ")
    [] OTHER -> buf

_ntoa_format(buf, negative, base, prec, width, flags) ==
  LET w      == WidthOfZeros(negative, width, flags)
      zeros  == LeadingZeros(buf, prec, w, flags)
      prefix == HashPrefix(zeros, base, prec, w, flags)
  IN _out_rev(Sign(prefix, negative, flags), w, flags)

\* The digits of a number, the last one first: one for each division.
DigitsOf(value, base, chars) ==
  LET d[v \in Nat] == <<chars[1 + (v % base)]>> \o (IF v < base THEN <<>> ELSE d[v \div base])
  IN d[value]

\* Those that fit into buf.
Digits(value, base, flags) ==
  LET all == DigitsOf(value, base, IF "UPPERCASE" \in flags THEN UpperChars ELSE DigitChars)
  IN SubSeq(all, 1, Smaller(Len(all), NtoaBuffer))

_ntoa_long(value, negative, base, prec, width, flags) ==
  _ntoa_format(IF "PRECISION" \in flags /\ value = 0 THEN <<>> ELSE Digits(value, base, flags),
               negative, base, prec, width,
               IF value = 0 THEN flags \ {"HASH"} ELSE flags)
----------------------------------------------------------------------------
(* Conversions.                                                            *)

\* A negative width from an argument means padding on the other side.
FlagsOf(item) == item.flags \cup (IF item.width < 0 THEN {"LEFT"} ELSE {})
WidthOf(item) == Magnitude(item.width)
PrecisionOf(item) ==
  IF "PRECISION" \in item.flags /\ item.precision > 0 THEN item.precision ELSE 0

Base(specifier) ==
  CASE specifier \in {"x", "X"} -> 16
    [] specifier = "o" -> 8
    [] specifier = "b" -> 2
    [] specifier \in {"d", "i", "u"} -> 10

IntegerFlags(item) ==
  LET ignored == (IF Base(item.specifier) = 10 THEN {"HASH"} ELSE {})
                   \cup (IF IsSigned(item) THEN {} ELSE {"PLUS", "SPACE"})
                   \cup (IF "PRECISION" \in item.flags THEN {"ZEROPAD"} ELSE {})
  IN (FlagsOf(item) \ ignored) \cup (IF item.specifier = "X" THEN {"UPPERCASE"} ELSE {})

Integer(item) ==
  LET value == va_arg(item)
  IN _ntoa_long(Magnitude(value), value < 0, Base(item.specifier),
                PrecisionOf(item), WidthOf(item), IntegerFlags(item))

PointerWidth == 2 * PointerBytes

PointerText(item) ==
  _ntoa_long(Pointer(item), FALSE, 16, PrecisionOf(item), PointerWidth,
             FlagsOf(item) \cup {"ZEROPAD", "UPPERCASE"})

Padded(text, l, item) ==
  LET spaces == Times(" ", WidthOf(item) - l)
  IN IF "LEFT" \in FlagsOf(item) THEN text \o spaces ELSE spaces \o text

\* The characters before the terminator, at most maxsize.
_strnlen_s(str, maxsize) == Smaller(Len(str), maxsize)

\* The length decides about the spaces, the precision about the characters.
String(item) ==
  LET cut    == "PRECISION" \in item.flags
      prec   == PrecisionOf(item)
      length == _strnlen_s(item.arg, IF prec = 0 THEN Len(item.arg) ELSE prec)
      l      == IF cut THEN Smaller(length, prec) ELSE length
      chars  == IF cut THEN SubSeq(item.arg, 1, Smaller(Len(item.arg), prec)) ELSE item.arg
  IN Padded(chars, l, item)

\* What an item prints; of a conversion it does not know, its last character.
Output(item) ==
  CASE item.specifier = "text" -> <<item.arg>>
    [] item.specifier \in {"d", "i", "u", "x", "X", "o", "b"} -> Integer(item)
    [] item.specifier = "c" -> Padded(<<item.arg>>, 1, item)
    [] item.specifier = "s" -> String(item)
    [] item.specifier = "p" -> PointerText(item)
    [] OTHER -> <<item.specifier>>
----------------------------------------------------------------------------
(* The call.                                                               *)

_out_buffer(chars) ==
  [k \in DOMAIN buffer |->
     IF k < call.count /\ k - idx \in 0 .. Len(chars) - 1 THEN chars[k - idx + 1] ELSE buffer[k]]

Returned == format > Len(call.items) + 1

\* A call of snprintf, one of those given.
snprintf(calls) ==
  /\ Returned
  /\ call' \in calls
  /\ format' = 1 /\ args' = <<>> /\ idx' = 0
  /\ buffer' = [k \in 0 .. BufferBytes - 1 |-> Garbage]

_vsnprintf ==
  /\ format <= Len(call.items)
  /\ \E argument \in call.items[format].arg :
       /\ args' = Append(args, argument)
       /\ \E text \in {Output(Passed(call.items[format], argument))} :
            buffer' = _out_buffer(text) /\ idx' = idx + Len(text)
  /\ format' = format + 1
  /\ UNCHANGED call

\* Mutant: a text that does not fit is not terminated.
TerminatorAt_idx == idx

\* The last place a terminator may have.
TerminatorAt == IF idx < call.count THEN idx ELSE call.count - 1

_vsnprintf_terminate ==
  /\ format = Len(call.items) + 1
  /\ buffer' = [k \in DOMAIN buffer |-> IF k = TerminatorAt /\ k < call.count THEN NUL ELSE buffer[k]]
  /\ format' = format + 1
  /\ UNCHANGED <<call, args, idx>>

\* Whoever called goes on; the buffer is of no interest any more.
KprintfIdle ==
  /\ call = NoCall /\ args = <<>> /\ format = 2 /\ idx = 0
  /\ buffer = [k \in 0 .. BufferBytes - 1 |-> Garbage]

KprintfReset ==
  /\ call' = NoCall /\ args' = <<>> /\ format' = 2 /\ idx' = 0
  /\ buffer' = [k \in 0 .. BufferBytes - 1 |-> Garbage]

KprintfNext == _vsnprintf \/ _vsnprintf_terminate
----------------------------------------------------------------------------
(* The text according to the C standard (7.21.6.1).                        *)

CPad(text, item) ==
  LET missing == Times(" ", WidthOf(item) - Len(text))
  IN IF "LEFT" \in FlagsOf(item) THEN text \o missing ELSE missing \o text

\* Digits from the first to the last.
Numeral(value, base) ==
  LET n[v \in Nat] == IF v < base THEN <<v>> ELSE Append(n[v \div base], (v % base))
  IN n[value]

CDigits(item, value) ==
  LET numeral == Numeral(value, Base(item.specifier))
      chars   == IF item.specifier = "X" THEN UpperChars ELSE DigitChars
      shown   == IF "PRECISION" \in item.flags /\ item.precision = 0 /\ value = 0 THEN <<>>
                 ELSE [k \in DOMAIN numeral |-> chars[1 + numeral[k]]]
  IN IF "PRECISION" \in item.flags THEN Times("0", item.precision - Len(shown)) \o shown ELSE shown

\* What is in front of the digits; octal numbers begin with a zero anyway.
CPrefix(item, value, digits) ==
  CASE IsSigned(item) ->
         (CASE value < 0 -> <<"-">>
            [] value >= 0 /\ "PLUS" \in item.flags -> <<"+">>
            [] value >= 0 /\ item.flags \intersect {"PLUS", "SPACE"} = {"SPACE"} -> <<" ">>
            [] OTHER -> <<>>)
    [] "HASH" \in item.flags /\ item.specifier \in {"x", "X"} /\ value # 0 -> <<"0", item.specifier>>
    [] "HASH" \in item.flags /\ item.specifier = "o" /\ (digits = <<>> \/ Head(digits) # "0") -> <<"0">>
    [] OTHER -> <<>>

CNumber(item) ==
  LET value  == va_arg(item)
      digits == CDigits(item, Magnitude(value))
      prefix == CPrefix(item, value, digits)
      zeros  == Times("0", WidthOf(item) - Len(prefix) - Len(digits))
  IN IF FlagsOf(item) \intersect {"ZEROPAD", "LEFT", "PRECISION"} = {"ZEROPAD"}
       THEN prefix \o zeros \o digits ELSE CPad(prefix \o digits, item)

\* %p prints what %0<width>lX prints, which is one of the things C allows.
CText(item) ==
  CASE item.specifier \in {"d", "i", "u", "x", "X", "o"} -> CNumber(item)
    [] item.specifier = "p" ->
         CNumber([item EXCEPT !.specifier = "X", !.flags = {"ZEROPAD"}, !.width = PointerWidth, !.length = "l"])
    [] item.specifier = "s" /\ "PRECISION" \in item.flags ->
         CPad([k \in 1 .. Smaller(Len(item.arg), item.precision) |-> item.arg[k]], item)
    [] item.specifier = "s" /\ "PRECISION" \notin item.flags -> CPad(item.arg, item)
    [] item.specifier = "c" -> CPad(<<item.arg>>, item)
    [] item.specifier = "text" -> <<item.arg>>
    [] OTHER -> <<"%">>

\* Where the code prints something else, or where C promises nothing: flags
\* C does not define for a conversion, and, of numbers, what does not fit
\* into buf, a precision that adds zeros to a number padded behind, a
\* negative precision, and '#' where the prefix replaces digits.
Departs(item) ==
  LET precision == "PRECISION" \in item.flags
      digits    == IF precision /\ va_arg(item) = 0 THEN 0
                   ELSE Len(Numeral(Magnitude(va_arg(item)), Base(item.specifier)))
      padding   == FlagsOf(item) \intersect {"ZEROPAD", "LEFT", "PRECISION"}
      hash      == "HASH" \in item.flags /\ va_arg(item) # 0
  IN CASE item.specifier = "text" -> FALSE
       [] item.specifier = "c" -> item.flags \ {"LEFT"} # {}
       [] item.specifier = "p" -> FlagsOf(item) # {} \/ Len(CText(item)) > NtoaBuffer
       [] item.specifier = "s" -> item.flags \ {"LEFT", "PRECISION"} # {} \/ (precision /\ item.precision < 0)
       [] item.specifier \in {"d", "i", "u", "x", "X", "o"} ->
            \/ precision /\ item.precision < 0
            \/ Len(CText(item)) > NtoaBuffer
            \/ precision /\ "LEFT" \in padding /\ item.precision > digits
            \/ hash /\ item.specifier \in {"x", "X"} /\ ~precision
                 /\ WidthOf(item) \in {digits} \cup (IF padding = {"ZEROPAD"} THEN {digits + 1} ELSE {})
            \/ hash /\ item.specifier = "o" /\ ~precision /\ WidthOf(item) = digits
            \/ "HASH" \in item.flags /\ item.specifier = "o" /\ precision
                 /\ IF va_arg(item) = 0 THEN item.precision = 0 ELSE item.precision > digits
       [] OTHER -> item.specifier # "%"

\* The items of the call with their arguments.
PassedItems == [k \in DOMAIN args |-> Passed(call.items[k], args[k])]

CFormat(items) ==
  LET text[n \in 0 .. Len(items)] == IF n = 0 THEN <<>> ELSE text[n - 1] \o CText(items[n])
  IN text[Len(items)]

\* When a call returns, the buffer holds the text the C standard gives for
\* its format and arguments, cut off so that the terminator fits into count
\* bytes, nothing behind the terminator was written, and the result is the
\* length the whole text has (kprintf.c:606-967).  Calls with an item that
\* Departs are excluded, the combinations of '#', '-', width and precision
\* that kprintf.c prints otherwise among them.
TextAsInC ==
  Returned /\ (\A k \in DOMAIN args : ~Departs(PassedItems[k])) =>
    \E text \in {CFormat(PassedItems)} :
      LET end == Smaller(Len(text), call.count - 1)
      IN /\ idx = Len(text)
         /\ \A k \in DOMAIN buffer :
              buffer[k] = IF k < end THEN text[k + 1] ELSE IF k = end THEN NUL ELSE Garbage

\* Each variable has its type.
KprintfTypeOK ==
  /\ format \in 1 .. Len(call.items) + 2
  /\ Len(args) = Smaller(format - 1, Len(call.items))
  /\ call.count \in Nat /\ idx \in Nat
  /\ DOMAIN buffer = 0 .. BufferBytes - 1
=============================================================================
