-------------------------------- MODULE Dumps --------------------------------
(* strings, od, hexdump, base64, printf and seq (core_extra.go): the tools  *)
(* that show bytes and numbers.  A file is its bytes; a unit of a dump is   *)
(* shown as the bytes it is made of, most significant first, or as its      *)
(* number where the format is not one digit string for each value.          *)
EXTENDS Text

(* -------------------------------- strings -------------------------------- *)
StringsDefaults ==
  [minimum |-> 4, w |-> FALSE, d |-> FALSE, width |-> 1, big |-> FALSE, high |-> FALSE, bad |-> FALSE]

SetEncoding(o, letter) ==
  LET as(width, big, high) == [o EXCEPT !.width = width, !.big = big, !.high = high]
  IN CASE letter = "s" -> as(1, FALSE, FALSE)
       [] letter = "S" -> as(1, FALSE, TRUE)
       [] letter = "b" -> as(2, TRUE, FALSE)
       [] letter = "l" -> as(2, FALSE, FALSE)
       [] letter = "B" -> as(4, TRUE, FALSE)
       [] letter = "L" -> as(4, FALSE, FALSE)
       [] OTHER -> [as(1, FALSE, FALSE) EXCEPT !.bad = TRUE]
StringsOption(o, a) ==
  CASE a.opt = "n" -> [o EXCEPT !.minimum = a.arg]
    [] a.opt = "e" -> SetEncoding(o, a.arg)
    [] a.opt = "w" -> [o EXCEPT !.w = TRUE]
    [] a.opt = "d" -> [o EXCEPT !.d = TRUE]
    [] a.opt = "a" -> [o EXCEPT !.d = FALSE]

StringsPrintable(o, byte) ==
  \/ byte = Tab \/ byte \in 32 .. 126
  \/ o.w /\ byte \in {10, 11, 12, 13}
  \/ o.high /\ byte > 127

(* charAt: the character that starts at byte i, which is one if its other   *)
(* bytes are zero.                                                          *)
LowByte(o, i) == IF o.big THEN i + o.width - 1 ELSE i
IsChar(o, data, i) ==
  /\ \A k \in i .. i + o.width - 1 : k = LowByte(o, i) \/ data[k] = 0
  /\ StringsPrintable(o, data[LowByte(o, i)])

(* The scan goes on with the byte after the character that ended a run.     *)
FindRun(o, data, s) ==
  LET starts == {i \in s.at .. Len(data) - o.width + 1 : IsChar(o, data, i)}
      i == Least(starts)
      fits(k) == i + k * o.width + o.width - 1 <= Len(data)
      ends == {k \in 1 .. Len(data) : ~ fits(k) \/ ~ IsChar(o, data, i + k * o.width)}
      n == Least(ends)
      text == [k \in 1 .. n |-> data[LowByte(o, i + (k - 1) * o.width)]]
  IN IF starts = {} THEN [s EXCEPT !.at = Len(data) + 1]
     ELSE [at |-> i + n * o.width + 1,
           out |-> IF n >= o.minimum THEN Append(s.out, [at |-> i - 1, text |-> text]) ELSE s.out]
StringsScan(o, data, base) ==
  Mapped(Iterate(LAMBDA s : FindRun(o, data, s), [at |-> 1, out |-> <<>>], Len(data)).out,
         LAMBDA r : [r EXCEPT !.at = base + @])

(* stringsScanAll: under -d, and in a file that is an object, the loaded     *)
(* sections alone, of which there may be none: [at, size, loaded].          *)
StringsScanAll(o, file) ==
  LET inside(s) == s.loaded /\ s.at + s.size <= Len(file.data)
  IN IF o.d /\ file.elf
       THEN FlattenSeq(Mapped(SelectSeq(file.sections, inside),
                              LAMBDA s : StringsScan(o, SubSeq(file.data, s.at + 1, s.at + s.size), s.at)))
       ELSE StringsScan(o, file.data, 0)

(* A minimum below one is reported, with a status of success.               *)
MissingFile == [data |-> <<-1>>, elf |-> FALSE, sections |-> <<>>]
Strings(args, files) ==
  LET o == Options(StringsOption, StringsDefaults, args)
  IN IF o.bad THEN [status |-> 1, out |-> <<>>]
     ELSE IF o.minimum < 1 THEN [status |-> 0, out |-> <<>>]
     ELSE [status |-> IF MissingFile \in Range(files) THEN 1 ELSE 0,
           out |-> Mapped(SelectSeq(files, LAMBDA f : f /= MissingFile), LAMBDA f : StringsScanAll(o, f))]

(* ----------------------------- od and hexdump ---------------------------- *)
(* A format is its kind, the bytes of a unit, the width of its column and    *)
(* whether the line ends with its bytes as characters.                      *)
Format(kind, size, width) == [kind |-> kind, size |-> size, width |-> width, gutter |-> FALSE]
DigitWidths ==
  [x |-> [n \in {1, 2, 4, 8} |-> 2 * n],
   o |-> [n \in {1, 2, 4, 8} |-> (8 * n + 2) \div 3],
   u |-> 1 :> 3 @@ 2 :> 5 @@ 4 :> 10 @@ 8 :> 20,
   d |-> 1 :> 4 @@ 2 :> 6 @@ 4 :> 11 @@ 8 :> 20,
   f |-> 2 :> 15 @@ 4 :> 15 @@ 8 :> 24]
NoFormat == Format("none", 0, 0)
OdFormat(kind, size) ==
  IF kind \in {"a", "c"} THEN Format(kind, 1, 4)
  ELSE IF kind \in DOMAIN DigitWidths /\ size \in DOMAIN DigitWidths[kind]
    THEN Format(kind, size, DigitWidths[kind][size] + 1)
    ELSE NoFormat

(* odTypeSpec: a kind, its size, none, a number or a letter, and "z"; "fB"   *)
(* is the other float of two bytes.                                         *)
SizeLetters(kind) ==
  IF kind = "f" THEN [B |-> 2, H |-> 2, F |-> 4, D |-> 8, L |-> 16] ELSE [C |-> 1, S |-> 2, I |-> 4, L |-> 8]
OdTypeSpec(spec) ==
  Mapped(spec, LAMBDA t :
    LET f == OdFormat(t.kind, IF t.size /= "" THEN SizeLetters(t.kind)[t.size]
                              ELSE IF t.n >= 0 THEN t.n
                              ELSE IF t.kind = "f" THEN 8 ELSE 4)
    IN IF f = NoFormat THEN f
       ELSE [f EXCEPT !.gutter = t.z, !.kind = IF t.kind = "f" /\ t.size = "B" THEN "brain" ELSE @])
OfSize(kind, n) == [kind |-> kind, size |-> "", n |-> n, z |-> FALSE]
Traditional ==
  [a |-> OfSize("a", -1), b |-> OfSize("o", 1), c |-> OfSize("c", -1), d |-> OfSize("u", 2), f |-> OfSize("f", 4),
   i |-> OfSize("d", 4), l |-> OfSize("d", 8), o |-> OfSize("o", 2), s |-> OfSize("d", 2), x |-> OfSize("x", 2)]

(* unitAt, dumpWord: the bytes of a unit, zero beyond the end of the data,    *)
(* which may lie behind the end of the region that is shown.                *)
ByteAt(data, i) == IF i < Len(data) THEN data[i + 1] ELSE 0
UnitAt(data, off, size, big) ==
  [k \in 1 .. size |-> ByteAt(data, off + (IF big THEN k - 1 ELSE size - k))]
Unsigned(unit) == FoldLeft(LAMBDA v, byte : 256 * v + byte, 0, unit)
(* The sign extension of a unit of one or two bytes.                        *)
Signed(unit) ==
  LET half == IF Len(unit) = 1 THEN 128 ELSE 32768
  IN IF Unsigned(unit) >= half THEN Unsigned(unit) - 2 * half ELSE Unsigned(unit)
(* Every value that is not a number is shown alike, but for its sign.       *)
NotANumber(kind, unit) ==
  LET low(k, n) == unit[k] % n /= 0 \/ \E j \in k + 1 .. Len(unit) : unit[j] /= 0
      top == unit[1] % 128
  IN IF Len(unit) = 2 /\ kind = "f" THEN top \div 4 = 31 /\ low(1, 4)
     ELSE IF Len(unit) = 8 THEN top = 127 /\ unit[2] \div 16 = 15 /\ low(2, 16)
     ELSE top = 127 /\ unit[2] \div 128 = 1 /\ low(2, 128)
Field(format, unit) ==
  CASE format.kind = "a" -> <<unit[1] % 128>>
    [] format.kind \in {"f", "brain"} /\ NotANumber(format.kind, unit) -> <<unit[1] \div 128, -1>>
    [] format.kind = "d" /\ Len(unit) <= 2 -> <<Signed(unit)>>
    [] OTHER -> unit

ColumnWidth(formats, perLine, format) ==
  LET spans == {f.width * (perLine \div f.size) : f \in Range(formats)}
      widest == CHOOSE n \in spans : \A m \in spans : m <= n
      units == perLine \div format.size
      shared == IF units = 0 THEN format.width ELSE widest \div units
  IN IF shared > format.width THEN shared ELSE format.width
Gutter(bytes) == Mapped(bytes, LAMBDA c : IF c \in 32 .. 126 THEN c ELSE 46)
RenderLine(r, data, off, lineEnd, format) ==
  [column |-> ColumnWidth(r.formats, r.perLine, format),
   text |-> IF format.gutter THEN Gutter(SubSeq(data, off + 1, lineEnd)) ELSE <<>>,
   fields |-> [k \in 1 .. (lineEnd - off + format.size - 1) \div format.size |->
                 Field(format, UnitAt(data, off + (k - 1) * format.size, format.size, r.big))]]

(* A line of output is [address, lines], a star for the full lines that     *)
(* look as the one before, or the address of the end.                       *)
Star == [address |-> -1, lines |-> <<>>]
NoAddress == -2
Address(r, off) == IF r.addresses = "n" THEN NoAddress ELSE off
DumpStep(r, data, end, dedup, s, off) ==
  LET lineEnd == IF off + r.perLine < end THEN off + r.perLine ELSE end
      lines == Mapped(r.formats, LAMBDA f : RenderLine(r, data, off, lineEnd, f))
  IN IF dedup /\ lineEnd - off = r.perLine /\ s.last = <<lines>>
       THEN [s EXCEPT !.out = IF Last(@) = Star THEN @ ELSE Append(@, Star)]
       ELSE [last |-> <<lines>>, out |-> Append(s.out, [address |-> Address(r, off), lines |-> lines])]
RegionEnd(data, skip, limit) ==
  IF limit >= 0 /\ skip + limit < Len(data) THEN skip + limit ELSE Len(data)
RunDump(data, skip, limit, dedup, r) ==
  LET end == RegionEnd(data, skip, limit)
      start == IF skip > end THEN end ELSE skip
      offsets == [k \in 1 .. (end - start + r.perLine - 1) \div r.perLine |-> start + (k - 1) * r.perLine]
      body == FoldLeft(LAMBDA s, off : DumpStep(r, data, end, dedup, s, off), [last |-> <<>>, out |-> <<>>], offsets).out
      silent == r.addresses = "n" \/ (r.quiet /\ (data = <<>> \/ limit = 0))
  IN body \o (IF silent THEN <<>> ELSE <<[address |-> end, lines |-> <<>>]>>)

OdDefaults == [A |-> "o", j |-> 0, N |-> -1, v |-> FALSE, w |-> 16, big |-> FALSE, formats |-> <<>>, bad |-> FALSE]
OdOption(o, a) ==
  CASE a.opt = "t" -> [o EXCEPT !.formats = @ \o OdTypeSpec(a.arg), !.bad = @ \/ a.arg = <<>> \/ NoFormat \in Range(OdTypeSpec(a.arg))]
    [] a.opt \in DOMAIN Traditional -> [o EXCEPT !.formats = @ \o OdTypeSpec(<<Traditional[a.opt]>>)]
    [] a.opt = "v" -> [o EXCEPT !.v = TRUE]
    [] a.opt = "w" -> [o EXCEPT !.w = IF a.arg = -1 THEN 32 ELSE a.arg, !.bad = @ \/ a.arg = 0]   \* -1: none given
    [] a.opt = "endian" -> [o EXCEPT !.big = a.arg = "big", !.bad = @ \/ a.arg \notin {"big", "little"}]
    [] a.opt = "A" -> [o EXCEPT !.A = a.arg, !.bad = @ \/ a.arg \notin {"o", "d", "x", "n"}]
    [] a.opt \in {"j", "N"} -> [o EXCEPT ![a.opt] = a.arg]
(* readDumpInputs: one file that cannot be read ends the run.               *)
Unreadable == <<-1>>
ReadDumpInputs(files) ==
  IF Unreadable \in Range(files) THEN [status |-> 1, data |-> <<>>] ELSE [status |-> 0, data |-> FlattenSeq(files)]
Od(args, files) ==
  LET o == Options(OdOption, OdDefaults, args)
      formats == IF o.formats = <<>> THEN OdTypeSpec(<<Traditional.o>>) ELSE o.formats
      r == [formats |-> formats, perLine |-> o.w, big |-> o.big, addresses |-> o.A, quiet |-> FALSE]
      in == ReadDumpInputs(files)
  IN IF o.bad \/ in.status /= 0 THEN [status |-> 1, out |-> <<>>]
     ELSE [status |-> 0, out |-> RunDump(in.data, o.j, o.N, ~ o.v, r)]

HexdumpDefaults == [mode |-> "", s |-> 0, n |-> -1, v |-> FALSE, bad |-> FALSE]
HexdumpOption(o, a) ==
  CASE a.opt \in {"C", "c", "b", "d", "o", "x"} -> [o EXCEPT !.mode = a.opt]
    [] a.opt = "v" -> [o EXCEPT !.v = TRUE]
    [] a.opt \in {"s", "n"} -> [o EXCEPT ![a.opt] = a.arg, !.bad = @ \/ a.arg < 0]
HexdumpFormat(mode) ==
  CASE mode \in {"c", "b"} -> Format(mode, 1, 4)
    [] mode \in {"d", "o", "x"} -> Format(IF mode = "d" THEN "u" ELSE mode, 2, 8)
    [] mode = "" -> Format("x", 2, 5)
(* runDumpHexdumpCanonical shows each byte, as a number and as a character,  *)
(* in a layout of its own.                                                  *)
Canonical == [Format("x", 1, 3) EXCEPT !.gutter = TRUE]
(* A line shows 16 bytes in the code.                                       *)
Hexdump(args, files, perLine) ==
  LET o == Options(HexdumpOption, HexdumpDefaults, args)
      r == [formats |-> <<IF o.mode = "C" THEN Canonical ELSE HexdumpFormat(o.mode)>>, perLine |-> perLine,
            big |-> FALSE, addresses |-> "x", quiet |-> TRUE]
      in == ReadDumpInputs(files)
  IN IF o.bad \/ in.status /= 0 THEN [status |-> 1, out |-> <<>>]
     ELSE [status |-> 0, out |-> RunDump(in.data, o.s, o.n, ~ o.v, r)]

(* --------------------------------- base64 -------------------------------- *)
(* Sixty-four digits, and one that fills up the last group of four.         *)
Padding == 64
Base64Encode(data) ==
  LET groups == (Len(data) + 2) \div 3
      byte(g, k) == ByteAt(data, 3 * (g - 1) + k)
      digits(g) == <<byte(g, 0) \div 4, (byte(g, 0) % 4) * 16 + byte(g, 1) \div 16,
                     (byte(g, 1) % 16) * 4 + byte(g, 2) \div 64, byte(g, 2) % 64>>
      rest == Len(data) % 3
      used(g) == IF g < groups \/ rest = 0 THEN 4 ELSE 1 + rest
  IN FlattenSeq([g \in 1 .. groups |-> [k \in 1 .. 4 |-> IF k <= used(g) THEN digits(g)[k] ELSE Padding]])
Base64Decode(text) ==
  LET digits == SelectSeq(text, LAMBDA c : c /= Padding)
      at(k) == IF k < Len(digits) THEN digits[k + 1] ELSE 0
      group(g) == <<at(4 * g) * 4 + at(4 * g + 1) \div 16, (at(4 * g + 1) % 16) * 16 + at(4 * g + 2) \div 4,
                    (at(4 * g + 2) % 4) * 64 + at(4 * g + 3)>>
  IN Take(FlattenSeq([g \in 1 .. (Len(digits) + 3) \div 4 |-> group(g - 1)]), (3 * Len(digits)) \div 4)

(* The lines of the output, the last without a line end if nothing is       *)
(* wrapped.                                                                 *)
LineEnd == -1
Base64(wrap, data) ==
  LET text == Base64Encode(data)
      full == (Len(text) + wrap - 1) \div wrap
  IN IF wrap <= 0 THEN text
     ELSE FlattenSeq([k \in 1 .. full |-> Append(SubSeq(text, (k - 1) * wrap + 1, IF k < full THEN k * wrap ELSE Len(text)), LineEnd)])
(* White space goes before anything is decoded; what is left is groups of    *)
(* four, of which the last may end in one or two fillers, or is refused.    *)
WellPadded(text) ==
  /\ Len(text) % 4 = 0
  /\ \E n \in 0 .. 2 : \A k \in DOMAIN text : IF k > Len(text) - n THEN text[k] = Padding ELSE text[k] \in 0 .. 63
Base64Read(text) ==
  LET clean == SelectSeq(text, LAMBDA c : c /= LineEnd)
  IN IF WellPadded(clean) THEN [status |-> 0, out |-> Base64Decode(clean)] ELSE [status |-> 1, out |-> <<>>]
(* No operand stands for standard input.                                    *)
CmdBase64(decode, wrap, files, stdin) ==
  LET data == IF files = <<>> THEN stdin ELSE files[1]
  IN IF Len(files) > 1 \/ data = Unreadable THEN [status |-> 1, out |-> <<>>]
     ELSE IF decode THEN Base64Read(data)
     ELSE [status |-> 0, out |-> Base64(wrap, data)]

(* --------------------------------- printf -------------------------------- *)
Backslash == 92
LetterEscapes == 97 :> 7 @@ 98 :> 8 @@ 101 :> 27 @@ 102 :> 12 @@ 110 :> 10 @@ 114 :> 13 @@ 116 :> 9 @@ 118 :> 11 @@ 92 :> 92
IsOctal(c) == c \in 48 .. 55
IsHex(c) == IsDigit(c) \/ c \in 65 .. 70 \cup 97 .. 102
HexValue(c) == IF IsDigit(c) THEN c - 48 ELSE Lower(c) - 87
InBase(base, digits) == FoldLeft(LAMBDA n, c : base * n + HexValue(c), 0, digits)

(* decodeEscapes: what the escape after the backslash at i is worth, and    *)
(* where the text goes on; octal beyond a byte is the largest byte.         *)
Escape(text, i) ==
  LET c == text[i + 1]
      hex == Span(SubSeq(text, i + 2, IF i + 3 < Len(text) THEN i + 3 ELSE Len(text)), IsHex)
      octal == Span(SubSeq(text, i + 1, IF i + 3 < Len(text) THEN i + 3 ELSE Len(text)), IsOctal)
      number == InBase(8, SubSeq(text, i + 1, i + octal))
  IN IF c \in DOMAIN LetterEscapes THEN [out |-> <<LetterEscapes[c]>>, next |-> i + 2]
     ELSE IF c = 120 /\ hex > 0 THEN [out |-> <<InBase(16, SubSeq(text, i + 2, i + 1 + hex))>>, next |-> i + 2 + hex]
     ELSE IF octal > 0 THEN [out |-> <<IF number > 255 THEN 255 ELSE number>>, next |-> i + 1 + octal]
     ELSE [out |-> <<Backslash, c>>, next |-> i + 2]
DecodeStep(text, stop, s) ==
  LET e == Escape(text, s.at)
  IN IF s.at > Len(text) THEN s
     ELSE IF text[s.at] /= Backslash \/ s.at = Len(text) THEN [at |-> s.at + 1, out |-> Append(s.out, text[s.at])]
     ELSE IF stop /\ text[s.at + 1] = 99 THEN [s EXCEPT !.at = Len(text) + 1]
     ELSE [at |-> e.next, out |-> s.out \o e.out]
DecodeEscapes(text, stop) ==
  Iterate(LAMBDA s : DecodeStep(text, stop, s), [at |-> 1, out |-> <<>>], Len(text)).out

(* strconv.ParseInt and ParseUint, of operands without binary prefixes and  *)
(* underscores: a sign, the base before the digits, and no more than a word *)
(* holds, which has 64 bits in the code.                                    *)
Word == 65536
NotANumeral == -1
Magnitude(text) ==
  LET base == IF Len(text) < 2 \/ text[1] /= 48 THEN 10 ELSE IF Lower(text[2]) = 120 THEN 16 ELSE 8
      digits == Skip(text, IF base = 16 THEN 2 ELSE IF base = 8 THEN 1 ELSE 0)
      value == InBase(base, digits)
  IN IF digits = <<>> \/ (\E c \in Range(digits) : ~ IsHex(c) \/ HexValue(c) >= base) THEN NotANumeral ELSE value
Plus == 43
Parses(text, signed) ==
  LET sign == text /= <<>> /\ text[1] \in {Plus, Minus}
      n == Magnitude(IF sign THEN Tail(text) ELSE text)
      limit == IF sign /\ text[1] = Minus THEN Word \div 2 ELSE Word \div 2 - 1
  IN n /= NotANumeral /\ (n <= limit \/ (~ signed /\ ~ sign /\ n < Word))
Value(text) ==
  IF text = <<>> THEN 0
  ELSE IF text[1] = Minus THEN - Magnitude(Tail(text))
  ELSE Magnitude(IF text[1] = Plus THEN Tail(text) ELSE text)
(* strconv.ParseFloat, of operands without an exponent.                     *)
Point == 46
ParsesFloat(text) ==
  LET digits == IF text /= <<>> /\ text[1] \in {Plus, Minus} THEN Tail(text) ELSE text
      points == SelectSeq(digits, LAMBDA c : c = Point)
  IN /\ \A c \in Range(digits) : IsDigit(c) \/ c = Point
     /\ Len(points) <= 1 /\ Len(digits) > Len(points)

(* An operand is a character constant, a numeral, or a text of which the     *)
(* longest numeral at its start is taken, and which is reported.            *)
Quotes == {34, 39}
IsConstant(text) == Len(text) > 1 /\ text[1] \in Quotes
Accepts(kind, text) == IF kind = "float" THEN ParsesFloat(text) ELSE Parses(text, kind = "signed")
NumericPrefix(text, kind) ==
  LET good == {n \in 1 .. Len(text) : Accepts(kind, Take(text, n))}
  IN IF good = {} THEN <<>> ELSE Take(text, CHOOSE n \in good : \A m \in good : m <= n)
Operand(text, kind) ==
  LET trimmed == TrimSpace(text)
      prefix == NumericPrefix(trimmed, kind)
  IN IF IsConstant(text) THEN [constant |-> TRUE, text |-> <<text[2]>>, bad |-> FALSE]
     ELSE [constant |-> FALSE, text |-> prefix, bad |-> prefix = <<>> \/ prefix /= trimmed]
(* A negative operand of %o or %x wraps.                                    *)
NumberOf(operand, signed) ==
  LET n == IF operand.constant THEN operand.text[1] ELSE Value(operand.text)
  IN IF signed THEN n ELSE n % Word

(* fmt.Sprintf: the digits of a number, and a field of a width.             *)
DigitOf(n) == IF n < 10 THEN 48 + n ELSE 87 + n
Numeral(n, base) ==
  LET size == IF n < 0 THEN - n ELSE n
      k == Least({i \in 1 .. 7 : size < base ^ i})
  IN (IF n < 0 THEN <<Minus>> ELSE <<>>) \o [j \in 1 .. k |-> DigitOf((size \div base ^ (k - j)) % base)]
Blanks(n) == [k \in 1 .. n |-> Space]
Padded(text, d) ==
  LET n == IF d.width > Len(text) THEN d.width - Len(text) ELSE 0
  IN IF d.left THEN text \o Blanks(n) ELSE Blanks(n) \o text
(* fmt has no verb "u": it writes the verb back, marked, with the number.   *)
NoVerb(n) == <<37, 33, 117>> \o Numeral(n, 10)

(* A conversion: what it writes and whether its operand is reported.  The   *)
(* flags "+", " ", "#" and "0" and the shape of a float are left to fmt.    *)
Conversions ==
  [s |-> 115, b |-> 98, c |-> 99, d |-> 100, i |-> 105, u |-> 117, o |-> 111, x |-> 120, X |-> 88]
Floats == {102, 70, 101, 69, 103, 71}
Conversion(d, present, v) ==
  LET signed == d.conv \in {Conversions.d, Conversions.i}
      operand == Operand(v, IF d.conv \in Floats THEN "float" ELSE IF signed THEN "signed" ELSE "unsigned")
      number == IF present THEN NumberOf(operand, signed) ELSE 0
      plain(text) == [out |-> text, bad |-> FALSE]
      numeric(text) == [out |-> Padded(text, d), bad |-> present /\ operand.bad]
  IN CASE d.conv = Conversions.s -> plain(Padded(IF d.precision >= 0 THEN Take(v, d.precision) ELSE v, d))
       [] d.conv = Conversions.b -> plain(DecodeEscapes(v, TRUE))
       [] d.conv = Conversions.c -> plain(Take(v, 1))
       [] d.conv \in {Conversions.d, Conversions.i} -> numeric(Numeral(number, 10))
       [] d.conv = Conversions.u -> numeric(NoVerb(number))
       [] d.conv = Conversions.o -> numeric(Numeral(number, 8))
       [] d.conv = Conversions.x -> numeric(Numeral(number, 16))
       [] d.conv = Conversions.X -> numeric(Mapped(Numeral(number, 16), Upper))
       [] d.conv \in Floats -> numeric(IF ~ present \/ operand.text = <<>> THEN <<48>>
                                    ELSE IF operand.constant THEN Numeral(operand.text[1], 10) ELSE operand.text)

(* What stands between a "%" and the letter of its conversion: flags, a     *)
(* width, a precision.                                                      *)
Percent == 37
IsFlag(c) == c \in {Minus, Plus, Space, 35, 48, Point} \cup 49 .. 57
Directive(flags, conv) ==
  LET head == Span(flags, LAMBDA c : c \in {Minus, Plus, Space, 35, 48})
      point == SelectInSeq(flags, LAMBDA c : c = Point)
  IN [conv |-> conv, left |-> Minus \in Range(Take(flags, head)), width |-> Digits(Skip(flags, head)),
      precision |-> IF point = 0 THEN -1 ELSE Digits(Skip(flags, point))]

(* writePrintf: the character at s.at, or the conversion that starts there. *)
WritePrintf(format, values, s) ==
  LET n == Span(Skip(format, s.at), IsFlag)
      letter == s.at + n + 1
      present == s.used < Len(values)
      d == Directive(SubSeq(format, s.at + 1, s.at + n), format[letter])
      e == Conversion(d, present, IF present THEN values[s.used + 1] ELSE <<>>)
  IN IF s.err \/ s.at > Len(format) THEN s
     ELSE IF format[s.at] /= Percent THEN [s EXCEPT !.at = @ + 1, !.out = Append(@, format[s.at])]
     ELSE IF s.at < Len(format) /\ format[s.at + 1] = Percent
       THEN [s EXCEPT !.at = @ + 2, !.out = Append(@, Percent)]
     ELSE IF letter > Len(format) THEN [s EXCEPT !.err = TRUE]
     ELSE IF format[letter] \notin Range(Conversions) \cup Floats THEN [s EXCEPT !.used = @ + 1, !.err = TRUE]
     ELSE [s EXCEPT !.at = letter + 1, !.used = @ + 1, !.out = @ \o e.out, !.bad = @ \/ e.bad]

(* One pass over the format; another one as long as operands are left.      *)
PrintfPass(format, s) ==
  LET pass == Iterate(LAMBDA m : WritePrintf(format, s.values, m),
                      [at |-> 1, used |-> 0, out |-> s.out, bad |-> s.bad, err |-> FALSE], Len(format))
      stop == pass.err \/ s.values = <<>> \/ pass.used = 0 \/ pass.used >= Len(s.values)
  IN IF s.done THEN s
     ELSE [values |-> IF stop THEN <<>> ELSE Skip(s.values, pass.used), out |-> pass.out,
           bad |-> pass.bad, err |-> pass.err, done |-> stop]
Printf(args) ==
  LET format == DecodeEscapes(args[1], FALSE)
      end == Iterate(LAMBDA s : PrintfPass(format, s),
                     [values |-> Tail(args), out |-> <<>>, bad |-> FALSE, err |-> FALSE, done |-> FALSE], Len(args))
  IN IF args = <<>> THEN [status |-> 1, out |-> <<>>]
     ELSE [status |-> IF end.bad \/ end.err THEN 1 ELSE 0, out |-> end.out]

(* ---------------------------------- seq ---------------------------------- *)
(* A number is [digits, places, minus]: its value is digits over ten to the *)
(* places.  The values are computed in units of the finest place named.     *)
PowersOfTen == [n \in 0 .. 6 |-> FoldLeft(LAMBDA p, k : 10 * p, 1, Between(1, n))]
SeqPrecision(numbers) ==
  LET places == {n.places : n \in numbers} IN CHOOSE p \in places : \A q \in places : q <= p
Scaled(n, precision) == (IF n.minus THEN -1 ELSE 1) * n.digits * PowersOfTen[precision - n.places]
(* The length of a value printed: its digits, one before the point at       *)
(* least, the point and the sign.                                           *)
SeqWidth(value, precision) ==
  LET size == IF value < 0 THEN - value ELSE value
      digits == Least({n \in 1 .. 6 : size < PowersOfTen[n]})
      shown == IF digits > precision THEN digits ELSE precision + 1
  IN shown + (IF precision > 0 THEN 1 ELSE 0) + (IF value < 0 THEN 1 ELSE 0)
SeqCount(first, step, last) ==
  LET span == IF step > 0 THEN last - first ELSE first - last
      size == IF step > 0 THEN step ELSE - step
  IN IF span < 0 THEN 0 ELSE span \div size + 1
(* A line is its value and the zeros put between the sign and it.           *)
PadNumber(value, precision, width) ==
  LET own == SeqWidth(value, precision) IN [value |-> value, zeros |-> IF own >= width THEN 0 ELSE width - own]
SeqLines(equal, precision, first, step, last) ==
  LET from == Scaled(first, precision)
      by == Scaled(step, precision)
      count == SeqCount(from, by, Scaled(last, precision))
      end == from + (count - 1) * by
      width == IF ~ equal \/ count = 0 THEN 0
               ELSE IF SeqWidth(end, precision) > SeqWidth(from, precision) THEN SeqWidth(end, precision)
               ELSE SeqWidth(from, precision)
  IN [k \in 1 .. count |-> PadNumber(from + (k - 1) * by, precision, width)]

(* The options come first, each [opt, number]; a word that is none of them, *)
(* a negative number too, ends them.  With -f the format says how a value   *)
(* looks.                                                                   *)
NoNumber == [digits |-> 0, places |-> -1, minus |-> FALSE]
One == [digits |-> 1, places |-> 0, minus |-> FALSE]
SeqOption(o) ==
  LET word == o.rest[1].opt
  IN IF o.rest = <<>> \/ o.parsed \/ word \notin {"s", "f", "w", "--"} THEN [o EXCEPT !.parsed = TRUE]
     ELSE IF word = "--" THEN [o EXCEPT !.rest = Tail(@), !.parsed = TRUE]
     ELSE IF word = "w" THEN [o EXCEPT !.rest = Tail(@), !.equal = TRUE]
     ELSE IF Len(o.rest) < 2 THEN [o EXCEPT !.bad = TRUE, !.parsed = TRUE]
     ELSE [o EXCEPT !.rest = Skip(@, 2), !.format = @ \/ word = "f"]
CmdSeq(args) ==
  LET o == Iterate(SeqOption, [rest |-> args, equal |-> FALSE, format |-> FALSE, bad |-> FALSE, parsed |-> FALSE], Len(args))
      operands == Mapped(o.rest, LAMBDA x : x.number)
      first == IF Len(operands) = 1 THEN One ELSE operands[1]
      step == IF Len(operands) = 3 THEN operands[2] ELSE One
  IN IF o.bad \/ Len(operands) \notin 1 .. 3 \/ NoNumber \in Range(operands) \/ step.digits = 0
       THEN [status |-> 1, out |-> <<>>]
     ELSE [status |-> 0,
           out |-> SeqLines(o.equal /\ ~ o.format, SeqPrecision(Range(operands)), first, step, Last(operands))]
=============================================================================
