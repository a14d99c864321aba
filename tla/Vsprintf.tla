------------------------------ MODULE Vsprintf ------------------------------
(***************************************************************************)
(* vsprintf: the conversion of numbers and the interpreter of formats.     *)
(* The kernel and the libc of the user land have the same text of it.      *)
(* Formats and results are sequences of characters; an argument is an int, *)
(* given by its bits as a natural number, or a string.                     *)
(***************************************************************************)
EXTENDS Integers, Sequences, SequencesExt, FiniteSetsExt

CONSTANT Bits       \* the width of an int; 32 in the code

ASSUME BitsAssumption == Bits \in Nat \ {0}

Word == 2^Bits
ToInt(n) == IF n >= Word \div 2 THEN n - Word ELSE n

Capitals == <<"0", "1", "2", "3", "4", "5", "6", "7", "8", "9",
              "A", "B", "C", "D", "E", "F", "X">>
Smalls == <<"0", "1", "2", "3", "4", "5", "6", "7", "8", "9",
            "a", "b", "c", "d", "e", "f", "x">>
DigitChars == ToSet(SubSeq(Capitals, 1, 10))
ValueOf(c) == SelectInSeq(Capitals, LAMBDA d : d = c) - 1

\* n times the character c, and nothing if n is negative
Times(n, c) == [i \in 1..Max({n, 0}) |-> c]

\* Mutant: the digits stay in the order in which they are found
RECURSIVE FiguresUp(_, _, _)
FiguresUp(n, base, digits) ==
    IF n = 0 THEN <<>>
    ELSE <<digits[(n % base) + 1]>> \o FiguresUp(n \div base, base, digits)

\* do_div divides unsigned words: the smallest int, whose negation is itself, too
RECURSIVE Figures(_, _, _)
Figures(n, base, digits) ==
    IF n = 0 THEN <<>>
    ELSE Append(Figures(n \div base, base, digits), digits[(n % base) + 1])

number(num, base, size, precision, type) ==
    LET negative == "SIGN" \in type /\ ToInt(num) < 0
        value == IF negative THEN (Word - num) % Word ELSE num
        digits == IF "SMALL" \in type THEN Smalls ELSE Capitals
        sign == IF negative THEN <<"-">> ELSE IF "PLUS" \in type THEN <<"+">>
                ELSE IF "SPACE" \in type THEN <<" ">> ELSE <<>>
        special == IF "SPECIAL" \notin type THEN <<>>
                   ELSE IF base = 16 THEN <<"0", digits[17]>>
                   ELSE IF base = 8 THEN <<"0">> ELSE <<>>
        figures == IF value = 0 THEN <<"0">> ELSE Figures(value, base, digits)
        prec == Max({precision, Len(figures)})
        fill == size - Len(sign) - Len(special) - prec
        left == "LEFT" \in type
        zeropad == "ZEROPAD" \in type /\ ~left
    IN (IF left \/ zeropad THEN <<>> ELSE Times(fill, " "))
         \o sign \o special
         \o (IF zeropad THEN Times(fill, "0") ELSE <<>>)
         \o Times(prec - Len(figures), "0") \o figures
         \o (IF left THEN Times(fill, " ") ELSE <<>>)

(***************************************************************************)
(* A directive, from the character behind the '%' on                       *)
(***************************************************************************)
FlagChars == {"-", "+", " ", "#", "0"}
FlagOf(c) == CASE c = "-" -> "LEFT" [] c = "+" -> "PLUS" [] c = " " -> "SPACE"
               [] c = "#" -> "SPECIAL" [] c = "0" -> "ZEROPAD"

Peek(s) == IF s = <<>> THEN "" ELSE Head(s)
Leading(s, chars) == LET i == SelectInSeq(s, LAMBDA c : c \notin chars)
                     IN SubSeq(s, 1, IF i = 0 THEN Len(s) ELSE i - 1)
Behind(s, lead) == SubSeq(s, Len(lead) + 1, Len(s))

skip_atoi(s) == FoldLeft(LAMBDA a, c : 10 * a + ValueOf(c), 0, Leading(s, DigitChars))

\* '*' takes the next argument, but fmt stays in front of it, so that the switch
\* over the conversions meets the '*'
FieldWidth(fmt, args) ==
    IF Peek(fmt) \in DigitChars
    THEN [width |-> skip_atoi(fmt), left |-> FALSE,
          fmt |-> Behind(fmt, Leading(fmt, DigitChars)), args |-> args]
    ELSE IF Peek(fmt) = "*" THEN
          LET w == ToInt(Head(args))
          IN [width |-> IF w < 0 THEN -w ELSE w, left |-> w < 0, fmt |-> fmt, args |-> Tail(args)]
    ELSE [width |-> -1, left |-> FALSE, fmt |-> fmt, args |-> args]

Precision(fmt, args) ==
    LET f == Tail(fmt)
    IN IF Peek(fmt) # "." THEN [prec |-> -1, fmt |-> fmt, args |-> args]
       ELSE IF Peek(f) \in DigitChars
       THEN [prec |-> skip_atoi(f), fmt |-> Behind(f, Leading(f, DigitChars)), args |-> args]
       ELSE IF Peek(f) = "*"
       THEN [prec |-> Max({ToInt(Head(args)), 0}), fmt |-> f, args |-> Tail(args)]
       ELSE [prec |-> 0, fmt |-> f, args |-> args]

Padded(s, width, left) ==
    IF left THEN s \o Times(width - Len(s), " ") ELSE Times(width - Len(s), " ") \o s

NullString == <<"NULL">>         \* the null pointer

\* What a conversion prints.  %p gets a width of its own if it has none.
Converted(conv, arg, flags, width, prec) ==
    CASE conv = "c" -> Padded(<<arg>>, width, "LEFT" \in flags)
      [] conv = "s" -> IF arg = NullString THEN <<>>
                       ELSE Padded(IF prec < 0 THEN arg ELSE SubSeq(arg, 1, Min({prec, Len(arg)})),
                                   width, "LEFT" \in flags)
      [] conv = "o" -> number(arg, 8, width, prec, flags)
      [] conv = "p" -> IF width = -1 THEN number(arg, 16, 8, prec, flags \cup {"ZEROPAD"})
                       ELSE number(arg, 16, width, prec, flags)
      [] conv = "x" -> number(arg, 16, width, prec, flags \cup {"SMALL"})
      [] conv = "X" -> number(arg, 16, width, prec, flags)
      [] conv \in {"d", "i"} -> number(arg, 10, width, prec, flags \cup {"SIGN"})
      [] conv = "u" -> number(arg, 10, width, prec, flags)

Conversions == {"c", "s", "o", "p", "x", "X", "d", "i", "u"}

\* s: what is left of format and arguments, the result so far and what %n stored, where.
\* The conversion itself, behind flags, width and precision p
Conversion(s, flags, width, p) ==
    LET f == IF Peek(p.fmt) \in {"h", "l", "L"} THEN Tail(p.fmt) ELSE p.fmt
        conv == Peek(f)
        rest == IF f = <<>> THEN <<>> ELSE Tail(f)
    IN IF conv \in Conversions
       THEN [str |-> s.str \o Converted(conv, Head(p.args), flags, width, p.prec),
             fmt |-> rest, args |-> Tail(p.args), stored |-> s.stored]
       ELSE IF conv = "n"
       THEN [s EXCEPT !.fmt = rest, !.args = Tail(p.args), !.stored = Append(@, <<Head(p.args), Len(s.str)>>)]
       ELSE [s EXCEPT !.fmt = rest, !.args = p.args,
                      !.str = @ \o (IF conv = "%" THEN <<>> ELSE <<"%">>)
                                \o (IF conv = "" THEN <<>> ELSE <<conv>>)]

\* The rest of a directive with the flags lead, from the field width w on
FromWidth(s, lead, w) ==
    Conversion(s, {FlagOf(c) : c \in ToSet(lead)} \cup (IF w.left THEN {"LEFT"} ELSE {}),
               w.width, Precision(w.fmt, w.args))

Directive(s) ==
    LET lead == Leading(s.fmt, FlagChars)
    IN FromWidth(s, lead, FieldWidth(Behind(s.fmt, lead), s.args))

RECURSIVE Interpret(_)
Interpret(s) ==
    IF s.fmt = <<>> THEN s
    ELSE IF Head(s.fmt) # "%"
    THEN Interpret([s EXCEPT !.str = Append(@, Head(s.fmt)), !.fmt = Tail(@)])
    ELSE Interpret(Directive([s EXCEPT !.fmt = Tail(@)]))

vsprintf(fmt, args) ==
    Interpret([str |-> <<>>, fmt |-> fmt, args |-> args, stored |-> <<>>]).str

\* atoi of the user land: whatever is no digit is skipped
atoi(s) == FoldLeft(LAMBDA a, c : 10 * a + ValueOf(c), 0,
                    SelectSeq(s, LAMBDA c : c \in DigitChars))
=============================================================================
