------------------------------ MODULE TplTokens ------------------------------
(***************************************************************************)
(* The tokens tpl/regex/UComposition.h and tpl/c/Lex.h build from rules,   *)
(* with the language each is documented to match.  The characters: a sign, *)
(* a decimal digit, the decimal point, a letter, the delimiter of strings, *)
(* the backslash, carriage return, new line, the blank, and the words and  *)
(* signs of Go, a word being one character that a symbol may begin with.   *)
(***************************************************************************)
EXTENDS TplRules

sign == 11
digit == 12
point == 13
letter == 14
quote == 15
esc == 16
return == 17
newline == 18
blank == 19

\* Words of Go: the keywords that GolangParse names, a predeclared type, and
\* names that begin with a small and with a capital letter.
func == 20
type == 21
import == 22
struct == 23
interface == 24
map == 25
int == 26
small == 27
capital == 28
Lower == {func, type, import, struct, interface, map, int, small}
Word == Lower \cup {capital}

lparen == 31
rparen == 32
lbracket == 33
rbracket == 34
lbrace == 35
rbrace == 36
comma == 37
star == 38
slash == 39
backquote == 40

Sign == Ch({sign})
Digit == Ch({digit})
DecimalPointer == Ch({point})

UInteger == Repeat1(Digit)
IntegerU == UAnd(Repeat01(Sign), UInteger)
DecimalPointerStarted == UAnd(DecimalPointer, UInteger)
DecimalPointerStarted0 == UAnd(DecimalPointer, Repeat0(Digit))
UStrictFractionU == Or(DecimalPointerStarted, UAnd(UInteger, DecimalPointerStarted0))
UFractionU == Or(DecimalPointerStarted, UAnd(UInteger, Repeat01(DecimalPointerStarted0)))
CSymbolNextChar == Ch({letter, digit} \cup Word)
CSymbol == UAnd(Ch({letter} \cup Word), Repeat0(CSymbolNextChar))
LstartSymbol == UAnd(Ch(Lower), Repeat0(CSymbolNextChar))
UstartSymbol == UAnd(Ch({capital}), Repeat0(CSymbolNextChar))

StrictEol == Or(UAnd(Ch({return}), Repeat01(Ch({newline}))), Ch({newline}))
Eol == Or(StrictEol, Eos)

\* find_eol(), which the end of the source ends too, and paragraph(), which
\* takes something.
FindEol == Repeat0(Not(Ch({return, newline, endch})))
Paragraph == Repeat1(Not(Ch({return, newline, endch})))

\* c_string(): any escaped character, and every other one but the delimiter
\* and the ends of a line.
ChAny == Not(Ch({endch}))
EscChar == UAnd(Ch({esc}), ChAny)
CString ==
  LET Chars == Repeat0(Or(EscChar, Not(Ch({quote, return, newline}))))
  IN UGuard(UAnd(Ch({quote}), UAnd(Chars, Ch({quote}))))

\* Comments: the one to the end of a line, which a backslash there prolongs,
\* up to the end or with it, and the other.
FindContinuableEol ==
  Repeat0(Or(UAnd(Ch({esc}), Repeat01(Or(UAnd(Ch({return}), Repeat01(Ch({newline}))), ChAny))),
             Not(Ch({return, newline, esc, endch}))))
CCommentEnd == UAnd(Ch({star}), Find(<<star, slash>>, TRUE))
CComment == UGuard(UAnd(Ch({slash}), CCommentEnd))
CppCommentTo(eol) ==
  UGuard(UAnd(Ch({slash}), Or(UAnd(Ch({slash}), UAnd(FindContinuableEol, eol)), CCommentEnd)))
CppComment == CppCommentTo(Eps)
CppCommentEatEol == CppCommentTo(Eol)

\* The skippers of C++ and of its preprocessor.
CppSkip == Lst(Repeat0(Ch({blank, return, newline})), CppCommentEatEol)
CPpSkip == Lst(Repeat0(Or(Ch({blank}), And(Ch({esc}), StrictEol))), CComment)

\* The tokens by name, guarded as TPL_REGEX_GUARD does.
Tokens ==
  [integer |-> UGuard(IntegerU),
   u_strict_fraction |-> UGuard(UStrictFractionU),
   strict_fraction |-> UGuard(UAnd(Repeat01(Sign), UStrictFractionU)),
   u_fraction |-> UGuard(UFractionU),
   fraction |-> UGuard(UAnd(Repeat01(Sign), UFractionU)),
   c_symbol |-> CSymbol,
   strict_eol |-> StrictEol]
-----------------------------------------------------------------------------
\* What the comments beside the tokens call them, as sets of texts:
\* [+-]?d+, \.d+ | d+\.d*, \.d+ | d+(\.d*)?, [a-zA-Z_][0-9a-zA-Z_]* and
\* \r\n? | \n.
Over(S, s) == \A k \in DOMAIN s : s[k] \in S
Unsigned(s) == IF s # << >> /\ s[1] = sign THEN SubSeq(s, 2, Len(s)) ELSE s

IsUInteger(s) == s # << >> /\ Over({digit}, s)
IsUStrictFraction(s) ==
  /\ Len(s) > 1
  /\ \E k \in DOMAIN s : s[k] = point /\ \A j \in DOMAIN s \ {k} : s[j] = digit

InLanguage(name, s) ==
  CASE name = "integer" -> IsUInteger(Unsigned(s))
    [] name = "u_strict_fraction" -> IsUStrictFraction(s)
    [] name = "strict_fraction" -> IsUStrictFraction(Unsigned(s))
    [] name = "u_fraction" -> IsUInteger(s) \/ IsUStrictFraction(s)
    [] name = "fraction" -> IsUInteger(Unsigned(s)) \/ IsUStrictFraction(Unsigned(s))
    [] name = "c_symbol" -> s # << >> /\ s[1] = letter /\ Over({letter, digit}, s)
    [] name = "strict_eol" -> s \in {<<return>>, <<newline>>, <<return, newline>>}
=============================================================================
