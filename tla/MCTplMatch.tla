----------------------------- MODULE MCTplMatch ------------------------------
(***************************************************************************)
(* Matching, the finder that find(...) of tpl searches with and the other  *)
(* finder, and the emulator that actions of tpl generate code for.  A      *)
(* behaviour is that of one of the four; nothing is shared but the run.    *)
(***************************************************************************)
EXTENDS GoParse, KmpFinder, ShiftOr

CONSTANTS Label, Variable, Program

VARIABLES
  client,   \* "matcher", "finder", "shiftor" or "emulator"
  program, todo, code, labels, evar, context, phase, ip, frame, stk, frames

emulatorVars == <<program, todo, code, labels, evar, context, phase, ip, frame, stk, frames>>

P == INSTANCE EmulatorPrograms
M == INSTANCE Emulator WITH vars <- evar

a == 1
b == 2
sp == 3

MCVarRule ==
  [pairs |-> Or(And(Ch({a}), And(Var("pairs"), Ch({b}))), LeafAssign("core", Ch({sp}))),
   nest |-> NodeAssign("n", Or(And(LeafAssign("p", Ch({a})), Var("nest")), Ch({b}))),
   typ |-> Typ, typref |-> TypRef]

LA == LeafAssign("p", Ch({a}))
LB == LeafAssign("q", Ch({b}))
NA == NodeAssign("n", LA)
Atoms == {Ch({a}), Not(Ch({a})), LA, LB, NA, Str(<<a, b>>), Eps, Eos, Peek({b})}
Pairs == {And(x, y) : x \in Atoms, y \in Atoms} \cup {Restr(And(LA, x), y) : x \in Atoms, y \in Atoms}
Consuming == {LA, NA, And(LA, LB), Or(And(LA, LB), LA), Restr(Str(<<a, b>>), And(LA, LB))}
Many ==
  UNION {{Repeat0(x), Repeat1(x), Repeat01(x), Repeat(x, 2, 2), Repeat(x, 1, 2), Lst(x, Ch({b}))} : x \in Consuming}
Deep ==
  {Or(x, LB) : x \in Pairs} \cup {NodeAssign("m", And(LA, x)) : x \in Many}
  \cup {And(x, LB) : x \in Many}
  \cup {PredRule(x, {<<a>>, <<a, b>>}) : x \in Many}
  \cup {Find(<<b>>, TRUE), Find(<<a, b>>, FALSE), And(LA, Find(<<b>>, FALSE)), Var("pairs"), Var("nest"),
        And(Var("nest"), LA), UGuard(UAnd(Ch({a}), Ch({b})))}

\* Grammars over the skipper sp*.
GA == Gr(LA)
GB == Gr(LB)
Grammars ==
  {And(GA, GB), GOr(And(GA, GB), GA), Repeat0(GA), Lst(GA, GB), NodeAssign("n", And(GA, GOr(GB, GA))),
   Repeat1(GOr(NodeAssign("n", And(GA, GB)), GB)), Restr(And(GA, GB), And(GA, Gr(Ch({b})))), GOr(GB, And(GA, GA))}
Bound == {GrBind(g, Repeat0(Ch({sp}))) : g \in Grammars}

Words(S, k) == UNION {[1..j -> S] : j \in 0..k}
TokenTexts == Words({sign, digit, point}, 4) \cup Words({letter, digit, return, newline}, 3)
MCTexts == Words({a, b, sp}, 3) \cup Words({a, b}, 4) \cup TokenTexts \cup {f.text : f \in GoFiles}

FirstRules == {Ch({a}), LA, NA}
LaterRules == Pairs \cup Many \cup Deep \cup Bound
TokenRules == {Tokens[name] : name \in DOMAIN Tokens}
MCRulesFor(k, source) ==
  IF Over({a, b, sp}, source)
    THEN IF k < MaxMatches THEN FirstRules ELSE LaterRules
    ELSE IF source \in TokenTexts THEN TokenRules
    ELSE IF k = 1 THEN {GolangParse} ELSE {}

\* What the finder is asked for: short patterns, and longer ones of which a
\* border has a border itself, does not fit, or is all but the last character.
MCChar == {a, b}
MCPattern == Words(MCChar, 3) \cup {<<a, b, a, b>>, <<a, a, a, b>>, <<a, b, a, a, b>>}
MCText == Words(MCChar, 4) \cup {<<a, a, a, a, b, a>>, <<a, b, a, a, b, a, a, b>>, <<a, b, a, b, a, a, b>>}

mcvars == <<vars, kvars, client, ovars, emulatorVars>>
MCInit ==
  /\ client \in {"matcher", "finder", "shiftor", "emulator"}
  /\ client = "matcher" \/ st = Start(<< >>)
  /\ client = "finder" \/ text = << >>
  /\ client = "shiftor" \/ (otext = << >> /\ width = 0 /\ wraps = FALSE)
  /\ client = "emulator" \/ program = P!Simplest
  /\ Init /\ KInit /\ OInit /\ M!EInit
  /\ Len(otext) # 4   \* such texts show the other finder no more than those of three
MCNext ==
  /\ UNCHANGED client
  /\ \/ client = "matcher" /\ Next /\ UNCHANGED <<kvars, ovars, emulatorVars>>
     \/ client = "finder" /\ KNext /\ UNCHANGED <<vars, ovars, emulatorVars>>
     \/ client = "shiftor" /\ ONext /\ UNCHANGED <<vars, kvars, emulatorVars>>
     \/ client = "emulator" /\ M!ENext /\ UNCHANGED <<vars, kvars, ovars>>
MCSpec ==
  MCInit /\ [][MCNext]_mcvars
  /\ WF_mcvars(client = "finder" /\ FinderStep /\ UNCHANGED <<vars, client, ovars, emulatorVars>>)

\* Emulator: a return leaves the value in place of the arguments, and the caller's frame.
CallsReturn == M!CallsReturn
\* Emulator: programs compute what they are meant to.
ProgramsCompute == M!ProgramsCompute

\* Emulator: a name stands for the place its procedure gave it.
VariablesAddressed == M!VariablesAddressed

\* What the emulator runs.
MCLabel == P!Labels
MCVariable == P!Variables
MCProgram == P!Correct
Together == P!Together

\* The run on literals.
Literals == {<<quote>> \o w : w \in Words({letter, quote, esc, newline}, 3)}
LiteralRules(k, source) == {CString}
=============================================================================
