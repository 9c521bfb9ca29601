--------------------------- MODULE EmulatorPrograms ---------------------------
(***************************************************************************)
(* The programs the emulator runs: those of tpl/examples/emulator, and     *)
(* procedures of every small shape, one of whose variables main reads.     *)
(***************************************************************************)
EXTENDS Integers, Sequences, SequencesExt, TLC

\* Where code that has no main label begins
Start == "0"

In(op, para) == <<[item |-> "instr", op |-> op, para |-> para]>>
Push(v) == In("push", v)
Op(f) == In("op", f)
PopN(n) == In("pop", n)
RetN(n) == In("ret", n)
To(op, l) == <<[item |-> "refer", op |-> op, label |-> l]>>
Lab(l) == <<[item |-> "label", label |-> l]>>
V(op, v) == <<[item |-> "var op", op |-> op, name |-> v]>>
Locals(names) == IF names = << >> THEN << >> ELSE <<[item |-> "var", names |-> names]>>
Init1(v) == <<[item |-> "var init", name |-> v]>>
SetTo(v, n) == V("lea var", v) \o Push(n) \o In("assign", 0) \o PopN(1)

\* The two ways to begin a procedure
Proc(style, l, names) ==
  IF style = "proc args" THEN <<[item |-> style, label |-> l, names |-> names]>>
  ELSE <<[item |-> "proc", label |-> l]>>
         \o [i \in DOMAIN names |-> [item |-> "arg", name |-> names[i]]]
         \o <<[item |-> "end args"]>>
Styles == {"proc", "proc args"}

Labels == {"main", "f", "g", "l", "end"}
Variables == {"x", "y", "z", "u", "v", "w"}
NoArgs == [l \in Labels |-> << >>]
Prog(items, main, args, result) == [items |-> items, main |-> main, args |-> args @@ NoArgs, result |-> result]

Simplest == Prog(Push(2) \o Push(3) \o Op("mul") \o In("nop", 0), Start, NoArgs, 6)

\* x = 2; ++x; y = 3; x * y, and with var_init
LocalVar ==
  Prog(Locals(<<"x", "y">>) \o SetTo("x", 2) \o V("lea var", "x") \o In("inc n", 1) \o PopN(1)
         \o Push(3) \o V("assign var", "y") \o PopN(1) \o V("push var", "x") \o V("push var", "y") \o Op("mul"),
       Start, NoArgs, 9)
LocalVarInit ==
  Prog(Push(2) \o Init1("x") \o V("lea var", "x") \o In("inc n", 1) \o PopN(1) \o Push(7) \o In("repush", 3) \o Init1("y")
         \o V("push var", "x") \o V("push var", "y") \o Op("mul"),
       Start, NoArgs, 9)

\* last(2, 3, neg(4))
Vargs ==
  Prog(Push(9) \o Push(2) \o Push(3) \o Push(4) \o Op("neg") \o In("arity", 3) \o In("func", "last") \o Op("add"),
       Start, NoArgs, 5)

\* my_div behind a jump
CallProc(style) ==
  Prog(To("jmp", "main") \o Proc(style, "f", <<"x", "y">>)
         \o V("push var", "x") \o V("push var", "y") \o Op("div") \o RetN(2)
         \o Lab("main") \o Push(7) \o Push(2) \o To("call", "f"),
       Start, "f" :> <<"x", "y">>, 3)

Factorial[n \in Nat] == IF n = 0 THEN 1 ELSE n * Factorial[n - 1]
Factal(style, n) ==
  Prog(Proc(style, "f", <<"x">>) \o V("push var", "x") \o Push(1) \o Op("le") \o To("jz", "l") \o Push(1) \o RetN(1)
         \o Lab("l") \o V("push var", "x") \o In("add n", -1) \o To("call", "f") \o V("push var", "x") \o Op("mul") \o RetN(1)
         \o Lab("main") \o Push(n) \o To("call", "f"),
       "main", "f" :> <<"x">>, Factorial[n])

\* for (x = 3, y = 0; x; --x) y += x: a label before and one after its references
Loop ==
  Prog(Push(3) \o Init1("x") \o Push(0) \o Init1("y")
         \o Lab("l") \o V("push var", "x") \o To("jz", "end")
         \o V("push var", "x") \o V("push var", "y") \o Op("add") \o V("assign var", "y") \o PopN(1)
         \o V("lea var", "x") \o In("inc n", -1) \o To("jz", "end") \o To("jmp", "l")
         \o Lab("end") \o V("push var", "y"),
       Start, NoArgs, 6)

\* Two jumps to a label that comes after both; only the first is taken.
Forward ==
  Prog(Push(9) \o To("jmp", "l") \o Lab("main") \o Push(0) \o To("jz", "end") \o Push(1) \o To("jz", "end")
         \o Lab("end") \o Push(6) \o Lab("l") \o In("nop", 0),
       "main", NoArgs, 6)

\* g(a reference to a local of f): assigns through it
ByReference ==
  Prog(Proc("proc", "g", <<"u">>) \o V("push var", "u") \o Push(5) \o In("assign", 0) \o RetN(1)
         \o Proc("proc", "f", <<"x">>) \o Locals(<<"y", "z">>) \o V("lea var", "z") \o To("call", "g") \o PopN(1)
         \o V("push var", "z") \o V("push var", "x") \o Op("add") \o RetN(1)
         \o Lab("main") \o Push(2) \o To("call", "f"),
       "main", "f" :> <<"x">> @@ "g" :> <<"u">>, 7)

\* f calls g, which comes after it; both have locals.
TwoProcs(style) ==
  Prog(Proc(style, "f", <<"x">>) \o Locals(<<"y">>) \o SetTo("y", 4)
         \o V("push var", "x") \o To("call", "g") \o V("push var", "y") \o Op("sub") \o RetN(1)
         \o Proc(style, "g", <<"u">>) \o Locals(<<"v">>) \o SetTo("v", 6)
         \o V("push var", "u") \o V("push var", "v") \o Op("mul") \o RetN(1)
         \o Lab("main") \o Push(3) \o To("call", "f"),
       "main", "f" :> <<"x">> @@ "g" :> <<"u">>, 14)

\* A procedure of n arguments and m locals that returns the k-th of them all,
\* called with an operand on the stack.
Names == <<"x", "y", "z", "u", "v">>
Shape(style, n, m, k) ==
  LET args == SubSeq(Names, 1, n)
      locals == SubSeq(Names, n + 1, n + m)
  IN  Prog(Proc(style, "f", args) \o Locals(locals)
             \o FlattenSeq([i \in DOMAIN locals |-> SetTo(locals[i], 10 * (n + i))])
             \o V("push var", Names[k]) \o RetN(n)
             \o Lab("main") \o Push(100) \o FlattenSeq([i \in 1..n |-> Push(10 * i)]) \o To("call", "f") \o Op("add"),
           "main", "f" :> args, 100 + 10 * k)
Correct ==
  {Simplest, LocalVar, LocalVarInit, Vargs, Loop, Forward, ByReference, TwoProcs("proc")}
  \cup {CallProc(style) : style \in Styles} \cup {Factal(style, n) : style \in Styles, n \in 0..3}
  \cup UNION {{Shape(style, n, m, k) : style \in Styles, k \in 1..(n + m)} : n \in 1..3, m \in 0..2}

\* The two procedures begun with their arguments at once
Together == {TwoProcs("proc args")}
=============================================================================
