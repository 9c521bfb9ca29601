------------------------------- MODULE Emulator -------------------------------
(***************************************************************************)
(* tpl/emu: a code generator and a stack machine.  A client streams items  *)
(* into the code (instructions, labels, procedures, variables); a variable *)
(* becomes an offset from the frame, a label the position it is defined    *)
(* at, which is written back into the instructions that came before.  Then *)
(* exec runs the code.                                                     *)
(*                                                                         *)
(* A value is a number.  The address of a stack element (lea) is one, too: *)
(* it does not change while the element exists, the stack is a deque.      *)
(* The client's programs name their items; `frames' keeps, beside the      *)
(* machine, where each call put what the names stand for.                  *)
(***************************************************************************)
EXTENDS Integers, Sequences, SequencesExt

CONSTANTS Label, Variable,
  Program  \* records: items, main (the label exec starts from, or Start), args (of every procedure), result

Start == "0"
UndefinedLabel == -1
UndefinedVar == 2147483647
Address == 1000   \* of the first stack element; above every other value

\* CallerFrame
SIZE == 2
ARITY == -3
RETURN_IP == -2
BP == -1

VARIABLES
  program, todo,   \* the client's, and the items still to come
  code,            \* Code: instructions, with the names they came from
  labels,          \* m_label and m_refs of every Label
  vars,            \* m_var of every Variable
  context,         \* Variable::Context: the argument list, the next local
  phase,           \* "generate", "run" or "done"
  ip, frame, stk,  \* the execute context and the stack
  frames           \* history: where the calls under way put things

evars == <<program, todo, code, labels, vars, context, phase, ip, frame, stk, frames>>
machine == <<ip, frame, stk, frames>>

Undefined == [at |-> UndefinedLabel, refs |-> {}]
Instr(op, para, name) == [op |-> op, para |-> para, name |-> name, binds |-> << >>]

EInit ==
  /\ program \in Program /\ todo = program.items
  /\ code = << >>
  /\ labels = [l \in Label |-> Undefined]
  /\ vars = [v \in Variable |-> UndefinedVar]
  /\ context = [args |-> << >>, next |-> 0]
  /\ phase = "generate"
  /\ ip = 0 /\ frame = 0 /\ stk = << >> /\ frames = << >>
-----------------------------------------------------------------------------
(***************************************************************************)
(* Generation.  An item is [item, ...]; one item is one step.              *)
(***************************************************************************)
Emit(instr) == code' = Append(code, instr)

\* Mutant: only the last reference is patched.
PatchedLast(c, refs, at) ==
  [i \in DOMAIN c |-> IF \E j \in refs : i = j /\ \A k \in refs : k <= j THEN [c[i] EXCEPT !.para = at] ELSE c[i]]

\* Label::define, on the instructions that refer to it
Patched(c, refs, at) == [i \in DOMAIN c |-> IF i \in refs THEN [c[i] EXCEPT !.para = at] ELSE c[i]]

Define(l) ==
  /\ labels[l].at = UndefinedLabel
  /\ labels' = [labels EXCEPT ![l] = [at |-> Len(code), refs |-> {}]]
  /\ code' = Patched(code, labels[l].refs, Len(code))

\* Label::refer, on the instruction LabelRefer has just pushed
Refer(op, l) ==
  /\ Emit(Instr(op, IF labels[l].at = UndefinedLabel THEN 0 ELSE labels[l].at, l))
  /\ labels' = IF labels[l].at = UndefinedLabel
               THEN [labels EXCEPT ![l].refs = @ \cup {Len(code) + 1}] ELSE labels

\* arglist, end_arglist: the last argument lies right below the caller's frame
Offsets(names) == [v \in ToSet(names) |-> ARITY - (Len(names) - SelectInSeq(names, LAMBDA w : w = v))]

SetVars(offsets) ==
  vars' = [v \in Variable |-> IF v \in DOMAIN offsets THEN offsets[v] ELSE vars[v]]

\* proc(l, a, ...) leaves the number of the next local as it is; proc(l),
\* arg(a), ..., end_arglist() begins anew with it.
ProcArgs(l, names) ==
  /\ Define(l)
  /\ SetVars(Offsets(names))
  /\ UNCHANGED context

ProcDefine(l) ==
  /\ Define(l)
  /\ context' = [args |-> << >>, next |-> 0]
  /\ UNCHANGED vars

DefineArg(v) ==
  /\ vars[v] = UndefinedVar
  /\ context' = [context EXCEPT !.args = Append(@, v)]
  /\ UNCHANGED <<code, labels, vars>>

EndArgList ==
  /\ SetVars(Offsets(context.args))
  /\ context' = [args |-> << >>, next |-> 0]
  /\ UNCHANGED <<code, labels>>

\* define_var of each, in turn
DefineVars(names) ==
  /\ \A i \in DOMAIN names : vars[names[i]] = UndefinedVar
  /\ SetVars([v \in ToSet(names) |-> context.next + SelectInSeq(names, LAMBDA w : w = v) - 1])
  /\ context' = [context EXCEPT !.next = @ + Len(names)]
  /\ UNCHANGED labels

\* var(x, ...) reserves the elements; var_init(x) is what was pushed last.
Var(names) == DefineVars(names) /\ Emit([Instr("local", Len(names), Start) EXCEPT !.binds = names])
VarInit(v) ==
  /\ DefineVars(<<v>>)
  /\ code' = [code EXCEPT ![Len(code)].binds = <<v>>]

VarOp(op, v) == Emit(Instr(op, vars[v], v)) /\ UNCHANGED <<labels, vars, context>>

Generate(it) ==
  \/ it.item = "instr" /\ Emit(Instr(it.op, it.para, Start)) /\ UNCHANGED <<labels, vars, context>>
  \/ it.item = "refer" /\ Refer(it.op, it.label) /\ UNCHANGED <<vars, context>>
  \/ it.item = "label" /\ Define(it.label) /\ UNCHANGED <<vars, context>>
  \/ it.item = "proc args" /\ ProcArgs(it.label, it.names)
  \/ it.item = "proc" /\ ProcDefine(it.label)
  \/ it.item = "arg" /\ DefineArg(it.name)
  \/ it.item = "end args" /\ EndArgList
  \/ it.item = "var" /\ Var(it.names)
  \/ it.item = "var init" /\ VarInit(it.name)
  \/ it.item = "var op" /\ vars[it.name] # UndefinedVar /\ VarOp(it.op, it.name)

GenerateNext ==
  /\ phase = "generate" /\ todo # << >>
  /\ todo' = Tail(todo)
  /\ Generate(Head(todo))
  /\ UNCHANGED <<program, phase, machine>>

Exec ==
  /\ phase = "generate" /\ todo = << >>
  /\ phase' = "run"
  /\ ip' = IF program.main = Start THEN 0 ELSE labels[program.main].at
  /\ frames' = <<[frame |-> 0, bottom |-> 0, back |-> 0, at |-> << >>]>>
  /\ UNCHANGED <<program, todo, code, labels, vars, context, frame, stk>>
-----------------------------------------------------------------------------
(***************************************************************************)
(* The machine.  s is the stack, an element i of it is stk[i] of the code. *)
(***************************************************************************)
At(s, i) == s[i + 1]
Under(s, n) == SubSeq(s, 1, Len(s) - n)
TopOf(s, n) == SubSeq(s, Len(s) - n + 1, Len(s))

Truth(b) == IF b THEN 1 ELSE 0
Apply(f, x) ==
  CASE f = "add" -> x[1] + x[2] [] f = "sub" -> x[1] - x[2] [] f = "mul" -> x[1] * x[2]
    [] f = "div" -> x[1] \div x[2] [] f = "le" -> Truth(x[1] <= x[2]) [] f = "neg" -> -x[1]
    [] f = "last" -> x[Len(x)]
ArityOf(f) == IF f = "neg" THEN 1 ELSE 2

Changed(s, i, v) == [s EXCEPT ![i + 1] = v]

\* What the instruction makes of the stack, for those that change nothing else.
Result(in, s) ==
  LET top == Last(s) IN
  CASE in.op = "push" -> Append(s, in.para)
    [] in.op = "pop" -> Under(s, in.para)
    [] in.op = "nop" -> s
    [] in.op = "repush" -> Append(Under(s, 1), in.para)
    [] in.op = "add n" -> Append(Under(s, 1), top + in.para)
    [] in.op = "inc n" ->
         LET i == top - Address
             v == At(s, i) + in.para
         IN  Append(Under(Changed(s, i, v), 1), v)
    [] in.op = "arity" -> Append(s, in.para)
    [] in.op = "op" -> LET n == ArityOf(in.para) IN Append(Under(s, n), Apply(in.para, TopOf(s, n)))
    [] in.op = "assign" -> Append(Under(Changed(s, At(s, Len(s) - 2) - Address, top), 2), top)
    [] in.op = "func" -> Append(Under(s, top + 1), Apply(in.para, TopOf(Under(s, 1), top)))
    [] in.op = "local" -> s \o [i \in 1..in.para |-> 0]
    [] in.op = "push var" -> Append(s, At(s, frame + in.para))
    [] in.op = "lea var" -> Append(s, Address + frame + in.para)
    [] in.op = "assign var" -> Changed(s, frame + in.para, top)

Next1 == code[ip + 1]
Running == phase = "run" /\ ip # Len(code)

\* Where the names an instruction binds are: its last elements.
Bound(f, in, s) ==
  [f EXCEPT !.at = [v \in DOMAIN f.at \cup ToSet(in.binds) |->
     IF v \in ToSet(in.binds) THEN Len(s) - Len(in.binds) + SelectInSeq(in.binds, LAMBDA w : w = v) - 1 ELSE f.at[v]]]

Compute ==
  /\ Running /\ Next1.op \notin {"jmp", "jz", "call", "ret"}
  /\ stk' = Result(Next1, stk)
  /\ ip' = ip + 1
  /\ frames' = [frames EXCEPT ![Len(frames)] = Bound(@, Next1, stk')]
  /\ UNCHANGED <<program, todo, code, labels, vars, context, phase, frame>>

Jump ==
  /\ Running
  /\ \/ Next1.op = "jmp" /\ ip' = Next1.para /\ UNCHANGED stk
     \/ /\ Next1.op = "jz" /\ stk' = Under(stk, 1)
        /\ ip' = IF Last(stk) = 0 THEN Next1.para ELSE ip + 1
  /\ UNCHANGED <<program, todo, code, labels, vars, context, phase, frame, frames>>

Call ==
  LET args == program.args[Next1.name]
      bottom == Len(stk) - Len(args)
  IN
  /\ Running /\ Next1.op = "call"
  /\ stk' = stk \o <<ip + 1, frame>>
  /\ frame' = Len(stk')
  /\ ip' = Next1.para
  /\ frames' = Append(frames, [frame |-> frame', bottom |-> bottom, back |-> ip + 1,
                 at |-> [v \in ToSet(args) |-> bottom + SelectInSeq(args, LAMBDA w : w = v) - 1]])
  /\ UNCHANGED <<program, todo, code, labels, vars, context, phase>>

\* Mutant: the caller's frame and position stay on the stack.
PopsArgumentsOnly(n) == n

\* RetN::instr
Pops(n) == n + SIZE

Ret ==
  /\ Running /\ Next1.op = "ret"
  /\ frame' = At(stk, frame + BP)
  /\ ip' = At(stk, frame + RETURN_IP)
  /\ stk' = Append(SubSeq(stk, 1, frame - Pops(Next1.para)), Last(stk))
  /\ frames' = Front(frames)
  /\ UNCHANGED <<program, todo, code, labels, vars, context, phase>>

ExecReturns ==
  /\ phase = "run" /\ ip = Len(code)
  /\ phase' = "done"
  /\ UNCHANGED <<program, todo, code, labels, vars, context, machine>>

ENext == GenerateNext \/ Exec \/ Compute \/ Jump \/ Call \/ Ret \/ ExecReturns
ESpec == EInit /\ [][ENext]_evars
-----------------------------------------------------------------------------
(***************************************************************************)
(* "Function Stack Frame": an instruction on a variable addresses, from    *)
(* the frame, the element this very call put it in: its argument among     *)
(* those the caller pushed, its local where it was reserved.               *)
(***************************************************************************)
VariablesAddressed ==
  Running /\ Next1.op \in {"push var", "lea var", "assign var"}
    => frame + Next1.para = Last(frames).at[Next1.name]

(***************************************************************************)
(* A procedure that returns leaves, of all it and the procedures it called *)
(* did to the stack, its value in place of its arguments, and goes on      *)
(* behind the call with the caller's frame.                                *)
(***************************************************************************)
CallsReturn ==
  [][Running /\ Next1.op = "ret" =>
       LET f == Last(frames) IN
       /\ ip' = f.back /\ frame' = frames[Len(frames) - 1].frame
       /\ stk' = Append(SubSeq(stk, 1, f.bottom), Last(stk))]_evars

(***************************************************************************)
(* Programs compute what they are meant to: every jump and call goes where *)
(* its label was defined, before it or after it.                           *)
(***************************************************************************)
ProgramsCompute == phase = "done" => Last(stk) = program.result
=============================================================================
