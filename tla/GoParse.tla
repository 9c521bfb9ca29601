------------------------------- MODULE GoParse -------------------------------
(***************************************************************************)
(* GolangParse as go2json calls it, matched on whole Go files: pieces of   *)
(* source, each with the document it stands for. A piece is a record of    *)
(* the text and of the marks in it, a leaf with what it covers, a node     *)
(* with its kids. Names are written as GolangParse tells them from types:  *)
(* what begins small is a name, but for the predeclared types it knows,    *)
(* and a function's types and the beginning of its body are on its line.   *)
(***************************************************************************)
EXTENDS TplMatch, GoGrammar

Plain(s) == [text |-> s, marks |-> << >>]
LeafPiece(mark, s) == [text |-> s, marks |-> <<[mark |-> mark, text |-> s]>>]
NodePiece(mark, p) == [text |-> p.text, marks |-> <<[mark |-> mark, kids |-> p.marks]>>]
Pieces(ps) ==
  [text |-> FlattenSeq([i \in DOMAIN ps |-> ps[i].text]),
   marks |-> FlattenSeq([i \in DOMAIN ps |-> ps[i].marks])]

Just(c) == Plain(<<c>>)
Gap == Just(blank)
Name(w) == LeafPiece("name", <<w>>)
TypeNode(t) == NodePiece("type", t)
\* ps with a piece between each two.
Apart(ps, between) ==
  IF ps = << >> THEN Plain(<< >>)
  ELSE Pieces([i \in 1..(2 * Len(ps) - 1) |-> IF i % 2 = 1 THEN ps[(i + 1) \div 2] ELSE between])
-----------------------------------------------------------------------------
Ref(p) == NodePiece("typeref", p)
Named(w) == Ref(Name(w))
Qualified == Ref(Pieces(<<LeafPiece("ns", <<small>>), Just(point), Name(capital)>>))
Empty == Ref(LeafPiece("name", <<interface, lbrace, rbrace>>))
Pointer(t) == Pieces(<<LeafPiece("ptr", <<star>>), TypeNode(t)>>)
Array(dim, t) == Pieces(<<LeafPiece("array", <<lbracket>> \o dim \o <<rbracket>>), TypeNode(t)>>)
MapOf(k, v) ==
  Ref(Pieces(<<Name(map), Just(lbracket), NodePiece("key", k), Just(rbracket), NodePiece("value", v)>>))
ArgList(as) == Apart([i \in DOMAIN as |-> NodePiece("args", as[i])], Just(comma))
FuncOf(as) == Ref(Pieces(<<Name(func), Just(lparen), ArgList(as), Just(rparen)>>))
Struct(members) ==
  NodePiece("struct",
    Pieces(<<Just(struct), Gap, Just(lbrace)>>
           \o [i \in DOMAIN members |-> Pieces(<<Just(newline), NodePiece("vars", members[i])>>)]
           \o (IF members = << >> THEN << >> ELSE <<Just(newline)>>) \o <<Just(rbrace)>>))

Arg(t) == Pieces(<<Name(small), Gap, TypeNode(t)>>)
Bare(t) == TypeNode(t)
Tag == Pieces(<<Gap, LeafPiece("tag", <<backquote, small, backquote>>)>>)
Note == Pieces(<<Gap, LeafPiece("comment", <<slash, slash, small>>)>>)

Basic == {Named(int), Named(capital), Qualified, Empty}
Composed(Ts) ==
  {Pointer(t) : t \in Ts} \cup {Array(dim, t) : dim \in {<< >>, <<digit>>}, t \in Ts}
  \cup {MapOf(k, v) : k \in {Named(int)}, v \in Ts} \cup {MapOf(k, Named(int)) : k \in Ts}
  \cup {FuncOf(<< >>)} \cup {FuncOf(<<Arg(t), Bare(u)>>) : t \in Ts, u \in {Named(int)}}
Members(Ts) ==
  {Arg(t) : t \in Ts} \cup {Bare(Pointer(Named(capital))), Name(capital)}
Structs(Ms) ==
  {Struct(<< >>), Struct(<<Pieces(<<Name(small), Gap, TypeNode(Named(int)), Tag, Note>>), Name(capital)>>)}
  \cup {Struct(<<m>>) : m \in Ms}
  \cup {Struct(<<m, Pieces(<<Name(capital), Gap, TypeNode(Named(int)), Tag>>)>>) : m \in Ms}
  \cup {Struct(<<Pieces(<<m, Note>>), m>>) : m \in Ms}
Simple == Basic \cup Composed({Named(int), Qualified}) \cup {Struct(<< >>)}
\* What may stand in a function: on one line.
Inline == Simple \cup Composed(Simple)
Types ==
  LET Inner == Simple \cup Structs({Arg(Named(int))})
  IN Inner \cup Composed(Inner) \cup Structs(Members(Inner))
-----------------------------------------------------------------------------
(* Lines.  What follows a declaration is the end of its line.              *)

Decl(p) == NodePiece("decls", p)
Newline(eol) == Decl(LeafPiece("nl", eol))
Line(p, eol) == Pieces(<<p, Newline(eol)>>)

\* gap stands wherever a function's words and signs may be apart.
Function(recv, as, rets, gap) ==
  Pieces(<<Decl(NodePiece("func",
             Pieces(<<Just(func), Gap>> \o recv
                    \o <<Name(capital), gap, Just(lparen), gap, ArgList(as), gap, Just(rparen)>> \o rets))),
           Gap, Just(lbrace)>>)
Receiver(ptr, named) ==
  LET t == IF ptr THEN Pieces(<<LeafPiece("ptr", <<star>>), Name(capital)>>) ELSE Name(capital)
  IN Pieces(<<NodePiece("recvr", Pieces(<<Just(lparen)>> \o (IF named THEN <<Name(small), Gap>> ELSE << >>)
                                        \o <<TypeNode(t), Just(rparen)>>)), Gap>>)
Returning(t) == <<Gap, NodePiece("returns", Bare(t))>>
ReturningAll(as) ==
  <<Gap, Just(lparen), Apart([i \in DOMAIN as |-> NodePiece("returns", as[i])], Just(comma)), Just(rparen)>>

Functions ==
  {Function(r, as, rets, Plain(gap)) :
     r \in {<< >>} \cup {<<Receiver(ptr, named)>> : ptr, named \in BOOLEAN},
     as \in {<< >>, <<Arg(Named(int))>>, <<Name(small), Arg(Qualified)>>, <<Bare(Named(capital)), Bare(Named(int))>>},
     rets \in {<< >>, Returning(Pointer(Qualified)), ReturningAll(<<Bare(Named(int)), Arg(Named(capital))>>)},
     gap \in {<< >>, <<blank>>, <<newline, slash, slash, small, newline>>, <<slash, star, small, star, slash>>}}
  \cup {Function(<< >>, <<Arg(t)>>, << >>, Plain(<< >>)) : t \in Inline}
  \cup {Function(<< >>, << >>, Returning(t), Gap) : t \in Inline}
Typedef(t) == Decl(NodePiece("typedef", Pieces(<<Just(type), Gap, Name(capital), Gap, t>>)))
Import(p) == Decl(NodePiece("import", p))
Pkg == LeafPiece("pkg", <<quote, small, slash, small, quote>>)
ImportSpecs == {Pkg, Pieces(<<Name(small), Gap, Pkg>>), Pieces(<<Name(point), Gap, Pkg>>)}
Imports ==
  {Pieces(<<Just(import), Gap, Import(p)>>) : p \in ImportSpecs}
  \cup {Pieces(<<Just(import), Gap, Just(lparen), Just(newline), Import(p), Just(newline), Gap, Import(q), Just(newline), Just(rparen)>>) :
          p \in ImportSpecs, q \in ImportSpecs}
CommentText(s) == Decl(LeafPiece("comment", s))

\* One declaration by itself, and short files of every kind of line.
Eols == {<<newline>>, <<return, newline>>}
Lines ==
  {Newline(<<newline>>), Newline(<<return, newline>>),
   Pieces(<<CommentText(<<slash, slash, capital, slash>>), Just(newline)>>),
   Pieces(<<CommentText(<<slash, slash, esc, newline, func>>), Just(newline)>>),
   Pieces(<<CommentText(<<slash, star, func, newline, star, slash>>), Just(newline)>>),
   Plain(<<rbrace, newline>>), Plain(<<small, blank, slash, slash, type, newline>>),
   Line(Function(<<Receiver(TRUE, TRUE)>>, <<Arg(Named(int))>>, Returning(Named(capital)), Plain(<< >>)), <<newline>>),
   Line(Typedef(Struct(<<Arg(Named(int)), Name(capital)>>)), <<newline>>),
   Line(Typedef(Pointer(Named(int))), <<return, newline>>),
   Line(Pieces(<<Just(import), Gap, Import(Pkg)>>), <<newline>>)}
GoFiles ==
  {Line(d, eol) : d \in Functions \cup {Typedef(t) : t \in Types} \cup Imports, eol \in Eols}
  \cup {Typedef(t) : t \in Basic} \cup {Pieces(<<l, m>>) : l, m \in Lines}
  \cup {Pieces(<<l, m, k>>) : l, m, k \in Lines}
-----------------------------------------------------------------------------
\* A document with what its leaves cover instead of where they lie.
RECURSIVE Covering(_)
Covering(marks) ==
  [k \in 1..Len(marks) |->
     LET m == marks[k] IN
     IF "kids" \in DOMAIN m THEN [mark |-> m.mark, kids |-> Covering(m.kids)]
     ELSE [mark |-> m.mark, text |-> Piece(st, m.from, m.to)]]

\* GolangParse reads a file to its end, and the document holds just what was
\* declared in it: every function, type and import with its parts, in their
\* order, every comment line and every end of a line that was not a
\* comment's or a paragraph's, and nothing of the alternatives given up.
DeclarationsRead ==
  (n > 0 /\ asked.rule = GolangParse) =>
    /\ outcome = "ok" /\ st.pos = Len(st.text)
    /\ \E f \in GoFiles : f.text = st.text /\ f.marks = Covering(Document)
=============================================================================
