------------------------------ MODULE GoGrammar ------------------------------
(***************************************************************************)
(* docx/go.h: the grammar by which GolangParse reads Go declarations into  *)
(* a document.  Types refer to each other, through the rule variables typ  *)
(* and typref.                                                             *)
(***************************************************************************)
EXTENDS TplTokens

tagDecls(x) == NodeAssign("decls", x)
tagType(x) == NodeAssign("type", x)
tagName(x) == LeafAssign("name", x)
tagPointer == LeafAssign("ptr", Ch({star}))
Sign_(c) == Gr(Ch({c}))
Listed(x) == Lst(x, Sign_(comma))
Keyword(w) == PredRule(CSymbol, {<<w>>})

notBuiltinType(x) == PredNot(x, {<<int>>, <<struct>>, <<interface>>, <<func>>})
notKeyword(x) == PredNot(x, {<<struct>>, <<interface>>, <<func>>})

typ == Var("typ")
structag == Or(And(Ch({backquote}), Find(<<backquote>>, TRUE)), CString)

exptyp == And(Repeat01(Gr(tagPointer)), Gr(tagName(notBuiltinType(CSymbol))))
recvr ==
  And(And(And(Sign_(lparen), Repeat01(Gr(tagName(LstartSymbol)))), tagType(exptyp)), Sign_(rparen))

\* Mutant: a type is looked for before a name.
ArgTypeFirst == GOr(tagType(typ), Gr(tagName(notBuiltinType(LstartSymbol))))

arg == GOr(And(Gr(tagName(notBuiltinType(LstartSymbol))), Repeat01(tagType(typ))), tagType(typ))

returns(x) == NodeAssign("returns", x)
ret ==
  GOr(And(And(Sign_(lparen), Listed(returns(arg))), Sign_(rparen)),
      returns(tagType(typ)))

member ==
  And(And(GOr(And(Gr(tagName(notBuiltinType(CSymbol))), Repeat01(tagType(typ))), tagType(typ)),
          Repeat01(Gr(LeafAssign("tag", structag)))),
      Repeat01(Gr(LeafAssign("comment", CppComment))))
strucline == Listed(NodeAssign("vars", member))
struc ==
  And(And(And(Gr(Keyword(struct)), Sign_(lbrace)),
          Gr(GrBind(Repeat01(Lst(Gr(Eol), strucline)), CPpSkip))),
      Sign_(rbrace))

importSpec ==
  And(Repeat01(Gr(tagName(Or(Ch({point}), CSymbol)))), Gr(LeafAssign("pkg", CString)))
args == Repeat01(Listed(NodeAssign("args", arg)))

\* What was assigned to typref and typ.
TypRef ==
  GOr(GOr(GOr(GOr(
    And(And(And(And(Gr(tagName(Str(<<map>>))), Sign_(lbracket)), NodeAssign("key", typ)), Sign_(rbracket)),
        NodeAssign("value", typ)),
    And(Repeat01(And(Gr(LeafAssign("ns", CSymbol)), Sign_(point))), Gr(tagName(notKeyword(CSymbol))))),
    Gr(tagName(Str(<<interface, lbrace, rbrace>>)))),
    Gr(tagName(Str(<<struct, lbrace, rbrace>>)))),
    And(And(And(Gr(tagName(Str(<<func>>))), Sign_(lparen)), args), Sign_(rparen)))
Typ ==
  GOr(GOr(GOr(
    And(Gr(tagPointer), tagType(typ)),
    And(Gr(LeafAssign("array", And(Ch({lbracket}), Find(<<rbracket>>, TRUE)))), tagType(typ))),
    NodeAssign("struct", struc)),
    NodeAssign("typeref", Var("typref")))

import_ == tagDecls(NodeAssign("import", importSpec))
imports ==
  And(Keyword(import),
      GrBind(GOr(And(And(Sign_(lparen), Repeat01(Lst(Gr(Eol), import_))), Sign_(rparen)), import_), CPpSkip))
typdef == And(Keyword(type), GrBind(And(Gr(tagName(CSymbol)), typ), CPpSkip))
func_ ==
  And(Keyword(func),
      GrBind(And(And(And(And(And(Repeat01(NodeAssign("recvr", recvr)), Gr(tagName(UstartSymbol))),
                             Sign_(lparen)), args), Sign_(rparen)), Repeat01(ret)),
             CppSkip))

GolangParse ==
  Repeat0(Or(Or(Or(Or(Or(
    And(tagDecls(NodeAssign("func", func_)), FindEol),
    And(tagDecls(NodeAssign("typedef", typdef)), FindEol)),
    And(imports, FindEol)),
    And(tagDecls(LeafAssign("comment", CppComment)), StrictEol)),
    And(Paragraph, Eol)),
    tagDecls(LeafAssign("nl", StrictEol))))
=============================================================================
