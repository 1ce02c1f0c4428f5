----------------------------- MODULE InfixAnalysis -----------------------------
(***************************************************************************)
(* Programs of the infix language, as the parser leaves them, and          *)
(* SemanticAnalyzer in Expr mode: scopes, types, overloads, labels, jumps  *)
(* over definitions, the globals of functions.  An analysis is a record:   *)
(*   ok        no error was reported                                       *)
(*   scopes    the symbol tables, the innermost last                       *)
(*   fn        the function that is analysed, or Main                      *)
(*   labels    the labels a goto may name here                             *)
(*   seen      current_labels_seen                                         *)
(*   pending   current_pending_gotos: labels and the names known there     *)
(*   defined   defined_global_vars                                         *)
(*   resolved  the function each call means: <<in function, call, callee>> *)
(***************************************************************************)
EXTENDS Integers, Sequences, FiniteSets, SequencesExt

Items(s) == {s[i] : i \in 1 .. Len(s)}

\* Expressions.  The constants and the operators stand for all of theirs; an array has one element.
NumberExpr(n) == [expr |-> "number", n |-> n]
ClipExpr(c) == [expr |-> "clip", x |-> c]
VariableExpr(x) == [expr |-> "variable", x |-> x]
BinaryExpr(l, r) == [expr |-> "binary", l |-> l, r |-> r]
PixelExpr(clip) == [expr |-> "pixel", clip |-> clip]
ArrayAccessExpr(a) == [expr |-> "element", x |-> a]
CallExpr(f, args) == [expr |-> "call", x |-> f, args |-> args]
NthExpr(n, args) == [expr |-> "nth", n |-> n, args |-> args]
NoExpr == [expr |-> "none"]

AssignStmt(x, e) == [stmt |-> "assign", x |-> x, e |-> e]
NewArray(x) == [stmt |-> "new", x |-> x]
ArrayAssignStmt(x, e) == [stmt |-> "element", x |-> x, e |-> e]
ExprStmt(e) == [stmt |-> "expr", e |-> e]
IfStmt(e, then, else) == [stmt |-> "if", e |-> e, then |-> then, else |-> else]
WhileStmt(e, body) == [stmt |-> "while", e |-> e, body |-> body]
ReturnStmt(e) == [stmt |-> "return", e |-> e]
LabelStmt(l) == [stmt |-> "label", l |-> l]
GotoStmt(l) == [stmt |-> "goto", l |-> l]
Param(x, type) == [x |-> x, type |-> type]
FunctionDef(f, params, globals, body) ==
    [stmt |-> "function", x |-> f, params |-> params, globals |-> globals, body |-> body]

Main == FunctionDef("", <<>>, {}, <<>>)

\* The statements of a body and of the blocks in it.
RECURSIVE Within(_)
Within(body) ==
    FlattenSeq([i \in 1 .. Len(body) |->
        <<body[i]>> \o (CASE body[i].stmt = "if" -> Within(body[i].then) \o Within(body[i].else)
                          [] body[i].stmt = "while" -> Within(body[i].body)
                          [] OTHER -> <<>>)])
OfKind(kind, body) == {s \in Items(body) : s.stmt = kind}
LabelsOf(body) == {s.l : s \in OfKind("label", body)}
DistinctLabels(body) ==
    \A i, j \in 1 .. Len(body) :
        body[i].stmt = "label" /\ body[j].stmt = "label" /\ body[i].l = body[j].l => i = j
Assigned(f) == {s.x : s \in OfKind("assign", Within(f.body)) \cup OfKind("new", Within(f.body))}
Functions(p) == OfKind("function", p)
ReturnsValue(f) == \E s \in OfKind("return", Within(f.body)) : s.e # NoExpr
ConsistentReturns(f) == ReturnsValue(f) => \A s \in OfKind("return", Within(f.body)) : s.e # NoExpr

\* pathAlwaysReturns, which knows nothing of jumps.
RECURSIVE AlwaysReturns(_)
AlwaysReturns(body) ==
    \E s \in Items(body) :
        s.stmt = "return" \/ (s.stmt = "if" /\ AlwaysReturns(s.then) /\ AlwaysReturns(s.else))

-------------------------------------------------------------------------------
(* SymbolTable *)

Symbol(x, kind, type) == [x |-> x, kind |-> kind, type |-> type]
NoSymbol == Symbol("", "none", "Value")

\* A scope keeps the first symbol of a name, whatever its kind.
Define(A, symbol) ==
    LET top == Len(A.scopes)
    IN  IF \E s \in A.scopes[top] : s.x = symbol.x THEN A
        ELSE [A EXCEPT !.scopes[top] = @ \cup {symbol}]

\* getAllSymbols: an inner name hides the outer ones.
Visible(A) ==
    {s \in UNION Items(A.scopes) :
        \E i \in 1 .. Len(A.scopes) :
            s \in A.scopes[i] /\ \A j \in i + 1 .. Len(A.scopes) : \A t \in A.scopes[j] : t.x # s.x}
Resolve(A, x) ==
    IF \E s \in Visible(A) : s.x = x THEN CHOOSE s \in Visible(A) : s.x = x ELSE NoSymbol

\* The globals that a function declares may be defined later.
VariableSymbol(A, x) ==
    IF Resolve(A, x) = NoSymbol /\ x \in A.fn.globals THEN Symbol(x, "variable", "Value") ELSE Resolve(A, x)

-------------------------------------------------------------------------------
(* Types and overloads *)

Convertible(from, to) ==
    from # "Void" /\ (from = to \/ (to = "Value" /\ from # "Array"))

Conversions(types, f) == {j \in 1 .. Len(types) : types[j] # f.params[j].type}
FirstConversion(types, f) ==
    IF Conversions(types, f) = {} THEN 0
    ELSE CHOOSE j \in Conversions(types, f) : \A k \in Conversions(types, f) : j <= k
Candidates(p, x, types) ==
    {f \in Functions(p) :
        /\ f.x = x /\ Len(f.params) = Len(types)
        /\ \A j \in 1 .. Len(types) : Convertible(types[j], f.params[j].type)}
\* The fewest conversions, then the later first conversion.
Better(types, f, g) ==
    LET n == Cardinality(Conversions(types, f))
        m == Cardinality(Conversions(types, g))
    IN  n < m \/ (n = m /\ FirstConversion(types, f) > FirstConversion(types, g))
BestOf(candidates, types) == {f \in candidates : \A g \in candidates : ~Better(types, g, f)}
BestCandidates(p, x, types) == BestOf(Candidates(p, x, types), types)

RECURSIVE TypeOf(_, _, _)
Callee(p, A, e) ==
    CHOOSE f \in BestCandidates(p, e.x, [j \in 1 .. Len(e.args) |-> TypeOf(p, A, e.args[j])]) : TRUE
TypeOf(p, A, e) ==
    CASE e.expr = "number" -> "Literal"
      [] e.expr = "clip" -> "Clip"
      [] e.expr = "variable" -> VariableSymbol(A, e.x).type
      [] e.expr = "call" -> IF ReturnsValue(Callee(p, A, e)) THEN "Value" ELSE "Void"
      [] OTHER -> "Value"

RECURSIVE ExprOk(_, _, _)
ValueOk(p, A, e) == ExprOk(p, A, e) /\ Convertible(TypeOf(p, A, e), "Value")
ExprOk(p, A, e) ==
    CASE e.expr = "variable" -> VariableSymbol(A, e.x) # NoSymbol
      [] e.expr = "binary" -> ValueOk(p, A, e.l) /\ ValueOk(p, A, e.r)
      [] e.expr = "pixel" -> e.clip.expr = "clip" \/ Resolve(A, e.clip.x).type = "Clip"
      [] e.expr = "element" -> Resolve(A, e.x).type = "Array"
      [] e.expr = "nth" -> e.n \in 1 .. Len(e.args) /\ \A a \in Items(e.args) : ValueOk(p, A, a)
      [] e.expr = "call" ->
             /\ \A a \in Items(e.args) : ExprOk(p, A, a)
             /\ Cardinality(BestCandidates(p, e.x, [j \in 1 .. Len(e.args) |-> TypeOf(p, A, e.args[j])])) = 1
      [] OTHER -> TRUE

RECURSIVE CallsIn(_)
CallsIn(e) ==
    CASE e.expr = "binary" -> CallsIn(e.l) \cup CallsIn(e.r)
      [] e.expr = "nth" -> UNION {CallsIn(a) : a \in Items(e.args)}
      [] e.expr = "call" -> {e} \cup UNION {CallsIn(a) : a \in Items(e.args)}
      [] OTHER -> {}

\* validateGlobalDependencies looks at the calls of the global scope, not at their arguments.
RECURSIVE GlobalsDefined(_, _, _)
GlobalsDefined(p, A, e) ==
    CASE e.expr = "binary" -> GlobalsDefined(p, A, e.l) /\ GlobalsDefined(p, A, e.r)
      [] e.expr = "call" -> Callee(p, A, e).globals \subseteq A.defined
      [] OTHER -> TRUE

-------------------------------------------------------------------------------
(* Statements *)

\* The calls of a statement's expression are resolved, where all that is required of it holds.
Uses(p, A, e, holds) ==
    IF A.ok /\ holds THEN [A EXCEPT !.resolved = @ \cup {<<A.fn, c, Callee(p, A, c)>> : c \in CallsIn(e)}]
    ELSE [A EXCEPT !.ok = FALSE]
Global(p, A, e) == A.fn = Main => GlobalsDefined(p, A, e)

\* A goto that is pending here passes over the definition of every variable it did not know.
\* Faulty: the names are compared whatever is defined in between.
ResolveGotosBlindly(A, l) == [A EXCEPT !.pending = {g \in @ : g.l # l}]
ResolveGotos(A, l) ==
    LET variables == {s.x : s \in {t \in Visible(A) : t.kind = "variable"}}
    IN  [A EXCEPT !.pending = {g \in @ : g.l # l},
                  !.ok = @ /\ \A g \in A.pending : g.l = l => variables \subseteq g.names]

RECURSIVE AnalyseBody(_, _, _)
\* A block has a scope of its own.
AnalyseBlock(p, A, body) ==
    [AnalyseBody(p, [A EXCEPT !.scopes = Append(@, {})], body) EXCEPT !.scopes = A.scopes]

Entered(A, f) ==
    [A EXCEPT !.fn = f, !.labels = LabelsOf(Within(f.body)), !.seen = {}, !.pending = {},
              !.scopes = Append(@, {Symbol(q.x, "parameter", q.type) : q \in Items(f.params)})]
FunctionOk(f) ==
    /\ DistinctLabels(Within(f.body)) /\ ConsistentReturns(f)
    /\ ReturnsValue(f) => AlwaysReturns(f.body)
Left(A, inner, f) == [A EXCEPT !.ok = inner.ok /\ FunctionOk(f), !.resolved = inner.resolved]
AnalyseFunction(p, A, f) == Left(A, AnalyseBlock(p, Entered(A, f), f.body), f)

Operand(s) == IF "e" \in DOMAIN s THEN s.e ELSE NoExpr
\* What is required of a statement and its expression.
Required(p, A, s) ==
    CASE s.stmt \in {"assign", "if", "while"} ->
             /\ ValueOk(p, A, s.e) /\ Global(p, A, s.e)
             /\ s.stmt = "assign" => Resolve(A, s.x).type # "Array"
      [] s.stmt = "new" -> Resolve(A, s.x).type # "Array"
      [] s.stmt = "element" -> Resolve(A, s.x).type = "Array" /\ ValueOk(p, A, s.e)
      [] s.stmt = "expr" -> ExprOk(p, A, s.e) /\ TypeOf(p, A, s.e) = "Void" /\ Global(p, A, s.e)
      [] s.stmt = "return" -> A.fn # Main /\ ExprOk(p, A, s.e) /\ TypeOf(p, A, s.e) # "Array"
      [] s.stmt = "goto" -> s.l \in A.labels /\ (A.fn = Main \/ s.l \notin LabelsOf(p))
      [] OTHER -> TRUE

\* What the rest of statement s makes of A, its expression analysed.
AfterOperand(p, A, s) ==
    CASE s.stmt = "assign" -> Define(A, Symbol(s.x, "variable", "Value"))
      [] s.stmt = "new" -> Define(A, Symbol(s.x, "variable", "Array"))
      [] s.stmt = "if" -> AnalyseBlock(p, AnalyseBlock(p, A, s.then), s.else)
      [] s.stmt = "while" -> AnalyseBlock(p, A, s.body)
      [] s.stmt = "label" ->
             ResolveGotos([Define(A, Symbol(s.l, "label", "Value")) EXCEPT !.seen = @ \cup {s.l}], s.l)
      [] s.stmt = "goto" /\ s.l \notin A.seen ->
             [A EXCEPT !.pending = @ \cup {[l |-> s.l, names |-> {t.x : t \in Visible(A)}]}]
      [] s.stmt = "function" -> AnalyseFunction(p, A, s)
      [] OTHER -> A
Analyse(p, A, s) == AfterOperand(p, Uses(p, A, Operand(s), Required(p, A, s)), s)

AnalyseBody(p, A, body) ==
    IF body = <<>> THEN A ELSE AnalyseBody(p, Analyse(p, A, Head(body)), Tail(body))

\* Labels and functions are collected first; two functions of a name differ in their types.
Types(f) == [i \in 1 .. Len(f.params) |-> f.params[i].type]
Collected(p) ==
    [ok |-> /\ DistinctLabels(p)
            /\ \A i, j \in 1 .. Len(p) :
                   (/\ p[i].stmt = "function" /\ p[j].stmt = "function" /\ p[i].x = p[j].x
                    /\ Types(p[i]) = Types(p[j])) => i = j,
     fn |-> Main, seen |-> {}, pending |-> {}, defined |-> {}, resolved |-> {},
     labels |-> LabelsOf(p),
     scopes |-> <<{Symbol(f.x, "function", "Value") : f \in Functions(p)}>>]

Assigning(A, s) == IF s.stmt \in {"assign", "new"} THEN [A EXCEPT !.defined = @ \cup {s.x}] ELSE A
AnalyseGlobal(p, A, s) == Assigning(Analyse(p, A, s), s)

\* No function calls itself, also through others; all the overloads of a name are one.
NotRecursive(p, resolved) ==
    LET called[names \in SUBSET {f.x : f \in Functions(p)}] ==
            LET more == names \cup {r[3].x : r \in {q \in resolved : q[1].x \in names}}
            IN  IF more = names THEN names ELSE called[more]
        CallsOf(x) == {r[3].x : r \in {q \in resolved : q[1].x = x}}
    IN  \A f \in Functions(p) : f.x \notin called[CallsOf(f.x)]

Accepted(p, A) ==
    A.ok /\ NotRecursive(p, A.resolved) /\ \E s \in OfKind("assign", p) : s.x = "RESULT"

================================================================================
