--------------------------------- MODULE Infix ---------------------------------
(***************************************************************************)
(* A text in the infix language from the parser to its result: it is       *)
(* analysed statement by statement, generated statement by statement, and  *)
(* what was generated is run if the postfix compiler takes it.             *)
(***************************************************************************)
EXTENDS InfixMeaning

CONSTANT Programs  \* the programs that are translated

VARIABLES
    program,   \* the statements of the text
    phase,     \* "analysing", "rejected", "generating", "refused", "running", "finished"
    done,      \* the top-level statements that the phase is through with
    analysis,  \* what SemanticAnalyzer knows
    generated, \* what CodeGenerator has written
    machine,   \* the postfix program at work: [pc, stack, values, arrays]
    meaning    \* what InfixMeaning says of the program, for the properties only

vars == <<program, phase, done, analysis, generated, machine, meaning>>

Idle == [pc |-> 1, stack |-> <<>>, values |-> <<>>, arrays |-> <<>>]

Init ==
    /\ program \in Programs
    /\ phase = "analysing" /\ done = 0
    /\ analysis = Collected(program)
    /\ generated = Nothing
    /\ machine = Idle
    /\ meaning = [v |-> 0, defined |-> FALSE]

AnalyseStatement ==
    /\ phase = "analysing" /\ done < Len(program)
    /\ analysis' = AnalyseGlobal(program, analysis, program[done + 1])
    /\ done' = done + 1
    /\ UNCHANGED <<program, phase, generated, machine, meaning>>

\* What errors there were is only looked at here.
Conclude ==
    /\ phase = "analysing" /\ done = Len(program)
    /\ phase' = IF Accepted(program, analysis) THEN "generating" ELSE "rejected"
    /\ done' = 0
    /\ UNCHANGED <<program, analysis, generated, machine, meaning>>

GenerateStatement ==
    /\ phase = "generating" /\ done < Len(program)
    /\ generated' = Statement(analysis.resolved, AtTop, generated, program[done + 1])
    /\ done' = done + 1
    /\ UNCHANGED <<program, phase, analysis, machine, meaning>>

-------------------------------------------------------------------------------
(* What the postfix compiler requires *)

\* The depth before token i.  Jumps may always fall through, so the text decides it.
Depths(code) ==
    LET depth[i \in 1 .. Len(code) + 1] ==
            IF i = 1 THEN 0 ELSE LET before == depth[i - 1] IN before + code[i - 1].effect
    IN  depth
Balanced(code) ==
    LET depth == Depths(code)
    IN  /\ \A i \in 1 .. Len(code) :
              /\ depth[i] >= code[i].arity
              /\ code[i].kind = "jump" => depth[TargetOf(code, i)] = depth[i + 1]
        /\ depth[Len(code) + 1] = 1

\* The variables that some path loads and does not store before.
Unset(code) ==
    {x \in {code[i].name : i \in {k \in 1 .. Len(code) : code[k].kind = "var_load"}} :
        LET Of(kind) == {i \in 1 .. Len(code) : code[i].kind = kind /\ code[i].name = x}
        IN  ReachableFrom(code, {1}, Of("var_store")) \cap Of("var_load") # {}}

LabelsFit(code) == ~DuplicateLabel(code) /\ ~UndefinedLabel(code)
Compiles(code) ==
    LabelsFit(code) /\ Balanced(code) /\ Unset(code) = {} /\ Initialised(code) /\ AllocatedOnce(code)

Defined(m) == [v |-> m.v, defined |-> m.S.ok]
\* The result is loaded last; then the postfix compiler sees the text.
Finish ==
    /\ phase = "generating" /\ done = Len(program)
    /\ generated' = Emit(generated, <<VarLoad(Name(AtTop, "RESULT"))>>)
    /\ phase' = IF Compiles(generated'.code) THEN "running" ELSE "refused"
    /\ meaning' = Defined(Meaning(analysis.resolved, program))
    /\ UNCHANGED <<program, done, analysis, machine>>

-------------------------------------------------------------------------------
(* The postfix program at work *)

Under(s, n) == SubSeq(s, 1, Len(s) - n)
Top(s) == s[Len(s)]
\* What a token that is no jump leaves on stack s.
AfterToken(t, s) ==
    CASE t.kind = "num" -> Append(s, t.value % Modulus)
      [] t.kind = "pixel" -> Append(s, Samples[t.name][t.value])
      [] t.kind = "var_load" -> Append(s, machine.values[t.name])
      [] t.kind = "load" -> Append(s, IF t.name \in DOMAIN machine.arrays THEN machine.arrays[t.name] ELSE 0)
      [] t.kind \in {"var_store", "store"} -> Under(s, 1)
      [] t.kind = "sub" -> Append(Under(s, 2), (s[Len(s) - 1] - Top(s)) % Modulus)
      [] t.kind = "eq" -> Append(Under(s, 2), IF s[Len(s) - 1] = Top(s) THEN 1 ELSE 0)
      [] t.kind = "drop" -> Under(s, t.value)
      [] t.kind = "swap" -> [s EXCEPT ![Len(s)] = s[Len(s) - t.value], ![Len(s) - t.value] = Top(s)]
      [] t.kind = "sort" ->
             Under(s, t.value) \o SortSeq(SubSeq(s, Len(s) - t.value + 1, Len(s)), LAMBDA a, b : a > b)
      [] t.kind \in {"label", "alloc_static"} -> s

Step ==
    /\ phase = "running" /\ machine.pc <= Len(generated.code)
    /\ LET t == generated.code[machine.pc]
           s == machine.stack
       IN  machine' =
             CASE t.kind = "jump" ->
                    [machine EXCEPT !.stack = Under(s, 1),
                                    !.pc = IF Top(s) # 0 THEN TargetOf(generated.code, @) ELSE @ + 1]
               [] t.kind = "var_store" ->
                    [machine EXCEPT !.stack = Under(s, 1), !.pc = @ + 1, !.values = (t.name :> Top(s)) @@ @]
               [] t.kind = "store" ->
                    [machine EXCEPT !.stack = Under(s, 1), !.pc = @ + 1, !.arrays = (t.name :> Top(s)) @@ @]
               [] OTHER -> [machine EXCEPT !.stack = AfterToken(t, s), !.pc = @ + 1]
    /\ UNCHANGED <<program, phase, done, analysis, generated, meaning>>

End ==
    /\ phase = "running" /\ machine.pc > Len(generated.code)
    /\ phase' = "finished"
    /\ UNCHANGED <<program, done, analysis, generated, machine, meaning>>

Next == AnalyseStatement \/ Conclude \/ GenerateStatement \/ Finish \/ Step \/ End

\* The postfix program is sequential and waits for nothing.
Spec == Init /\ [][Next]_vars /\ WF_vars(Step \/ End)

-------------------------------------------------------------------------------
(* Properties *)

\* Calls in functions, in arguments and in elements are not asked for their globals.
GlobalsUnasked(p, x) ==
    \E r \in analysis.resolved :
        /\ x \in r[3].globals
        /\ \/ r[1] # Main
           \/ \E s \in OfKind("element", Within(p)) : r[2] \in CallsIn(s.e)
           \/ \E q \in analysis.resolved : r[2] # q[2] /\ r[2] \in CallsIn(q[2])
           \/ \E s \in OfKind("assign", Within(p)) : s.e.expr = "nth" /\ r[2] \in CallsIn(s.e)
\* A jump into a block from outside.
EntersBlock(f) ==
    \E s \in Items(Within(f.body)) : s.stmt \in {"if", "while"} /\
        LET inside == IF s.stmt = "if" THEN Within(s.then) \o Within(s.else) ELSE Within(s.body)
            Gotos(body) == Len(SelectSeq(body, LAMBDA t : t.stmt = "goto" /\ t.l \in LabelsOf(inside)))
        IN  Gotos(Within(f.body)) > Gotos(inside)
\* What SemanticAnalyzer lets pass: in a function, a jump backwards into a block, a jump
\* over the return, a variable of its own with the name of a global it declares; at the
\* top, a global that a call needs too early.
LetPass(p, x) ==
    \/ x[1] = "" /\ GlobalsUnasked(p, x[3])
    \/ \E f \in Functions(p) :
          /\ x[1] = f.x
          /\ \/ EntersBlock(f)
             \/ x[3] = "return" /\ OfKind("goto", Within(f.body)) # {}
             \/ x[3] \in f.globals
ReturnsNothing(f) ==
    \E r \in analysis.resolved : r[1] = f /\ ~ReturnsValue(r[3]) /\ ReturnStmt(r[2]) \in Items(Within(f.body))

\* What SemanticAnalyzer accepts, the postfix compiler takes: the labels are there once, the
\* stack is balanced and ends with one value, and nothing is read that some path leaves
\* unset but for what SemanticAnalyzer lets pass; labels in blocks at the top are not
\* looked at, a function may return a call that has no value, and an array may be
\* allocated in a loop.
AcceptedIsValid ==
    phase = "refused" =>
        LET code == generated.code
        IN  \/ ~LabelsFit(code) /\ ~DistinctLabels(Within(program))
            \/ ~Balanced(code) /\ \E f \in Functions(program) : ReturnsNothing(f)
            \/ Unset(code) # {} /\ \A x \in Unset(code) : LetPass(program, x)
            \/ ~AllocatedOnce(code)

\* A parameter put in place of its uses keeps its first value, whatever is assigned to it.
AssignsConstant(f) == \E i \in OfType(f, {"Clip", "Literal"}) : f.params[i].x \in Assigned(f)

\* Copying the bodies of functions, with their variables made static, changes nothing: where
\* the meaning of the infix program is defined, the postfix program ends, and leaves it.
InliningKeepsMeaning ==
    (phase = "running" /\ meaning.defined /\ \A r \in analysis.resolved : ~AssignsConstant(r[3]))
        ~> (phase = "finished" /\ machine.stack = <<meaning.v>>)

================================================================================
