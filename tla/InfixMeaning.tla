----------------------------- MODULE InfixMeaning -----------------------------
(***************************************************************************)
(* What an infix program means: an interpreter that calls functions, with  *)
(* fresh variables for every call, instead of copying their bodies.  It    *)
(* follows docs/infix.md and not the code generator.                       *)
(*                                                                         *)
(* A run is [values, arrays, made, fuel, ok]: what variables and arrays    *)
(* hold, by location; the calls so far; the jumps and iterations that are  *)
(* left; ok is FALSE once something undefined was read or the fuel is out. *)
(* A frame is [fn, instance, constants, arrays].                           *)
(***************************************************************************)
EXTENDS InfixCodegen

CONSTANTS Modulus,  \* the numbers are those below it
          Samples,  \* Samples[clip][offset]: the pixels a program reads
          Fuel      \* bounds what the interpreter follows

Start == [values |-> <<>>, arrays |-> <<>>, made |-> 0, fuel |-> Fuel, ok |-> TRUE]
MainFrame == [fn |-> Main, instance |-> 0, constants |-> <<>>, arrays |-> <<>>]

Own(f) == Assigned(f) \cup {f.params[i].x : i \in OfType(f, {"Value"})}
Location(F, x) ==
    IF x \in DOMAIN F.arrays THEN F.arrays[x]
    ELSE IF x \in Own(F.fn) THEN <<F.instance, x>> ELSE <<0, x>>

Wild(S) == [S EXCEPT !.ok = FALSE]
Value(v, S) == [v |-> v, S |-> S]
Held(store, l, S) == IF l \in DOMAIN store THEN Value(store[l], S) ELSE Value(0, Wild(S))

Outcome(how, what, S) == [how |-> how, what |-> what, S |-> S]
Continue(S) == Outcome("next", 0, S)
\* A jump or an iteration uses fuel; without any the program stops.
Burn(S) == IF S.fuel = 0 THEN Wild(S) ELSE [S EXCEPT !.fuel = @ - 1]

Smallest(values, n) == SortSeq(values, LAMBDA a, b : a < b)[n]

RECURSIVE Eval(_, _, _, _), Run(_, _, _, _, _), RunStatement(_, _, _, _, _)

\* The values of some expressions, from left to right.
EvalAll(R, F, S, args) ==
    LET after[i \in 0 .. Len(args)] ==
            IF i = 0 THEN [v |-> <<>>, S |-> S]
            ELSE LET before == after[i - 1]
                     one == Eval(R, F, before.S, args[i])
                 IN  [v |-> Append(before.v, one.v), S |-> one.S]
    IN  after[Len(args)]

Constant(F, a) == IF a.expr = "variable" THEN F.constants[a.x] ELSE a
\* The frame of a call of f with args, where `given' is what the Value arguments came to.
FrameOf(F, f, args, instance) ==
    [fn |-> f, instance |-> instance,
     constants |-> [x \in {f.params[i].x : i \in OfType(f, {"Clip", "Literal"})} |->
                       Constant(F, args[ParamIndex(f, x)])],
     arrays |-> [x \in {f.params[i].x : i \in OfType(f, {"Array"})} |-> Location(F, args[ParamIndex(f, x)].x)]]
Bound(f, given, instance) ==
    [given.S EXCEPT !.made = instance,
                    !.values = [l \in {<<instance, f.params[i].x>> : i \in OfType(f, {"Value"})} |->
                                   given.v[ParamIndex(f, l[2])]] @@ @]
Invoke(R, F, f, args, given) ==
    Run(R, FrameOf(F, f, args, given.S.made + 1), Bound(f, given, given.S.made + 1), f.body, "")
Returned(f, end) ==
    IF end.how = "return" THEN Value(end.what, end.S)
    ELSE Value(0, IF ReturnsValue(f) THEN Wild(end.S) ELSE end.S)
CallOf(R, F, S, f, args) ==
    Returned(f, Invoke(R, F, f, args,
        EvalAll(R, F, S, [i \in 1 .. Len(args) |-> IF i \in OfType(f, {"Value"}) THEN args[i] ELSE NumberExpr(0)])))
Call(R, F, S, e) == CallOf(R, F, S, Resolved(R, F, e), e.args)

Eval(R, F, S, e) ==
    CASE e.expr = "none" -> Value(0, S)
      [] e.expr = "number" -> Value(e.n % Modulus, S)
      [] e.expr = "clip" -> Value(Samples[e.x][0], S)
      [] e.expr = "variable" ->
             IF e.x \in DOMAIN F.constants /\ <<F.instance, e.x>> \notin DOMAIN S.values
             THEN Eval(R, F, S, F.constants[e.x]) ELSE Held(S.values, Location(F, e.x), S)
      [] e.expr = "pixel" ->
             Value(Samples[IF e.clip.x \in DOMAIN F.constants THEN F.constants[e.clip.x].x ELSE e.clip.x][1], S)
      [] e.expr = "element" -> Held(S.arrays, Location(F, e.x), S)
      [] e.expr = "binary" ->
             LET both == EvalAll(R, F, S, <<e.l, e.r>>) IN Value((both.v[1] - both.v[2]) % Modulus, both.S)
      [] e.expr = "nth" ->
             LET all == EvalAll(R, F, S, e.args) IN Value(Smallest(all.v, e.n), all.S)
      [] e.expr = "call" -> Call(R, F, S, e)

\* The statements of a body from label l on, from its beginning if l is "".
RunFrom(R, F, S, body, l) ==
    LET Has(s) == l \in LabelsOf(Within(<<s>>))
        step(o, s) ==
            IF (o.how = "seek" /\ ~Has(s)) \/ o.how \notin {"seek", "next"} THEN o
            ELSE RunStatement(R, F, o.S, s, IF o.how = "seek" THEN l ELSE "")
    IN  FoldLeft(step, Outcome(IF l = "" THEN "next" ELSE "seek", 0, S), body)
Jumped(R, F, o, body) ==
    IF ~o.S.ok THEN Outcome("stop", 0, o.S)
    ELSE IF o.how = "goto" /\ o.what \in LabelsOf(Within(body)) THEN Run(R, F, Burn(o.S), body, o.what)
    ELSE o
Run(R, F, S, body, l) == Jumped(R, F, RunFrom(R, F, S, body, l), body)

\* The value of a statement's expression.  A statement that l is in is entered there.
OperandValue(R, F, S, s, l) ==
    CASE l # "" /\ s.stmt = "if" -> Value(IF l \in LabelsOf(Within(s.then)) THEN 1 ELSE 0, S)
      [] l # "" /\ s.stmt = "while" -> Value(1, S)
      [] OTHER -> Eval(R, F, S, Operand(s))
Again(R, F, s, o) == IF o.how = "next" THEN RunStatement(R, F, o.S, s, "") ELSE o
Execute(R, F, e, s, l) ==
    CASE s.stmt = "assign" -> Continue([e.S EXCEPT !.values = (Location(F, s.x) :> e.v) @@ @])
      [] s.stmt = "element" -> Continue([e.S EXCEPT !.arrays = (Location(F, s.x) :> e.v) @@ @])
      [] s.stmt = "if" -> Run(R, F, e.S, IF e.v # 0 THEN s.then ELSE s.else, l)
      [] s.stmt = "while" /\ e.v # 0 -> Again(R, F, s, Run(R, F, Burn(e.S), s.body, l))
      [] s.stmt = "return" -> Outcome("return", e.v, e.S)
      [] s.stmt = "goto" -> Outcome("goto", s.l, e.S)
      [] OTHER -> Continue(e.S)
RunStatement(R, F, S, s, l) ==
    IF ~S.ok THEN Outcome("stop", 0, S) ELSE Execute(R, F, OperandValue(R, F, S, s, l), s, l)

\* What a program leaves in RESULT, if that is defined.
Meaning(R, p) ==
    LET S == Run(R, MainFrame, Start, p, "").S IN Held(S.values, <<0, "RESULT">>, S)

================================================================================
