--------------------------- MODULE ScriptControl ---------------------------
(***************************************************************************)
(* How the script engine runs statements: eval_expr and its helpers in     *)
(* src/src/javascript.rs.  The engine is a recursive function, so it is    *)
(* one here: Eval takes a syntax tree, an environment and the state of the *)
(* context, and returns the new state and a value.  `return', `throw',     *)
(* `break' and `continue' are values too, signals that the statement lists *)
(* look for; a Rust error is a value of kind "error" that `?' passes on.   *)
(*                                                                         *)
(* The trees are those of ScriptParser.  Values are texts,                 *)
(* functions and promises; a call of `note' stands for every call that the *)
(* page can observe.                                                       *)
(*                                                                         *)
(* The reference is a stack machine for the language: what remains to be   *)
(* done is a list of frames, and a completion that is not normal takes     *)
(* frames off until one handles it.  Both must note the same calls and end *)
(* in the same way, but for the scripts that meet one of three places      *)
(* where the engine leaves the language; the machine notes those (`met').  *)
(***************************************************************************)
EXTENDS Integers, Sequences, FiniteSets

CONSTANTS
    MaxSteps,       \* MAX_EVAL_STEPS, the budget of one script
    MaxCallDepth,   \* MAX_CALL_DEPTH
    MaxIterations,  \* the 10,000 rounds a loop may make
    Programs        \* the sequences of statements to run

ControlAssumption == MaxSteps \in Nat /\ MaxCallDepth \in Nat /\ MaxIterations \in Nat

VARIABLES
    program,  \* the script
    ended     \* what it noted and whether it failed, as a sequence of one; empty until it has run

vars == <<program, ended>>

N(k, s, c) == [k |-> k, s |-> s, c |-> c]
Leaf(k, s) == N(k, s, <<>>)

\* A value: its kind, its text, and for a function or a signal what it carries.
Val(t, x, of) == [t |-> t, x |-> x, of |-> of]
Plain(x) == Val("value", x, <<>>)
Undefined == Plain("undefined")
Signal(t, v) == Val(t, "", <<v>>)
Carried(v) == v.of[1]
Error == Val("error", "", <<>>)
IsAbrupt(v) == v.t \in {"return", "throw", "break", "continue"}
IsTruthy(v) == v.t # "value" \/ v.x \notin {"0", "undefined"}
Not(v) == Plain(IF IsTruthy(v) THEN "0" ELSE "1")

Names == {"x", "y", "f", "g"}

-----------------------------------------------------------------------------
(***************************************************************************)
(* Environments: records in a heap, each with a parent; number 1 is the    *)
(* global one.  A closure keeps the record itself.                         *)
(***************************************************************************)
NoBinding == [bound |-> FALSE, mutable |-> TRUE, v |-> Undefined]
EmptyRecord(parent) == [parent |-> parent, names |-> [n \in Names |-> NoBinding]]

WithParent(s, e) ==
    [s |-> [s EXCEPT !.records = Append(@, EmptyRecord(e))], e |-> Len(s.records) + 1]

RECURSIVE Holder(_, _, _)
Holder(s, e, name) ==
    IF e = 0 \/ s.records[e].names[name].bound THEN e
    ELSE Holder(s, s.records[e].parent, name)

Define(s, e, name, v, mutable) ==
    [s EXCEPT !.records[e].names[name] = [bound |-> TRUE, mutable |-> mutable, v |-> v]]

Result(s, v) == [s |-> s, v |-> v]
Failed(s) == Result(s, Error)

\* The `?' of the source.
Then(r, F(_)) == IF r.v.t = "error" THEN r ELSE F(r)

Get(s, e, name) ==
    LET h == Holder(s, e, name) IN
    IF h = 0 THEN Failed(s) ELSE Result(s, s.records[h].names[name].v)

Declare(s, e, name, v, kind) ==
    IF kind # "var" /\ s.records[e].names[name].bound THEN Failed(s)
    ELSE Result(Define(s, e, name, v, kind # "const"), v)

\* An assignment to a name that is bound nowhere declares it where it stands.
Assign(s, e, name, v) ==
    LET h == Holder(s, e, name) IN
    IF h = 0 THEN Result(Define(s, e, name, v, TRUE), v)
    ELSE IF ~s.records[h].names[name].mutable THEN Failed(s)
    ELSE Result([s EXCEPT !.records[h].names[name].v = v], v)

-----------------------------------------------------------------------------
Deeper(s) == [s EXCEPT !.depth = @ + 1]
Shallower(s) == [s EXCEPT !.depth = @ - 1]

\* What a call's completion is worth to its caller.
CallResult(r) ==
    CASE r.v.t = "return" -> Result(r.s, Carried(r.v))
      [] r.v.t \in {"break", "continue"} -> Failed(r.s)
      [] OTHER -> r

\* What the body of an async function leaves behind: a promise, settled already.
Settled(v) ==
    CASE v.t = "return" /\ Carried(v).t \in {"fulfilled", "rejected"} -> Carried(v)
      [] v.t = "return" /\ Carried(v).t \notin {"fulfilled", "rejected"} ->
            Signal("fulfilled", Carried(v))
      [] v.t = "throw" -> Signal("rejected", Carried(v))
      [] v.t \in {"break", "continue", "error"} -> Signal("rejected", Undefined)
      [] OTHER -> Signal("fulfilled", v)

\* EvalCtx::step: what a round of some loops costs.
Step(s) ==
    LET now == [s EXCEPT !.steps = @ + 1] IN
    IF now.steps > MaxSteps THEN Failed(now) ELSE Result(now, Undefined)

RECURSIVE Eval(_, _, _), List(_, _, _, _), WhileStep(_, _, _, _, _, _),
          DoWhileStep(_, _, _, _, _), ForStep(_, _, _, _, _, _), ForInStep(_, _, _, _, _, _),
          Select(_, _, _, _, _, _)

\* eval_statement_list: a scope of its own; the first signal ends it.
StatementList(n, e, s) ==
    LET w == WithParent(s, e) IN List(n.c, w.e, w.s, Undefined)

List(stmts, e, s, result) ==
    IF stmts = <<>> THEN Result(s, result)
    ELSE Then(Eval(stmts[1], e, s), LAMBDA r :
             IF IsAbrupt(r.v) THEN r ELSE List(Tail(stmts), e, r.s, r.v))

\* call_function: the depth is given back on every path.
CallFunction(fn, s) ==
    IF s.depth + 1 > MaxCallDepth THEN Failed(s)
    ELSE IF fn.t # "function" THEN Failed(s)
    ELSE LET w == WithParent(Deeper(s), Carried(fn).e)
             body == Eval(Carried(fn).body, w.e,
                          Define(w.s, w.e, Carried(fn).name, fn, TRUE))
             r == IF Carried(fn).async THEN Result(body.s, Settled(body.v)) ELSE body
         IN  Result(Shallower(r.s), r.v)

Call(n, e, s) ==
    IF n.s = "note" THEN Result([s EXCEPT !.notes = Append(@, n.c[1].s)], Plain(n.c[1].s))
    ELSE Then(Get(s, e, n.s), LAMBDA r : CallResult(CallFunction(r.v, r.s)))

Await(n, e, s) ==
    Then(Eval(n.c[1], e, s), LAMBDA r :
        CASE r.v.t = "fulfilled" -> Result(r.s, Carried(r.v))
          [] r.v.t = "rejected" -> Result(r.s, Signal("throw", Carried(r.v)))
          [] OTHER -> r)

\* The condition of `if' and `while' counts as a level while it is evaluated.
Guarded(n, e, s, F(_)) ==
    IF s.depth + 1 > MaxCallDepth THEN Failed(Deeper(s))
    ELSE Then(Eval(n, e, Deeper(s)), LAMBDA r : F(Result(Shallower(r.s), r.v)))

If(n, e, s) ==
    Guarded(n.c[1], e, s, LAMBDA r :
        IF IsTruthy(r.v) THEN StatementList(n.c[2], e, r.s)
        ELSE IF Len(n.c) = 3 THEN StatementList(n.c[3], e, r.s)
        ELSE Result(r.s, Undefined))

\* Mutant: an error in the body leaves the level of the loop behind.
LeaveBodyOnSuccess(r) == IF r.v.t = "error" THEN r ELSE Result(Shallower(r.s), r.v)

\* The level of a loop's body is given back, whether the body fails or not.
LeaveBody(r) == Result(Shallower(r.s), r.v)

\* One round of `while': n.c[1] is the condition, n.c[2] the body.
WhileStep(n, e, s, result, rounds, condition) ==
    IF ~IsTruthy(condition) THEN Result(s, result)
    ELSE IF s.depth + 1 > MaxCallDepth THEN Failed(s)
    ELSE LET w == WithParent(Deeper(s), e) IN
         Then(LeaveBody(StatementList(n.c[2], w.e, w.s)), LAMBDA r :
             CASE r.v.t = "break" -> Result(r.s, result)
               [] r.v.t \in {"return", "throw"} -> r
               [] OTHER ->
                    IF rounds + 1 > MaxIterations THEN Failed(r.s)
                    ELSE Then(Eval(n.c[1], e, r.s), LAMBDA c :
                             WhileStep(n, e, c.s, IF r.v.t = "continue" THEN result ELSE r.v,
                                       rounds + 1, c.v)))

DoWhileStep(n, e, s, result, rounds) ==
    Then(StatementList(n.c[2], e, s), LAMBDA r :
        CASE r.v.t = "break" -> Result(r.s, result)
          [] r.v.t \in {"return", "throw"} -> r
          [] OTHER ->
               LET now == IF r.v.t = "continue" THEN result ELSE r.v IN
               Then(Eval(n.c[1], e, r.s), LAMBDA c :
                   IF ~IsTruthy(c.v) THEN Result(c.s, now)
                   ELSE IF rounds + 1 > MaxIterations THEN Failed(c.s)
                   ELSE Then(Step(c.s), LAMBDA t : DoWhileStep(n, e, t.s, now, rounds + 1))))

\* The array literal that a loop runs over: itself and its elements cost a step each.
Array(n, s) ==
    LET now == [s EXCEPT !.steps = @ + 1 + Len(n.c)] IN
    IF now.steps > MaxSteps THEN Failed(now) ELSE Result(now, Undefined)

\* `for ... of' over the values of an array literal.
ForStep(n, e, s, values, i, result) ==
    IF i > Len(values) THEN Result(s, result)
    ELSE LET w == WithParent(s, e) IN
         Then(Declare(w.s, w.e, n.c[1].s, Plain(values[i].s), n.s), LAMBDA b :
             Then(StatementList(n.c[3], w.e, b.s), LAMBDA r :
                 CASE r.v.t = "break" -> Result(r.s, result)
                   [] r.v.t \in {"return", "throw"} -> r
                   [] r.v.t = "continue" -> ForStep(n, e, r.s, values, i + 1, result)
                   [] OTHER -> ForStep(n, e, r.s, values, i + 1, r.v)))

\* `for ... in' over the keys of an array literal: `var' binds outside of the round.
Keys(n) == [i \in 1..Len(n.c) |-> <<"0", "1", "2", "3">>[i]]

ForInStep(n, e, s, keys, i, result) ==
    IF i > Len(keys) THEN Result(s, result)
    ELSE LET w == WithParent(s, e)
             bound == IF n.s = "var" THEN Assign(w.s, e, n.c[1].s, Plain(keys[i]))
                      ELSE Declare(w.s, w.e, n.c[1].s, Plain(keys[i]), n.s)
         IN  Then(bound, LAMBDA b :
             Then(StatementList(n.c[3], IF n.s = "var" THEN e ELSE w.e, b.s), LAMBDA r :
                 CASE r.v.t = "break" -> Result(r.s, result)
                   [] r.v.t \in {"return", "throw"} -> r
                   [] r.v.t = "continue" -> ForInStep(n, e, r.s, keys, i + 1, result)
                   [] OTHER -> Then(Step(r.s), LAMBDA t : ForInStep(n, e, t.s, keys, i + 1, r.v))))

\* The cases of a switch from the i-th on; one that matched falls through.  The default clause
\* stands apart from them, wherever it was written: it runs when no case matched.
Select(n, e, s, i, matched, v) ==
    LET default == {j \in 2..Len(n.c) : n.c[j].k = "Default"}
        Chosen(body, r, last) ==
            Then(StatementList(body, e, r.s), LAMBDA q :
                CASE q.v.t = "break" -> Result(q.s, Undefined)
                  [] q.v.t \in {"return", "throw", "continue"} \/ last -> q
                  [] OTHER -> Select(n, e, q.s, i + 1, TRUE, v))
    IN  CASE i > Len(n.c) ->
                IF matched \/ default = {} THEN Result(s, Undefined)
                ELSE Chosen(n.c[CHOOSE j \in default : TRUE].c[1], Result(s, v), TRUE)
          [] i \in default -> Select(n, e, s, i + 1, matched, v)
          [] i \in 2..Len(n.c) \ default ->
                IF matched THEN Chosen(n.c[i].c[2], Result(s, v), FALSE)
                ELSE Then(Eval(n.c[i].c[1], e, s), LAMBDA c :
                         IF c.v = v THEN Chosen(n.c[i].c[2], c, FALSE)
                         ELSE Select(n, e, c.s, i + 1, FALSE, v))

\* An error becomes a throw at the edge of a try, catch or finally body.
AsThrow(r) == IF r.v.t = "error" THEN Result(r.s, Signal("throw", Undefined)) ELSE r

\* What a finally body ends with wins when it is abrupt.
Outcome(outcome, final) == Result(final.s, IF IsAbrupt(final.v) THEN final.v ELSE outcome)

Try(n, e, s) ==
    LET tried == WithParent(s, e)
        body == AsThrow(StatementList(n.c[1], tried.e, tried.s))
        Catch(r) ==
            LET w == WithParent(r.s, e) IN
            AsThrow(StatementList(n.c[2].c[1], w.e,
                                  Define(w.s, w.e, n.c[2].s, Carried(r.v), TRUE)))
        caught == IF body.v.t = "throw" /\ n.c[2].k = "Catch" THEN Catch(body) ELSE body
        Finally(r) ==
            LET w == WithParent(r.s, e) IN AsThrow(StatementList(n.c[3], w.e, w.s))
    IN  IF n.c[3].c = <<>> THEN caught ELSE Outcome(caught.v, Finally(caught))

Closure(n, e) ==
    Val("function", n.s,
        <<[name |-> n.s, body |-> n.c[1], e |-> e, async |-> n.k = "AsyncFunctionDef"]>>)

\* eval_expr: the budget first, then one case for each construct.
Eval(n, e, before) ==
    LET s == [before EXCEPT !.steps = @ + 1] IN
    IF s.steps > MaxSteps THEN Failed(s)
    ELSE CASE n.k = "Number" -> Result(s, Plain(n.s))
           [] n.k = "Identifier" -> Get(s, e, n.s)
           [] n.k = "Assignment" ->
                Then(Eval(n.c[1], e, s), LAMBDA r : Assign(r.s, e, n.s, r.v))
           [] n.k = "Declaration" ->
                Then(Eval(n.c[2], e, s), LAMBDA r : Declare(r.s, e, n.c[1].s, r.v, n.s))
           [] n.k = "Call" -> Call(n, e, s)
           [] n.k = "Await" -> Await(n, e, s)
           [] n.k = "Unary" -> Then(Eval(n.c[1], e, s), LAMBDA r : Result(r.s, Not(r.v)))
           [] n.k = "Binary" ->
                Then(Eval(n.c[1], e, s), LAMBDA l :
                    IF IsTruthy(l.v) = (n.s = "||") THEN l ELSE Eval(n.c[2], e, l.s))
           [] n.k = "Ternary" ->
                Then(Eval(n.c[1], e, s), LAMBDA r : Eval(n.c[IF IsTruthy(r.v) THEN 2 ELSE 3], e, r.s))
           [] n.k = "If" -> If(n, e, s)
           [] n.k = "While" ->
                Guarded(n.c[1], e, s, LAMBDA r : WhileStep(n, e, r.s, Undefined, 0, r.v))
           [] n.k = "DoWhile" -> DoWhileStep(n, e, s, Undefined, 0)
           [] n.k = "ForOf" -> Then(Array(n.c[2], s), LAMBDA r : ForStep(n, e, r.s, n.c[2].c, 1, Undefined))
           [] n.k = "ForIn" -> Then(Array(n.c[2], s), LAMBDA r : ForInStep(n, e, r.s, Keys(n.c[2]), 1, Undefined))
           [] n.k = "Switch" ->
                Then(Eval(n.c[1], e, s), LAMBDA r : Select(n, e, r.s, 2, FALSE, r.v))
           [] n.k = "Block" -> StatementList(n, e, s)
           [] n.k = "Try" -> Try(n, e, s)
           [] n.k \in {"FunctionDef", "AsyncFunctionDef"} ->
                Result(Define(s, e, n.s, Closure(n, e), TRUE), Closure(n, e))
           [] n.k = "Return" -> Then(Eval(n.c[1], e, s), LAMBDA r : Result(r.s, Signal("return", r.v)))
           [] n.k = "Throw" -> Then(Eval(n.c[1], e, s), LAMBDA r : Result(r.s, Signal("throw", r.v)))
           [] n.k = "Break" -> Result(s, Signal("break", Undefined))
           [] n.k = "Continue" -> Result(s, Signal("continue", Undefined))

Fresh == [steps |-> 0, depth |-> 0, notes |-> <<>>, records |-> <<EmptyRecord(0)>>]

\* What a script ends with: a signal that reaches the top is an error, but for `return'.
Top(r) ==
    CASE r.v.t = "return" -> Result(r.s, Carried(r.v))
      [] r.v.t \in {"throw", "break", "continue"} -> Failed(r.s)
      [] OTHER -> r

RECURSIVE RunAll(_, _, _)
RunAll(stmts, s, result) ==
    IF stmts = <<>> THEN Result(s, result)
    ELSE Then(Eval(stmts[1], 1, s), LAMBDA r :
             IF IsAbrupt(r.v) THEN r ELSE RunAll(Tail(stmts), r.s, r.v))

Evaluate(stmts) == Top(RunAll(stmts, Fresh, Undefined))

-----------------------------------------------------------------------------
(***************************************************************************)
(* The reference.  A configuration is the list of what remains to be done, *)
(* innermost first, and either the node to evaluate next or the completion *)
(* of the last one.  A frame keeps the node it belongs to, its environment *)
(* and a number.  An error ends what a throw ends, and the depth is a      *)
(* count of frames.                                                        *)
(***************************************************************************)
Frame(k, n, e, i) == [k |-> k, n |-> n, e |-> e, i |-> i]
Ends(v) == IsAbrupt(v) \/ v.t = "error"
AsThrown(v) == IF v.t = "error" THEN Signal("throw", Undefined) ELSE v

Levels(c) == Cardinality({i \in DOMAIN c.stack : c.stack[i].k \in {"call", "round", "test"}})

Going(c, n, e) == [c EXCEPT !.node = <<n>>, !.e = e]
Done(c, v) == [c EXCEPT !.node = <<>>, !.v = v]
Push(c, f) == [c EXCEPT !.stack = <<f>> \o @]
With(c, f, n) == Going(Push(c, f), n, f.e)
Met(c, what) == [c EXCEPT !.met = @ \cup what]
Deep(c, f, n) == IF Levels(c) + 1 > MaxCallDepth THEN Done(c, Error) ELSE With(c, f, n)

\* What an operation on the environment comes to.
Took(c, r) == Done([c EXCEPT !.s = r.s], r.v)

Tick(c) == [c EXCEPT !.s.steps = @ + 1]

\* A body in a scope of its own, with one binding or none.
InScope(c, n, e, name, v) ==
    LET w == WithParent(c.s, e)
        s == IF name = "" THEN w.s ELSE Define(w.s, w.e, name, v, TRUE)
    IN  Going([c EXCEPT !.s = s], Leaf("List", n.c), w.e)

\* The next round of a loop over values.
Round(c, n, e, i) ==
    IF i > Len(n.c[2].c) THEN Done(c, Undefined)
    ELSE LET w == WithParent(c.s, e)
             x == Plain(IF n.k = "ForOf" THEN n.c[2].c[i].s ELSE Keys(n.c[2])[i])
             outside == n.k = "ForIn" /\ n.s = "var"
             s == IF outside THEN Assign(c.s, e, n.c[1].s, x).s
                  ELSE Define(w.s, w.e, n.c[1].s, x, n.s # "const")
         IN  InScope(Push([c EXCEPT !.s = s], Frame("for", n, e, i)), n.c[3],
                     IF outside THEN e ELSE w.e, "", Undefined)

\* The statements of the i-th clause of a switch; one that ends normally falls into the next.
Clause(c, n, e, i) ==
    IF i > Len(n.c) THEN Done(c, Undefined)
    ELSE InScope(Push(c, Frame("clause", n, e, i)), n.c[i].c[Len(n.c[i].c)], e, "", Undefined)

\* The cases from the i-th on are compared with the value; the default clause, which may stand
\* anywhere, is for a value that none of them has.
Compared(c, n, e, i, v) ==
    LET cases == {j \in i..Len(n.c) : n.c[j].k = "Case"}
        default == {j \in 2..Len(n.c) : n.c[j].k = "Default"}
        next == CHOOSE j \in cases : \A k \in cases : j <= k
    IN  IF cases # {} THEN With(c, Frame("case", [n EXCEPT !.s = v], e, next), n.c[next].c[1])
        ELSE Clause(c, n, e, IF default = {} THEN Len(n.c) + 1 ELSE CHOOSE j \in default : TRUE)

Begin(c) ==
    LET n == c.node[1]
        e == c.e
        fn == Get(c.s, e, n.s).v
    IN  IF n.k = "List"
        THEN IF n.s = <<>> THEN Done(c, Undefined)
             ELSE With(c, Frame("list", Leaf("List", Tail(n.s)), e, 0), n.s[1])
        ELSE IF c.s.steps + 1 > MaxSteps THEN Done(Tick(c), Error)
        ELSE CASE n.k = "Number" -> Done(Tick(c), Plain(n.s))
          [] n.k = "Identifier" -> Took(Tick(c), Get(Tick(c).s, e, n.s))
          [] n.k \in {"Assignment", "Return", "Throw", "Await", "Unary", "Binary", "Ternary", "Switch"} ->
               With(Tick(c), Frame(n.k, n, e, 0), n.c[1])
          [] n.k = "Declaration" -> With(Tick(c), Frame(n.k, n, e, 0), n.c[2])
          [] n.k = "Call" /\ n.s = "note" ->
               Done([Tick(c) EXCEPT !.s.notes = Append(@, n.c[1].s)], Plain(n.c[1].s))
          [] n.k = "Call" /\ n.s # "note" ->
               IF fn.t # "function" THEN Done(Tick(c), Error)
               ELSE LET w == WithParent(Tick(c).s, Carried(fn).e) IN
                    Deep([Tick(c) EXCEPT !.s = Define(w.s, w.e, Carried(fn).name, fn, TRUE)],
                         Frame("call", Carried(fn), w.e, 0), Carried(fn).body)
          [] n.k \in {"If", "While"} ->
               LET d == Deep(Tick(c), Frame("test", n, e, 0), n.c[1]) IN
               IF d.node = <<>> THEN Met(d, {"condition"}) ELSE d
          [] n.k = "DoWhile" -> InScope(Push(Tick(c), Frame("do", n, e, 0)), n.c[2], e, "", Undefined)
          [] n.k \in {"ForOf", "ForIn"} ->
               LET r == Array(n.c[2], Tick(c).s) IN
               IF r.v.t = "error" THEN Took(c, r) ELSE Round([c EXCEPT !.s = r.s], n, e, 1)
          [] n.k = "Block" -> InScope(Tick(c), n, e, "", Undefined)
          [] n.k = "Try" ->
               LET f == Push(Tick(c), Frame("finally", n, e, 0))
                   t == IF n.c[2].k = "Catch" THEN Push(f, Frame("catch", n, e, 0)) ELSE f
               IN  InScope(t, n.c[1], e, "", Undefined)
          [] n.k \in {"FunctionDef", "AsyncFunctionDef"} ->
               Done([Tick(c) EXCEPT !.s = Define(@, e, n.s, Closure(n, e), TRUE)], Closure(n, e))
          [] n.k = "Break" -> Done(Tick(c), Signal("break", Undefined))
          [] n.k = "Continue" -> Done(Tick(c), Signal("continue", Undefined))

\* A loop goes on after a round that ended normally or with `continue'.
GoesOn(v) == v.t = "continue" \/ ~Ends(v)
Broken(v) == IF v.t = "break" THEN Undefined ELSE v

\* The frames of expressions that take what a throw of theirs leaves for a value.
Operands == {"Assignment", "Declaration", "Return", "Throw", "Unary", "Binary", "Ternary", "Switch",
             "case", "test", "again", "until"}

\* Where the engine leaves the language when v reaches the frame f: an error out of the condition
\* of `if' and `while' costs a level for ever, a throw out of an operand does not end the
\* expression, and no clause falls into the default clause or out of it.
Departs(f, v) ==
    CASE v.t = "error" /\ f.k = "test" -> {"condition"}
      [] v.t = "throw" /\ f.k \in Operands -> {"operand"}
      [] ~Ends(v) /\ f.k = "clause" /\ f.i < Len(f.n.c)
         /\ \E j \in {f.i, f.i + 1} : f.n.c[j].k = "Default" -> {"default"}
      [] OTHER -> {}

\* The completion c.v reaches the innermost frame.
Resume(before) ==
    LET f == before.stack[1]
        c == Met([before EXCEPT !.stack = Tail(@)], Departs(f, before.v))
        v == c.v
        n == f.n
        e == f.e
    IN  CASE f.k = "call" ->
               IF f.n.async THEN Done(c, Settled(v))
               ELSE IF v.t \in {"break", "continue"} THEN Done(c, Error)
               ELSE Done(c, IF v.t = "return" THEN Carried(v) ELSE v)
          [] f.k = "round" ->
               IF ~GoesOn(v) THEN Done(c, Broken(v))
               ELSE IF f.i + 1 > MaxIterations THEN Done(c, Error)
               ELSE With(c, Frame("again", n, e, f.i + 1), n.c[1])
          [] f.k = "do" ->
               IF ~GoesOn(v) THEN Done(c, Broken(v)) ELSE With(c, Frame("until", n, e, f.i), n.c[1])
          [] f.k = "for" ->
               IF ~GoesOn(v) THEN Done(c, Broken(v))
               ELSE IF n.k = "ForOf" \/ v.t = "continue" THEN Round(c, n, e, f.i + 1)
               ELSE IF c.s.steps + 1 > MaxSteps THEN Done(Tick(c), Error)
               ELSE Round(Tick(c), n, e, f.i + 1)
          [] f.k = "clause" ->
               IF Ends(v) THEN Done(c, Broken(v)) ELSE Clause(c, n, e, f.i + 1)
          [] f.k = "catch" ->
               IF AsThrown(v).t # "throw" THEN c
               ELSE InScope(c, n.c[2].c[1], e, n.c[2].s, Carried(AsThrown(v)))
          [] f.k = "finally" -> InScope(Push(c, Frame("after", AsThrown(v), e, 0)), n.c[3], e, "", Undefined)
          [] f.k = "after" -> IF Ends(v) THEN Done(c, AsThrown(v)) ELSE Done(c, f.n)
          [] f.k \notin {"call", "round", "do", "for", "clause", "catch", "finally", "after"}
             /\ Ends(v) -> c
          [] f.k = "list" /\ ~Ends(v) -> IF n.s = <<>> THEN c ELSE Going(c, n, e)
          [] f.k = "Assignment" /\ ~Ends(v) -> Took(c, Assign(c.s, e, n.s, v))
          [] f.k = "Declaration" /\ ~Ends(v) -> Took(c, Declare(c.s, e, n.c[1].s, v, n.s))
          [] f.k = "Return" /\ ~Ends(v) -> Done(c, Signal("return", v))
          [] f.k = "Throw" /\ ~Ends(v) -> Done(c, Signal("throw", v))
          [] f.k = "Await" /\ ~Ends(v) ->
               Done(c, CASE v.t = "fulfilled" -> Carried(v)
                         [] v.t = "rejected" -> Signal("throw", Carried(v))
                         [] OTHER -> v)
          [] f.k = "Unary" /\ ~Ends(v) -> Done(c, Not(v))
          [] f.k = "Binary" /\ ~Ends(v) ->
               IF IsTruthy(v) = (n.s = "||") THEN c ELSE Going(c, n.c[2], e)
          [] f.k = "Ternary" /\ ~Ends(v) -> Going(c, n.c[IF IsTruthy(v) THEN 2 ELSE 3], e)
          [] f.k = "Switch" /\ ~Ends(v) -> Compared(c, n, e, 2, v)
          [] f.k = "case" /\ ~Ends(v) ->
               IF v = n.s THEN Clause(c, n, e, f.i) ELSE Compared(c, n, e, f.i + 1, n.s)
          [] f.k \in {"test", "again"} /\ ~Ends(v) ->
               IF n.k = "If"
               THEN IF IsTruthy(v) THEN InScope(c, n.c[2], e, "", Undefined)
                    ELSE IF Len(n.c) = 3 THEN InScope(c, n.c[3], e, "", Undefined)
                    ELSE Done(c, Undefined)
               ELSE IF ~IsTruthy(v) THEN Done(c, Undefined)
               ELSE IF Levels(c) + 1 > MaxCallDepth THEN Done(c, Error)
               ELSE InScope(Push(c, Frame("round", n, e, f.i)), n.c[2], e, "", Undefined)
          [] f.k = "until" /\ ~Ends(v) ->
               IF ~IsTruthy(v) THEN Done(c, Undefined)
               ELSE IF f.i + 1 > MaxIterations THEN Done(c, Error)
               ELSE IF c.s.steps + 1 > MaxSteps THEN Done(Tick(c), Error)
               ELSE InScope(Push(Tick(c), Frame("do", n, e, f.i + 1)), n.c[2], e, "", Undefined)

Turn(c) ==
    CASE c.node # <<>> -> Begin(c)
      [] c.node = <<>> /\ c.stack # <<>> -> Resume(c)
      [] OTHER -> c

\* Four turns at a time, so that TLC's own stack is a quarter as deep.
RECURSIVE Machine(_)
Machine(c) ==
    IF c.node = <<>> /\ c.stack = <<>> THEN c ELSE Machine(Turn(Turn(Turn(Turn(c)))))

Reference(stmts) ==
    Machine([s |-> Fresh, stack |-> <<>>, node |-> <<Leaf("List", stmts)>>, e |-> 1,
             v |-> Undefined, met |-> {}])

-----------------------------------------------------------------------------
Init ==
    /\ program \in Programs
    /\ ended = <<>>

Execute ==
    /\ ended = <<>>
    /\ LET r == Evaluate(program) IN
       ended' = <<[notes |-> r.s.notes, failed |-> r.v.t = "error"]>>
    /\ UNCHANGED program

Next == Execute

Spec == Init /\ [][Next]_vars

\* A script makes the calls that the language's machine makes, in that order, and fails when the
\* machine does: `finally' bodies run once and win, jumps stop where they should, and the depth
\* that the engine counts is that of its stack at every limit (javascript.rs eval_expr,
\* eval_try_catch_finally, while_loop_step, call_function).  Nothing is claimed of a script once
\* it has met a place where the engine leaves the language: an error out of the condition of `if'
\* or `while' (3146-3156, 3176-3183), a throw out of an operand, as in `x = f()' or `return f()'
\* (3663-3671), and a clause that falls into the default clause of a switch or out of it (3289).
RunsAsSpecified ==
    ended # <<>> =>
        LET m == Reference(program) IN
        m.met = {} =>
            /\ ended[1].notes = m.s.notes
            /\ ended[1].failed <=> m.v.t \in {"throw", "break", "continue", "error"}

=============================================================================
