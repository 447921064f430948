---------------------------- MODULE ScriptParser ----------------------------
(***************************************************************************)
(* The recursive-descent parser of the script engine                       *)
(* (src/src/javascript.rs).  A script is a sequence of tokens, and a token *)
(* is a string: what the tokenizer does with characters is left out.       *)
(* Every node of the syntax tree has one shape, a kind `k', a text `s' and *)
(* its children `c', and every parsing function returns the node and the   *)
(* position after it, or fails.                                            *)
(*                                                                         *)
(* The reference is the printer at the end of the module: it writes a tree *)
(* with the parentheses that ECMAScript's precedences ask for.  Reading    *)
(* back what it wrote must give the tree again.                            *)
(***************************************************************************)
EXTENDS Integers, Sequences, FiniteSets

CONSTANTS
    MaxParseDepth,  \* MAX_PARSE_DEPTH
    Scripts         \* the sequences of statements that are printed and read back

MaxParseDepthAssumption == MaxParseDepth \in Nat

VARIABLES
    script,  \* the syntax tree that was printed
    read     \* what the parser makes of it, as a sequence of one; empty until it has run

vars == <<script, read>>

N(k, s, c) == [k |-> k, s |-> s, c |-> c]
Leaf(k, s) == N(k, s, <<>>)
Nothing == Leaf("Nothing", "")  \* Option::None where a child may be missing
Undefined == Leaf("Literal", "undefined")

Ok(n, i) == [ok |-> TRUE, n |-> n, i |-> i]
Fail == [ok |-> FALSE, n |-> Nothing, i |-> 0]
Bind(r, F(_)) == IF r.ok THEN F(r) ELSE Fail
Require(condition, r) == IF condition THEN r ELSE Fail

At(t, i) == IF i \in 1..Len(t) THEN t[i] ELSE "<end>"

Literals == {"true", "false", "null", "undefined"}
Numbers == {"0", "1"}
Strings == {"'s'", "'t'"}
Marks == {"(", ")", "[", "]", "{", "}", ";", ",", ":", ".", "?", "?.", "=>", "<template>", "<hole>", "</hole>",
          "</template>", "=", "+=", "-=", "*=", "/=", "%=", "+", "-", "*", "/", "%", "!", "++", "--",
          "<", ">", "<=", ">=", "==", "!=", "===", "!==", "&&", "||", "??", "<end>"}

\* is_identifier: a keyword is one too.
IsIdentifier(w) == w \notin Marks \cup Numbers \cup Strings

\* Mutant: `and' binds less than `or'.
OperatorsSwapped ==
    <<{"&&"}, {"??"}, {"||"}, {"==", "!=", "===", "!=="}, {"<", ">", "<=", ">=", "in"},
      {"+", "-"}, {"*", "/", "%"}>>

\* The operators of parse_or, parse_nullish, ... parse_factor, the loosest first.
Operators ==
    <<{"||"}, {"??"}, {"&&"}, {"==", "!=", "===", "!=="}, {"<", ">", "<=", ">=", "in"},
      {"+", "-"}, {"*", "/", "%"}>>

Compound == {"+=", "-=", "*=", "/=", "%="}
OperatorOf == [x \in Compound |->
    CASE x = "+=" -> "+" [] x = "-=" -> "-" [] x = "*=" -> "*" [] x = "/=" -> "/" [] OTHER -> "%"]

-----------------------------------------------------------------------------
\* What the token stream nests at most, closers without opener ignored.
Nesting(t) ==
    LET after[i \in 0..Len(t)] ==
            IF i = 0 THEN [depth |-> 0, most |-> 0]
            ELSE LET p == after[i - 1] IN
                 CASE t[i] \in {"(", "[", "{"} ->
                        [depth |-> p.depth + 1,
                         most |-> IF p.depth + 1 > p.most THEN p.depth + 1 ELSE p.most]
                   [] t[i] \in {")", "]", "}"} /\ p.depth > 0 -> [p EXCEPT !.depth = @ - 1]
                   [] OTHER -> p
    IN  after[Len(t)].most

\* parse_arrow_signature: the parameters, whether `async' stands before them, where the body begins.
RECURSIVE ArrowParameters(_, _, _)
ArrowParameters(t, i, names) ==
    CASE At(t, i) = ")" -> Ok(names, i)
      [] At(t, i) # ")" /\ IsIdentifier(At(t, i)) /\ At(t, i + 1) = "," ->
            ArrowParameters(t, i + 2, Append(names, At(t, i)))
      [] At(t, i) # ")" /\ IsIdentifier(At(t, i)) /\ At(t, i + 1) = ")" ->
            Ok(Append(names, At(t, i)), i + 1)
      [] OTHER -> Fail

ArrowSignature(t, pos) ==
    LET i == IF At(t, pos) = "async" THEN pos + 1 ELSE pos IN
    IF IsIdentifier(At(t, i)) /\ At(t, i + 1) = "=>" THEN Ok(<<At(t, i)>>, i + 2)
    ELSE IF At(t, i) # "(" THEN Fail
    ELSE Bind(ArrowParameters(t, i + 1, <<>>),
              LAMBDA r : Require(At(t, r.i + 1) = "=>", Ok(r.n, r.i + 2)))

\* The parameters of `function': every token but a comma up to the parenthesis.
RECURSIVE Parameters(_, _, _)
Parameters(t, i, names) ==
    CASE i > Len(t) -> Fail
      [] At(t, i) = ")" -> Ok(names, i + 1)
      [] At(t, i) = "," -> Parameters(t, i + 1, names)
      [] OTHER -> Parameters(t, i + 1, Append(names, At(t, i)))

Named(names) == [p \in DOMAIN names |-> Leaf("Param", names[p])]
Function(kind, name, names, body) == N(kind, name, Append(Named(names), body))

\* What an assignment with operator `op' (or plain, op = "") to the target makes.
IsTarget(n) == n.k \in {"Identifier", "Member", "Index"}
AssignTo(n, op, right) ==
    LET value == IF op = "" THEN right ELSE N("Binary", op, <<n, right>>) IN
    CASE n.k = "Identifier" -> N("Assignment", n.s, <<value>>)
      [] n.k = "Member" -> N("MemberAssignment", n.s, Append(n.c, value))
      [] OTHER -> N("IndexAssignment", "", Append(n.c, value))

RECURSIVE Assignment(_, _, _), Binary(_, _, _, _), Chain(_, _, _, _), Unary(_, _, _),
          Call(_, _, _), Postfix(_, _, _), NewCall(_, _, _, _), Primary(_, _, _),
          List(_, _, _, _, _), Elements(_, _, _, _), Properties(_, _, _, _), Template(_, _, _, _),
          Statement(_, _, _), Statements(_, _, _, _), Cases(_, _, _, _)

\* parse_expression has a guard of its own and no more.
Expression(t, i, d) == Require(d <= MaxParseDepth, Assignment(t, i, d))

Conditional(t, left, d) ==
    Bind(Assignment(t, left.i + 1, d + 1), LAMBDA yes :
        IF At(t, yes.i) # ":" THEN Fail
        ELSE Bind(Assignment(t, yes.i + 1, d + 1), LAMBDA no :
                 Ok(N("Ternary", "", <<left.n, yes.n, no.n>>), no.i)))

Arrow(t, pos, signature, d) ==
    LET body == IF At(t, signature.i) = "{" THEN Statement(t, signature.i, d + 1)
                ELSE Bind(Assignment(t, signature.i, d + 1),
                          LAMBDA r : Ok(N("Return", "", <<r.n>>), r.i))
    IN  Bind(body, LAMBDA r :
            Ok(Function("FunctionExpr", IF At(t, pos) = "async" THEN "async" ELSE "",
                        signature.n, r.n), r.i))

Assignment(t, pos, d) ==
    IF d > MaxParseDepth THEN Fail
    ELSE IF ArrowSignature(t, pos).ok THEN Arrow(t, pos, ArrowSignature(t, pos), d)
    ELSE Bind(Binary(t, pos, d, 1), LAMBDA left :
        LET op == At(t, left.i) IN
        CASE op = "?" -> Conditional(t, left, d)
          [] op \in Compound ->
                Bind(Assignment(t, left.i + 1, d + 1), LAMBDA r :
                    Require(IsTarget(left.n), Ok(AssignTo(left.n, OperatorOf[op], r.n), r.i)))
          [] op = "=" /\ At(t, left.i + 1) # "=" ->
                IF ~IsTarget(left.n) THEN Fail
                ELSE Bind(Assignment(t, left.i + 1, d + 1), LAMBDA r :
                         Ok(AssignTo(left.n, "", r.n), r.i))
          [] OTHER -> left)

\* One level of the precedences: an operand, then every operator of the level, to the left.
Binary(t, i, d, level) ==
    IF level > Len(Operators) THEN Unary(t, i, d)
    ELSE Bind(Binary(t, i, d, level + 1), LAMBDA left : Chain(t, left, d, level))

Chain(t, left, d, level) ==
    LET op == At(t, left.i)
        Joined(r) == Ok(N("Binary", op, <<left.n, r.n>>), r.i)
    IN  CASE op \in Operators[level] ->
                Bind(Binary(t, left.i + 1, d, level + 1), LAMBDA r : Chain(t, Joined(r), d, level))
          [] level = 5 /\ op = "instanceof" ->
                Bind(Binary(t, left.i + 1, d, level + 1), LAMBDA r : Joined(r))
          [] OTHER -> left

Unary(t, i, d) ==
    LET op == At(t, i)
        Apply(kind) == Bind(Unary(t, i + 1, d + 1), LAMBDA r : Ok(N(kind, op, <<r.n>>), r.i))
    IN  IF i > Len(t) \/ d > MaxParseDepth THEN Fail
        ELSE CASE op \in {"-", "!", "typeof"} -> Apply("Unary")
               [] op = "await" -> Apply("Await")
               [] op \in {"++", "--"} -> Apply("Prefix")
               [] OTHER -> Call(t, i, d)

\* The arguments up to the parenthesis; commas between them are skipped, wherever they stand.
List(t, i, d, args, n) ==
    CASE i > Len(t) -> Fail
      [] At(t, i) = ")" -> Ok(N(n.k, n.s, n.c \o args), i + 1)
      [] At(t, i) = "," -> List(t, i + 1, d, args, n)
      [] OTHER -> Bind(Expression(t, i, d + 1),
                       LAMBDA r : List(t, r.i, d, Append(args, r.n), n))

Subscript(t, i, d, kind, object) ==
    Bind(Expression(t, i, d + 1), LAMBDA key :
        Require(At(t, key.i) = "]", Ok(N(kind, "", <<object, key.n>>), key.i + 1)))

Property(t, i, kind, object) ==
    Require(IsIdentifier(At(t, i)), Ok(N(kind, At(t, i), <<object>>), i + 1))

Call(t, i, d) ==
    IF At(t, i) = "new"
    THEN Bind(Primary(t, i + 1, d + 1), LAMBDA r : NewCall(t, r, d, FALSE))
    ELSE Bind(Primary(t, i, d), LAMBDA r : Postfix(t, r, d))

Postfix(t, left, d) ==
    LET next == At(t, left.i)
        On(r) == Bind(r, LAMBDA q : Postfix(t, q, d))
    IN  CASE next = "(" -> On(List(t, left.i + 1, d, <<>>, N("Call", "", <<left.n>>)))
          [] next = "." -> On(Property(t, left.i + 1, "Member", left.n))
          [] next = "?." /\ At(t, left.i + 1) = "[" ->
                On(Subscript(t, left.i + 2, d, "OptionalIndex", left.n))
          [] next = "?." /\ At(t, left.i + 1) # "[" ->
                On(Property(t, left.i + 1, "OptionalMember", left.n))
          [] next = "[" -> On(Subscript(t, left.i + 1, d, "Index", left.n))
          [] next \in {"++", "--"} -> On(Ok(N("Postfix", next, <<left.n>>), left.i + 1))
          [] OTHER -> left

\* parse_new_call: the first argument list constructs, a later one calls what was constructed.
NewCall(t, left, d, constructed) ==
    LET next == At(t, left.i)
        kind == IF constructed THEN "Call" ELSE "New"
        On(r, now) == Bind(r, LAMBDA q : NewCall(t, q, d, now))
    IN  CASE next = "(" -> On(List(t, left.i + 1, d, <<>>, N(kind, "", <<left.n>>)), TRUE)
          [] next = "." -> On(Property(t, left.i + 1, "Member", left.n), constructed)
          [] next = "[" -> On(Subscript(t, left.i + 1, d, "Index", left.n), constructed)
          [] OTHER -> IF constructed THEN left ELSE Ok(N("New", "", <<left.n>>), left.i)

Elements(t, i, d, found) ==
    IF At(t, i) = "]" THEN Ok(N("ArrayLiteral", "", found), i + 1)
    ELSE IF i > Len(t) THEN Fail
    ELSE Bind(Expression(t, i, d + 1), LAMBDA r :
        CASE At(t, r.i) = "," -> Elements(t, r.i + 1, d, Append(found, r.n))
          [] At(t, r.i) = "]" -> Elements(t, r.i, d, Append(found, r.n))
          [] OTHER -> Fail)

Properties(t, i, d, found) ==
    IF At(t, i) = "}" THEN Ok(N("ObjectLiteral", "", found), i + 1)
    ELSE IF i > Len(t) \/ At(t, i) \in Marks \/ At(t, i + 1) # ":" THEN Fail
    ELSE Bind(Expression(t, i + 2, d + 1), LAMBDA r :
        LET now == Append(found, N("KeyValue", At(t, i), <<r.n>>)) IN
        CASE At(t, r.i) = "," -> Properties(t, r.i + 1, d, now)
          [] At(t, r.i) = "}" -> Properties(t, r.i, d, now)
          [] OTHER -> Fail)

Template(t, i, d, parts) ==
    CASE At(t, i) \in Strings -> Template(t, i + 1, d, Append(parts, Leaf("Text", At(t, i))))
      [] At(t, i) = "<hole>" ->
            Bind(Expression(t, i + 1, d + 1), LAMBDA r :
                IF At(t, r.i) # "</hole>" THEN Fail
                ELSE Template(t, r.i + 1, d, Append(parts, N("Hole", "", <<r.n>>))))
      [] At(t, i) = "</template>" ->
            Ok(N("Template", "", IF parts = <<>> THEN <<Leaf("Text", "")>> ELSE parts), i + 1)
      [] OTHER -> Fail

FunctionExpression(t, pos, d) ==
    LET i == IF IsIdentifier(At(t, pos + 1)) THEN pos + 2 ELSE pos + 1 IN
    IF At(t, i) # "(" THEN Fail
    ELSE Bind(Parameters(t, i + 1, <<>>), LAMBDA p :
        IF At(t, p.i) # "{" THEN Fail
        ELSE Bind(Statements(t, p.i + 1, d + 1, <<>>), LAMBDA body :
            Require(At(t, body.i) = "}",
                    Ok(Function("FunctionExpr", "", p.n, N("Block", "", body.n)), body.i + 1))))

Import(t, i, d) ==
    IF At(t, i) # "(" THEN Fail
    ELSE Bind(Expression(t, i + 1, d + 1), LAMBDA r :
        Require(r.n.k = "String" /\ At(t, r.i) = ")", Ok(Leaf("DynamicImport", r.n.s), r.i + 1)))

Primary(t, i, d) ==
    LET w == At(t, i) IN
    CASE i > Len(t) -> Fail
      [] w = "import" -> Import(t, i + 1, d)
      [] w = "function" -> FunctionExpression(t, i, d)
      [] w = "<template>" -> Template(t, i + 1, d, <<>>)
      [] w = "(" -> Bind(Expression(t, i + 1, d + 1),
                         LAMBDA r : Require(At(t, r.i) = ")", Ok(r.n, r.i + 1)))
      [] w = "[" -> Elements(t, i + 1, d, <<>>)
      [] w = "{" -> Properties(t, i + 1, d, <<>>)
      [] w \in Numbers -> Ok(Leaf("Number", w), i + 1)
      [] w \in Strings -> Ok(Leaf("String", w), i + 1)
      [] w \in Literals -> Ok(Leaf("Literal", w), i + 1)
      [] IsIdentifier(w) /\ w \notin {"import", "function"} \cup Literals ->
            Ok(Leaf("Identifier", w), i + 1)
      [] OTHER -> Fail


-----------------------------------------------------------------------------
\* A statement where a block may stand is a block of one.
AsBlock(n) == IF n.k = "Block" THEN n ELSE N("Block", "", <<n>>)

Body(t, i, d) == Bind(Statement(t, i, d + 1), LAMBDA r : Ok(AsBlock(r.n), r.i))

Braced(t, i, d) ==
    IF At(t, i) # "{" THEN Fail
    ELSE Bind(Statements(t, i + 1, d + 1, <<>>), LAMBDA r :
             Require(At(t, r.i) = "}", Ok(N("Block", "", r.n), r.i + 1)))

Condition(t, i, d) ==
    IF At(t, i) # "(" THEN Fail
    ELSE Bind(Expression(t, i + 1, d + 1), LAMBDA r :
             Require(At(t, r.i) = ")", Ok(r.n, r.i + 1)))

IfStatement(t, i, d) ==
    Bind(Condition(t, i, d), LAMBDA c :
        Bind(Body(t, c.i, d), LAMBDA yes :
            IF At(t, yes.i) # "else" THEN Ok(N("If", "", <<c.n, yes.n>>), yes.i)
            ELSE Bind(Body(t, yes.i + 1, d), LAMBDA no :
                     Ok(N("If", "", <<c.n, yes.n, no.n>>), no.i))))

WhileStatement(t, i, d) ==
    Bind(Condition(t, i, d), LAMBDA c :
        Bind(Body(t, c.i, d), LAMBDA r : Ok(N("While", "", <<c.n, r.n>>), r.i)))

DoStatement(t, i, d) ==
    Bind(Body(t, i, d), LAMBDA r :
        IF At(t, r.i) # "while" THEN Fail
        ELSE Bind(Condition(t, r.i + 1, d), LAMBDA c : Ok(N("DoWhile", "", <<c.n, r.n>>), c.i)))

Declarators == {"const", "var", "let"}

ForStatement(t, i, d) ==
    LET over == At(t, i + 3) IN
    IF \/ At(t, i) # "(" \/ At(t, i + 1) \notin Declarators
       \/ ~IsIdentifier(At(t, i + 2)) \/ over \notin {"of", "in"}
    THEN Fail
    ELSE Bind(Expression(t, i + 4, d + 1), LAMBDA r :
        IF At(t, r.i) # ")" THEN Fail
        ELSE Bind(Body(t, r.i + 1, d), LAMBDA b :
            Ok(N(IF over = "of" THEN "ForOf" ELSE "ForIn", At(t, i + 1),
                 <<Leaf("Binding", At(t, i + 2)), r.n, b.n>>), b.i)))

\* What has been read of a switch: the clauses, the default clause, the open header and its body.
Committed(w) ==
    CASE w.header = Nothing -> w
      [] w.header.k = "Default" ->
            [w EXCEPT !.otherwise = N("Default", "", <<N("Block", "", w.body)>>),
                      !.header = Nothing, !.body = <<>>]
      [] OTHER ->
            [w EXCEPT !.clauses = Append(@, N("Case", "", <<w.header, N("Block", "", w.body)>>)),
                      !.header = Nothing, !.body = <<>>]

Cases(t, i, d, w) ==
    LET c == Committed(w) IN
    CASE At(t, i) = "}" ->
            Ok(c.clauses \o (IF c.otherwise = Nothing THEN <<>> ELSE <<c.otherwise>>), i + 1)
      [] At(t, i) = "case" ->
            Bind(Expression(t, i + 1, d + 1), LAMBDA r :
                IF At(t, r.i) # ":" THEN Fail
                ELSE Cases(t, r.i + 1, d, [c EXCEPT !.header = r.n]))
      [] At(t, i) = "default" ->
            IF At(t, i + 1) # ":" \/ c.otherwise # Nothing THEN Fail
            ELSE Cases(t, i + 2, d, [c EXCEPT !.header = Leaf("Default", "")])
      [] At(t, i) = ";" /\ w.body # <<>> -> Cases(t, i + 1, d, w)
      [] OTHER -> Bind(Statement(t, i, d + 1), LAMBDA r :
                      Cases(t, r.i, d, [w EXCEPT !.body = Append(@, r.n)]))

SwitchStatement(t, i, d) ==
    Bind(Condition(t, i, d), LAMBDA c :
        IF At(t, c.i) # "{" THEN Fail
        ELSE Bind(Cases(t, c.i + 1, d,
                        [clauses |-> <<>>, otherwise |-> Nothing, header |-> Nothing, body |-> <<>>]),
                  LAMBDA r : Ok(N("Switch", "", <<c.n>> \o r.n), r.i)))

\* A catch without a binding binds `error'.
CatchClause(t, i, d) ==
    IF At(t, i) # "catch" THEN Ok(Nothing, i)
    ELSE IF At(t, i + 1) # "("
    THEN Bind(Braced(t, i + 1, d), LAMBDA r : Ok(N("Catch", "error", <<r.n>>), r.i))
    ELSE IF ~IsIdentifier(At(t, i + 2)) \/ At(t, i + 3) # ")" THEN Fail
    ELSE Bind(Braced(t, i + 4, d), LAMBDA r : Ok(N("Catch", At(t, i + 2), <<r.n>>), r.i))

FinallyClause(t, i, d) ==
    IF At(t, i) # "finally" THEN Ok(N("Block", "", <<>>), i) ELSE Braced(t, i + 1, d)

TryStatement(t, i, d) ==
    Bind(Braced(t, i, d), LAMBDA body :
        Bind(CatchClause(t, body.i, d), LAMBDA c :
            Bind(FinallyClause(t, c.i, d), LAMBDA f :
                Require(c.n # Nothing \/ f.n.c # <<>>,
                        Ok(N("Try", "", <<body.n, c.n, f.n>>), f.i)))))

Declaration(t, pos, d) ==
    LET name == At(t, pos + 1) IN
    CASE ~IsIdentifier(name) -> Fail
      [] IsIdentifier(name) /\ At(t, pos + 2) = "=" ->
            Bind(Expression(t, pos + 3, d + 1), LAMBDA r :
                Ok(N("Declaration", At(t, pos), <<Leaf("Binding", name), r.n>>), r.i))
      [] OTHER ->
            Require(At(t, pos) # "const",
                    Ok(N("Declaration", At(t, pos), <<Leaf("Binding", name), Undefined>>), pos + 2))

FunctionDeclaration(t, pos, d) ==
    IF At(t, pos + 2) # "(" THEN Fail
    ELSE Bind(Parameters(t, pos + 3, <<>>), LAMBDA p :
        Bind(Braced(t, p.i, d), LAMBDA body :
            Ok(Function("FunctionDef", At(t, pos + 1), p.n, body.n), body.i)))

\* `break' and `continue' take any word that follows for a label.
Jump(t, pos) ==
    LET kind == IF At(t, pos) = "break" THEN "Break" ELSE "Continue" IN
    IF IsIdentifier(At(t, pos + 1)) THEN Ok(Leaf(kind, At(t, pos + 1)), pos + 2)
    ELSE Ok(Leaf(kind, ""), pos + 1)

Statement(t, pos, d) ==
    LET w == At(t, pos)
        Value(kind) == Bind(Expression(t, pos + 1, d + 1), LAMBDA r : Ok(N(kind, "", <<r.n>>), r.i))
    IN  CASE w = "{" -> Braced(t, pos, d)
          [] w = "if" -> IfStatement(t, pos + 1, d)
          [] w = "while" -> WhileStatement(t, pos + 1, d)
          [] w = "do" -> DoStatement(t, pos + 1, d)
          [] w = "for" -> ForStatement(t, pos + 1, d)
          [] w = "switch" -> SwitchStatement(t, pos + 1, d)
          [] w = "try" -> TryStatement(t, pos + 1, d)
          [] w \in Declarators -> Declaration(t, pos, d)
          [] w = "return" /\ At(t, pos + 1) \in {";", "}", "<end>"} ->
                Ok(N("Return", "", <<Undefined>>), pos + 1)
          [] w = "return" /\ At(t, pos + 1) \notin {";", "}", "<end>"} -> Value("Return")
          [] w \in {"break", "continue"} -> Jump(t, pos)
          [] w = "throw" -> Require(At(t, pos + 1) # ";", Value("Throw"))
          [] w = "async" ->
                IF At(t, pos + 1) # "function" THEN Fail
                ELSE Bind(FunctionDeclaration(t, pos + 1, d + 1), LAMBDA r :
                         Ok([r.n EXCEPT !.k = "AsyncFunctionDef"], r.i))
          [] w = "function" -> FunctionDeclaration(t, pos, d)
          [] OTHER -> Expression(t, pos, d + 1)

Statements(t, i, d, found) ==
    CASE d > MaxParseDepth -> Fail
      [] d <= MaxParseDepth /\ At(t, i) \in {"<end>", "}", ")", "]"} -> Ok(found, i)
      [] d <= MaxParseDepth /\ At(t, i) = ";" -> Statements(t, i + 1, d, found)
      [] OTHER -> Bind(Statement(t, i, d), LAMBDA r : Statements(t, r.i, d, Append(found, r.n)))

\* What evaluating a source text begins with; tokens left over after the statements are ignored.
ParseScript(t) ==
    IF Nesting(t) > MaxParseDepth THEN Fail ELSE Statements(t, 1, 0, <<>>)

-----------------------------------------------------------------------------
(***************************************************************************)
(* The reference: a tree written as ECMAScript writes it, with parentheses *)
(* only where a child binds less than its place asks.  Five places ask for *)
(* more than ECMAScript does, because the parser does not take the shorter *)
(* form: `?.' and `++' after a `new' expression, `instanceof' to the left  *)
(* of another comparison, an `async' arrow at the start of a statement,    *)
(* `new' as the callee of `new', and a body without braces before `else'   *)
(* or `while'.                                                             *)
(***************************************************************************)
Binding == [o \in UNION {Operators[l] : l \in DOMAIN Operators} \cup {"instanceof"} |->
    CASE o = "??" -> 2 [] o = "||" -> 3 [] o = "&&" -> 4
      [] o \in {"==", "!=", "===", "!=="} -> 5
      [] o \in {"<", ">", "<=", ">=", "in", "instanceof"} -> 6
      [] o \in {"+", "-"} -> 7 [] OTHER -> 8]

LastOf(c) == c[Len(c)]
IsArrow(n) == n.k = "FunctionExpr" /\ (n.s = "async" \/ LastOf(n.c).k # "Block")

Prec(n) ==
    CASE n.k \in {"Assignment", "MemberAssignment", "IndexAssignment", "Ternary"} \/ IsArrow(n) -> 1
      [] n.k = "Binary" -> Binding[n.s]
      [] n.k \in {"Unary", "Await", "Prefix"} -> 9
      [] n.k = "Postfix" -> 10
      [] n.k \in {"Call", "New", "Member", "Index", "OptionalMember", "OptionalIndex"} -> 11
      [] OTHER -> 12

\* Whether one of `kinds' stands at the head of a chain of members and calls.
RECURSIVE Heads(_, _)
Heads(n, kinds) ==
    n.k \in kinds \/ (n.k \in {"Member", "Index", "Call"} /\ Heads(n.c[1], kinds))

RECURSIVE Text(_), Show(_, _), Joined(_, _, _), Chunks(_, _)

Joined(c, i, comma) ==
    IF i > Len(c) THEN <<>>
    ELSE Show(c[i], 1) \o (IF i < Len(c) THEN comma ELSE <<>>) \o Joined(c, i + 1, comma)

Show(n, least) == IF Prec(n) < least THEN <<"(">> \o Text(n) \o <<")">> ELSE Text(n)

Names(n) == [p \in 1..(Len(n.c) - 1) |-> n.c[p].s]

RECURSIVE Commas(_)
Commas(names) == IF Len(names) < 2 THEN names ELSE <<names[1], ",">> \o Commas(Tail(names))

Signature(n) == <<"(">> \o Commas(Names(n)) \o <<")">>

\* `x = x + e' is written `x += e'.
Assigned(target, value) ==
    IF value.k = "Binary" /\ value.s \in {"+", "-", "*", "/", "%"} /\ value.c[1] = target
    THEN Text(target) \o <<CHOOSE x \in Compound : OperatorOf[x] = value.s>> \o Show(value.c[2], 1)
    ELSE Text(target) \o <<"=">> \o Show(value, 1)

LeftLeast(n) ==
    CASE n.s = "??" -> IF n.c[1].k = "Binary" /\ n.c[1].s = "??" THEN 2 ELSE 5
      [] Binding[n.s] = 6 /\ n.c[1].k = "Binary" /\ n.c[1].s = "instanceof" -> 7
      [] OTHER -> Binding[n.s]

ArrowText(n) ==
    LET body == LastOf(n.c) IN
    (IF n.s = "async" THEN <<"async">> ELSE <<>>)
    \o (IF Len(n.c) = 2 THEN Names(n) ELSE Signature(n)) \o <<"=>">>
    \o (IF body.k = "Block" THEN Text(body)
        ELSE IF Show(body.c[1], 1)[1] = "{" THEN <<"(">> \o Text(body.c[1]) \o <<")">>
        ELSE Show(body.c[1], 1))

ObjectOf(n) ==
    IF n.k \in {"OptionalMember", "OptionalIndex", "Postfix"} /\ Heads(n.c[1], {"New"})
    THEN <<"(">> \o Text(n.c[1]) \o <<")">> ELSE Show(n.c[1], 11)

CalleeOf(n) ==
    IF Heads(n.c[1], {"Call", "New", "OptionalMember", "OptionalIndex", "Postfix"})
    THEN <<"(">> \o Text(n.c[1]) \o <<")">> ELSE Show(n.c[1], 11)

Sealed(n) == <<"{">> \o Chunks(n.c, 1) \o <<"}">>
Bare(n) == IF Len(n.c) = 1 /\ n.c[1].k # "Block" THEN Chunks(n.c, 1) ELSE Sealed(n)
Loose(n) == LET t == Bare(n) IN IF LastOf(t) = ";" THEN SubSeq(t, 1, Len(t) - 1) ELSE t
InParens(n) == <<"(">> \o Show(n, 1) \o <<")">>

ExpressionText(n) ==
    CASE n.k = "Binary" -> Show(n.c[1], LeftLeast(n)) \o <<n.s>>
                           \o Show(n.c[2], IF n.s = "??" THEN 5 ELSE Binding[n.s] + 1)
      [] n.k \in {"Unary", "Prefix", "Await"} -> <<n.s>> \o Show(n.c[1], 9)
      [] n.k = "Postfix" -> ObjectOf(n) \o <<n.s>>
      [] n.k = "Call" -> ObjectOf(n) \o <<"(">> \o Joined(Tail(n.c), 1, <<",">>) \o <<")">>
      [] n.k = "New" -> <<"new">> \o CalleeOf(n) \o <<"(">> \o Joined(Tail(n.c), 1, <<",">>) \o <<")">>
      [] n.k = "Member" -> ObjectOf(n) \o <<".", n.s>>
      [] n.k = "OptionalMember" -> ObjectOf(n) \o <<"?.", n.s>>
      [] n.k = "Index" -> ObjectOf(n) \o <<"[">> \o Show(n.c[2], 1) \o <<"]">>
      [] n.k = "OptionalIndex" -> ObjectOf(n) \o <<"?.", "[">> \o Show(n.c[2], 1) \o <<"]">>
      [] n.k = "Ternary" -> Show(n.c[1], 2) \o <<"?">> \o Show(n.c[2], 1) \o <<":">> \o Show(n.c[3], 1)
      [] n.k = "Assignment" -> Assigned(Leaf("Identifier", n.s), n.c[1])
      [] n.k = "MemberAssignment" -> Assigned(N("Member", n.s, <<n.c[1]>>), n.c[2])
      [] n.k = "IndexAssignment" -> Assigned(N("Index", "", <<n.c[1], n.c[2]>>), n.c[3])
      [] n.k = "FunctionExpr" ->
            IF IsArrow(n) THEN ArrowText(n) ELSE <<"function">> \o Signature(n) \o Sealed(LastOf(n.c))
      [] n.k = "ArrayLiteral" -> <<"[">> \o Joined(n.c, 1, <<",">>) \o <<"]">>
      [] n.k = "ObjectLiteral" -> <<"{">> \o Joined(n.c, 1, <<",">>) \o <<"}">>
      [] n.k = "KeyValue" -> <<n.s, ":">> \o Show(n.c[1], 1)
      [] n.k = "Template" -> <<"<template>">> \o Joined(n.c, 1, <<>>) \o <<"</template>">>
      [] n.k = "Text" -> IF n.s = "" THEN <<>> ELSE <<n.s>>
      [] n.k = "Hole" -> <<"<hole>">> \o Show(n.c[1], 1) \o <<"</hole>">>
      [] n.k = "DynamicImport" -> <<"import", "(", n.s, ")">>
      [] OTHER -> <<n.s>>

StatementText(n) ==
    CASE n.k = "Block" -> Sealed(n)
      [] n.k = "If" -> <<"if">> \o InParens(n.c[1])
                       \o (IF Len(n.c) = 2 THEN Loose(n.c[2])
                           ELSE Sealed(n.c[2]) \o <<"else">> \o Loose(n.c[3]))
      [] n.k = "While" -> <<"while">> \o InParens(n.c[1]) \o Loose(n.c[2])
      [] n.k = "DoWhile" -> <<"do">> \o Sealed(n.c[2]) \o <<"while">> \o InParens(n.c[1])
      [] n.k \in {"ForOf", "ForIn"} ->
            <<"for", "(", n.s, n.c[1].s, IF n.k = "ForOf" THEN "of" ELSE "in">>
            \o Show(n.c[2], 1) \o <<")">> \o Loose(n.c[3])
      [] n.k = "Switch" -> <<"switch">> \o InParens(n.c[1]) \o <<"{">> \o Joined(Tail(n.c), 1, <<>>) \o <<"}">>
      [] n.k = "Case" -> <<"case">> \o Show(n.c[1], 1) \o <<":">> \o Chunks(n.c[2].c, 1)
      [] n.k = "Default" -> <<"default", ":">> \o Chunks(n.c[1].c, 1)
      [] n.k = "Try" -> <<"try">> \o Sealed(n.c[1])
                        \o (IF n.c[2] = Nothing THEN <<>>
                            ELSE <<"catch", "(", n.c[2].s, ")">> \o Sealed(n.c[2].c[1]))
                        \o (IF n.c[3].c = <<>> THEN <<>> ELSE <<"finally">> \o Sealed(n.c[3]))
      [] n.k = "Declaration" -> <<n.s, n.c[1].s>>
                                \o (IF n.c[2] = Undefined /\ n.s # "const" THEN <<>>
                                    ELSE <<"=">> \o Show(n.c[2], 1))
      [] n.k = "Return" -> <<"return">> \o (IF n.c[1] = Undefined THEN <<>> ELSE Show(n.c[1], 1))
      [] n.k = "Throw" -> <<"throw">> \o Show(n.c[1], 1)
      [] n.k \in {"Break", "Continue"} ->
            <<IF n.k = "Break" THEN "break" ELSE "continue">> \o (IF n.s = "" THEN <<>> ELSE <<n.s>>)
      [] n.k \in {"FunctionDef", "AsyncFunctionDef"} ->
            (IF n.k = "FunctionDef" THEN <<>> ELSE <<"async">>)
            \o <<"function", n.s>> \o Signature(n) \o Sealed(LastOf(n.c))

IsStatement(n) ==
    n.k \in {"Block", "If", "While", "DoWhile", "ForOf", "ForIn", "Switch", "Case", "Default", "Try",
             "Declaration", "Return", "Throw", "Break", "Continue", "FunctionDef", "AsyncFunctionDef"}

Text(n) == IF IsStatement(n) THEN StatementText(n) ELSE ExpressionText(n)

Chunk(n) ==
    LET t == Text(n) IN
    IF ~IsStatement(n) /\ t[1] \in {"{", "function", "async"} THEN <<"(">> \o t \o <<")">> ELSE t

Chunks(c, i) == IF i > Len(c) THEN <<>> ELSE Chunk(c[i]) \o <<";">> \o Chunks(c, i + 1)

-----------------------------------------------------------------------------
Init ==
    /\ script \in Scripts
    /\ read = <<>>

Read ==
    /\ read = <<>>
    /\ read' = <<ParseScript(Chunks(script, 1))>>
    /\ UNCHANGED script

Next == Read

Spec == Init /\ [][Next]_vars

\* Reading what was written for a tree gives the tree again and leaves no token over: every
\* operator binds as ECMAScript says and every statement ends where it should (javascript.rs
\* parse_statements ... parse_primary).
ReadsBack ==
    read # <<>> => /\ read[1].ok
                   /\ read[1] = Ok(script, Len(Chunks(script, 1)) + 1)

=============================================================================
