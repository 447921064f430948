------------------------------ MODULE Samples ------------------------------
(* What the interpreters of a page are checked on.  Scripts that             *)
(* ScriptParser reads and programs that ScriptControl runs: every construct  *)
(* of the language around every construct, and programs of one `try', or of  *)
(* calls in operands and conditions, in one loop or switch.  Modules that    *)
(* WasmCode runs: trees of blocks, loops, ifs and branches that try every    *)
(* jump two and three blocks deep, in a function that calls a second one and *)
(* an import; and every numeric operator on every pair of small numbers.     *)
EXTENDS Integers, Sequences

N(k, s, c) == [k |-> k, s |-> s, c |-> c]
Leaf(k, s) == N(k, s, <<>>)
X == Leaf("Identifier", "x")
Number(i) == Leaf("Number", i)
One == Number("1")
Block(c) == N("Block", "", c)
Single(s) == Block(<<s>>)

-----------------------------------------------------------------------------
\* Every construct of an expression with `h' in one of its places.
Around(h) ==
    {N("Binary", o, <<h, X>>) : o \in {"||", "??", "&&", "==", "<", "in", "instanceof", "+", "*"}}
    \cup {N("Binary", o, <<X, h>>) : o \in {"||", "??", "&&", "==", "<", "in", "instanceof", "+", "*"}}
    \cup {N("Unary", o, <<h>>) : o \in {"-", "typeof"}}
    \cup {N(k, "", <<h, One>>) : k \in {"Call", "Index", "OptionalIndex", "ArrayLiteral"}}
    \cup {N(k, "", <<X, h>>) : k \in {"New", "Index"}}
    \cup {N(k, "p", <<h>>) : k \in {"Member", "OptionalMember"}}
    \cup {N("Ternary", "", <<h, One, X>>), N("Ternary", "", <<X, h, One>>), N("Ternary", "", <<X, One, h>>)}
    \cup {N("Await", "await", <<h>>), N("New", "", <<h>>), N("Assignment", "x", <<h>>),
          N("MemberAssignment", "p", <<X, h>>), N("MemberAssignment", "p", <<h, X>>),
          N("IndexAssignment", "", <<X, h, One>>), N("IndexAssignment", "", <<X, One, h>>),
          N("FunctionExpr", "", <<Leaf("Param", "y"), N("Return", "", <<h>>)>>),
          N("FunctionExpr", "async", <<N("Return", "", <<h>>)>>),
          N("FunctionExpr", "", <<Leaf("Param", "y"), Leaf("Param", "z"), Single(h)>>),
          N("ObjectLiteral", "", <<N("KeyValue", "k", <<h>>)>>),
          N("Template", "", <<Leaf("Text", "'s'"), N("Hole", "", <<h>>)>>)}

Updates ==
    {N(kind[1], kind[2], <<t>>) : kind \in {<<"Postfix", "++">>, <<"Prefix", "--">>},
                                  t \in {X, N("Member", "p", <<X>>), N("Index", "", <<X, One>>)}}

Expressions == UNION {Around(h) : h \in Around(X) \cup Updates \cup {X, One}}

Undefined == Leaf("Literal", "undefined")

\* Every construct of a statement around `h'.
Enclosing(h) ==
    {Single(h), N("If", "", <<X, Single(h)>>), N("If", "", <<X, Single(h), Single(X)>>),
     N("If", "", <<X, Single(X), Single(h)>>), N("While", "", <<X, Single(h)>>),
     N("DoWhile", "", <<X, Single(h)>>), N("ForOf", "let", <<Leaf("Binding", "y"), X, Single(h)>>),
     N("ForIn", "var", <<Leaf("Binding", "y"), X, Single(h)>>),
     N("Switch", "", <<X, N("Case", "", <<One, Single(h)>>), N("Case", "", <<X, Block(<<>>)>>),
                       N("Default", "", <<Single(h)>>)>>),
     N("Try", "", <<Single(h), N("Catch", "e", <<Single(X)>>), Block(<<>>)>>),
     N("Try", "", <<Single(X), Leaf("Nothing", ""), Single(h)>>),
     N("Try", "", <<Single(X), N("Catch", "error", <<Single(h)>>), Single(h)>>),
     N("FunctionDef", "f", <<Leaf("Param", "y"), Single(h)>>), N("AsyncFunctionDef", "f", <<Single(h)>>)}

Simple ==
    {X, N("FunctionExpr", "", <<Block(<<>>)>>), N("ObjectLiteral", "", <<>>),
     N("FunctionExpr", "async", <<N("Return", "", <<X>>)>>), N("Ternary", "", <<X, One, X>>),
     N("Return", "", <<Undefined>>), N("Return", "", <<N("ObjectLiteral", "", <<>>)>>),
     N("Throw", "", <<X>>), Leaf("Break", ""), Leaf("Continue", "x"), Leaf("DynamicImport", "'s'")}
    \cup {N("Declaration", k, <<Leaf("Binding", "y"), v>>) :
            k \in {"let", "const", "var"}, v \in {X, Undefined}}

Enclosed == UNION {Enclosing(h) : h \in Simple}

Scripts ==
    {<<e>> : e \in Expressions \cup Enclosed} \cup {<<s, X>> : s \in Simple \cup Enclosed}

-----------------------------------------------------------------------------
Note(i) == N("Call", "note", <<Leaf("Arg", i)>>)
CallF == N("Call", "f", <<>>)
Clear == N("Assignment", "x", <<Number("0")>>)

\* A body that notes `i', jumps, calls or goes on, and notes what it should not reach.
Bodies(i) ==
    {Single(Note(i)), Block(<<>>)}
    \cup {Block(<<Note(i), j, Note(i \o "b")>>) :
            j \in {Leaf("Break", ""), Leaf("Continue", ""), N("Return", "", <<One>>),
                   N("Throw", "", <<One>>), CallF, N("Await", "", <<CallF>>)}}

\* Bodies that call from an operand and from a condition.
Operands ==
    {Block(<<Note("body"), j, Note("bodyb")>>) :
        j \in {N("Return", "", <<CallF>>), N("Assignment", "x", <<CallF>>),
               N("Binary", "&&", <<CallF, Note("and")>>),
               N("If", "", <<CallF, Single(Note("then"))>>), N("While", "", <<CallF, Single(Leaf("Break", ""))>>)}}

NoCatch == Leaf("Nothing", "")
Caught(b) == N("Catch", "y", <<b>>)

Tries ==
    {N("Try", "", <<b, c, f>>) :
        b \in Bodies("body"), c \in {NoCatch} \cup {Caught(b) : b \in Bodies("catch")},
        f \in Bodies("finally")}

\* `try' in every place of `try'.
Nested ==
    UNION {{N("Try", "", <<Single(t), Caught(Single(Note("caught"))), Single(Note("done"))>>),
            N("Try", "", <<Single(N("Throw", "", <<One>>)), Caught(Single(t)), Single(Note("done"))>>),
            N("Try", "", <<Single(Leaf("Continue", "")), NoCatch, Single(t)>>)} :
           t \in {N("Try", "", <<b, c, f>>) :
                    b \in Bodies("body"), c \in {NoCatch, Caught(Single(Note("catch")))},
                    f \in Bodies("finally")}}

Values == N("ArrayLiteral", "", <<Number("0"), One>>)

Loop(kind, b) ==
    CASE kind = "While" -> N("While", "", <<X, b>>)
      [] kind = "DoWhile" -> N("DoWhile", "", <<N("Binary", "&&", <<X, N("Unary", "!", <<Number("0")>>)>>), b>>)
      [] kind = "ForOf" -> N("ForOf", "let", <<Leaf("Binding", "y"), Values, b>>)
      [] kind = "ForIn" -> N("ForIn", "var", <<Leaf("Binding", "y"), Values, b>>)
      [] kind = "Switch" ->
            N("Switch", "", <<X, N("Case", "", <<N("Ternary", "", <<X, Number("2"), One>>), Single(Note("two"))>>),
                              N("Case", "", <<One, b>>),
                              N("Case", "", <<Number("0"), Block(<<Note("zero"), Leaf("Break", "")>>)>>),
                              N("Default", "", <<Single(Note("default"))>>)>>)
      [] kind = "Default" ->
            N("Switch", "", <<X, N("Case", "", <<Number("2"), Single(Note("two"))>>), N("Default", "", <<b>>),
                              N("Case", "", <<Number("0"), Single(Note("zero"))>>)>>)
      [] kind = "Last" ->
            N("Switch", "", <<X, N("Case", "", <<One, b>>), N("Default", "", <<Single(Note("default"))>>)>>)
      [] kind = "Block" -> b

\* The function f, called under a `try' and again without one.
Script(kind, call, body) ==
    <<N("Declaration", "let", <<Leaf("Binding", "x"), One>>),
      N(kind, "f", <<Block(<<body, Note("end")>>)>>),
      N("Try", "", <<Block(<<call, Note("ok")>>), Caught(Single(Note("failed"))), Block(<<>>)>>),
      N("If", "", <<X, Single(Note("still")), Single(Note("cleared"))>>),
      call>>

Loops == {"While", "DoWhile", "ForOf", "ForIn", "Switch", "Default", "Last", "Block"}

Programs ==
    {Script("FunctionDef", CallF, Loop(k, b)) :
        k \in Loops,
        b \in Bodies("body") \cup Operands
             \cup {Block(<<t, Note("next")>>) :
                     t \in Tries \cup {N("Try", "", <<b, c, Block(<<>>)>>) :
                                         b \in Operands, c \in {NoCatch, Caught(Single(Note("catch")))}}}}
    \cup {Script("AsyncFunctionDef", N("Await", "", <<CallF>>), Loop(k, Block(<<t, Clear>>))) :
            k \in {"While", "DoWhile", "ForOf", "ForIn", "Block"}, t \in Nested}

-----------------------------------------------------------------------------
(* The modules of WebAssembly.                                               *)
W(op, imm, a, b) == [op |-> op, imm |-> imm, a |-> a, b |-> b]
Const(n) == W(65, <<n>>, <<>>, <<>>)
Local(i) == W(32, <<i>>, <<>>, <<>>)
Global == W(35, <<0>>, <<>>, <<>>)
Set(i, e) == W(33, <<i>>, <<e>>, <<>>)
Tee(i, e) == W(34, <<i>>, <<e>>, <<>>)
Drop(e) == W(26, <<>>, <<e>>, <<>>)
Binary(op, x, y) == W(op, <<>>, <<x, y>>, <<>>)
Add(x, y) == Binary(106, x, y)
Times(x, y) == Binary(108, x, y)
BrIf(k, es) == W(13, <<k>>, es, <<>>)

\* Counts up in local 1, and is true twice.
Again == Binary(72, Tee(1, Add(Local(1), Const(1))), Const(3))
Bump == W(36, <<0>>, <<Add(Global, Local(0))>>, <<>>)
Repeat == BrIf(0, <<Again>>)

\* Every jump out of blocks whose labels, from the inside, take the given
\* numbers of values; the immediate 11 is the byte of an `end'.
Jumps(labels) ==
    LET depths == 0..Len(labels) - 1
        Carried(k) == IF labels[k + 1] = 1 THEN <<Const(11)>> ELSE <<>>
    IN  {W(12, <<k>>, Carried(k), <<>>) : k \in depths}
        \cup {BrIf(k, <<Again>>) : k \in {k \in depths : labels[k + 1] = 0}}
        \cup {Drop(BrIf(k, <<Const(3), Again>>)) : k \in {k \in depths : labels[k + 1] = 1}}
        \cup {W(14, <<1, k, 0>>, <<Local(0)>>, <<>>) :
                k \in {k \in depths : k > 0 /\ labels[k + 1] = 0 /\ labels[1] = 0}}
        \cup {W(15, <<>>, <<Const(5)>>, <<>>)}

Plain ==
    {Bump,
     Set(0, W(16, <<2>>, <<Local(0)>>, <<>>)),
     Set(0, W(17, <<1, 0>>, <<Local(0), Local(1)>>, <<>>)),
     Set(0, W(17, <<1, 0>>, <<Local(0), Const(1)>>, <<>>)),
     Set(0, W(17, <<3, 0>>, <<Local(0), Local(1)>>, <<>>)),
     Set(1, W(27, <<>>, <<Const(2), Local(1), Local(0)>>, <<>>)),
     Drop(W(64, <<0>>, <<Local(0)>>, <<>>)),
     W(54, <<0, 1>>, <<Times(Local(0), Const(3)), W(44, <<0, 1>>, <<Local(1)>>, <<>>)>>, <<>>),
     W(62, <<0, 0>>, <<W(63, <<0>>, <<>>, <<>>), W(172, <<>>, <<Local(0)>>, <<>>)>>, <<>>)}

\* Blocks around `s' and something after it.
Blocks(s) ==
    UNION {{W(2, <<64>>, <<>>, <<b>>), W(3, <<64>>, <<>>, <<b>>), W(4, <<64>>, <<Local(0)>>, <<b>>),
            W(4, <<64>>, <<Local(0)>>, <<<<Bump>>, b>>), W(4, <<64>>, <<Local(0)>>, <<b, <<Bump>>>>)} :
           b \in {<<s, Bump>>, <<s, Repeat>>}}

Nest1(labels) == UNION {Blocks(s) : s \in Jumps(<<0>> \o labels) \cup Plain}
Nest2(labels) == UNION {Blocks(s) : s \in Nest1(<<0>> \o labels)}

\* A block with a value, left by a jump that carries one or by its end.
Valued(op, s) == <<W(op, <<127>>, <<>>, <<<<s, Local(0)>>>>), Bump>>

\* Such a block as the second operand of a sum: what leaves it leaves the first one behind.
Operand(s) == Set(0, Add(Const(3), W(2, <<127>>, <<>>, <<<<s, Local(0)>>>>)))

\* Blocks whose type is an index, with and without a value, and what they stand in.
Typed ==
    UNION {{<<W(op, <<0>>, <<>>, <<<<s>>>>)>>, <<W(2, <<64>>, <<>>, <<<<W(op, <<0>>, <<>>, <<<<s>>>>), Bump>>>>)>>,
            <<Set(0, W(2, <<2>>, <<>>, <<<<s, Const(5)>>>>))>>} :
           op \in {2, 3}, s \in {Bump, W(12, <<1>>, <<>>, <<>>), Drop(Const(11))}}

-----------------------------------------------------------------------------
Function(type, locals, body) == [type |-> type, locals |-> locals, body |-> body]
I32(n) == [t |-> "i32", v |-> n]

\* Function 0 is an import, function 2 is called by function 1, and calls
\* itself until its argument is not below 2.
Called ==
    Function(1, <<>>,
      <<Bump, W(4, <<127>>, <<Binary(72, Local(0), Const(2))>>,
                <<<<W(16, <<2>>, <<Add(Local(0), Const(1))>>, <<>>)>>, <<Add(Local(0), Const(11))>>>>)>>)

Module(body) ==
    [imports |-> <<0>>,
     types |-> <<[params |-> <<>>, result |-> <<>>], [params |-> <<"i32">>, result |-> <<"i32">>],
                 [params |-> <<>>, result |-> <<"i32">>], [params |-> <<"i32">>, result |-> <<"i32">>]>>,
     funcs |-> <<Function(1, <<"i32">>, body), Called>>,
     globals |-> <<I32(0)>>, table |-> 2, elements |-> <<[offset |-> 0, funcs |-> <<2, 0>>]>>,
     pages |-> 1, data |-> <<[offset |-> 1, bytes |-> <<1>>]>>,
     calls |-> <<[f |-> 1, args |-> <<I32(0)>>], [f |-> 1, args |-> <<I32(1)>>]>>]

Operators == 69..90 \cup 103..138 \cup {167, 172, 173} \cup 192..196
Wide == 80..90 \cup 121..138 \cup {167} \cup 194..196
OneOperand == {69, 80, 167, 172, 173} \cup 103..105 \cup 121..123 \cup 192..196
GivesI32 == 69..90 \cup 103..120 \cup {167, 192, 193}

\* An i64 operator gets the two arguments as i64, the first times 16.
Operate(op, a) ==
    LET Long(i) == W(172, <<>>, <<Local(i)>>, <<>>)
        x == IF op \in Wide THEN Binary(134, Long(0), W(66, <<4>>, <<>>, <<>>)) ELSE Local(0)
        y == IF op \in Wide THEN Long(1) ELSE Local(1)
    IN  [imports |-> <<>>,
         types |-> <<[params |-> <<"i32", "i32">>, result |-> <<IF op \in GivesI32 THEN "i32" ELSE "i64">>]>>,
         funcs |-> <<Function(0, <<>>, <<W(op, <<>>, IF op \in OneOperand THEN <<x>> ELSE <<x, y>>, <<>>)>>)>>,
         globals |-> <<>>, table |-> 0, elements |-> <<>>, pages |-> 0, data |-> <<>>,
         calls |-> [i \in 1..16 |-> [f |-> 0, args |-> <<I32(a), I32(i - 1)>>]]]

\* Modules whose segments do not fit.
Misfits ==
    LET m == Module(<<Local(0)>>)
    IN  {[m EXCEPT !.elements = <<[offset |-> 1, funcs |-> <<2, 2>>]>>],
         [m EXCEPT !.elements = <<[offset |-> 0, funcs |-> <<3>>]>>],
         [m EXCEPT !.data = <<[offset |-> 8, bytes |-> <<1>>]>>]}

Modules ==
    {Module(<<s, Local(0)>>) : s \in Nest2(<<1>>)}
    \cup {Module(Valued(2, s)) : s \in Nest1(<<1, 1>>)}
    \cup {Module(Valued(3, s)) : s \in Nest1(<<0, 1>>)}
    \cup {Module(<<Operand(s), Local(0)>>) : s \in Nest1(<<1, 1>>)}
    \cup {Module(Valued(3, Operand(s))) : s \in Jumps(<<1, 0, 1>>)}
    \cup {Module(t \o <<Local(0)>>) : t \in Typed}
    \cup {Operate(op, a) : op \in Operators, a \in 0..15} \cup Misfits
=============================================================================
