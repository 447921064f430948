------------------------------ MODULE WasmCode ------------------------------
(***************************************************************************)
(* The WebAssembly interpreter (src/wasm.rs, src/wasm_interp.rs).          *)
(*                                                                         *)
(* A function body is a sequence of bytes: blocks are not trees but pairs  *)
(* of an opening byte and an `end', and a branch finds its target by       *)
(* scanning.  The machine keeps a stack of control frames, each with the   *)
(* height of the operand stack below it.  `Encoded' prints programs that   *)
(* are trees, and what the machine makes of the bytes must be what the     *)
(* trees say, but for the modules that meet one of four places where the   *)
(* interpreter leaves the language; the trees note those (`met').          *)
(*                                                                         *)
(* Numbers are those of the WebAssembly types with smaller widths: a byte  *)
(* of memory has ByteBits bits, an i32 four bytes, an i64 eight.           *)
(* Immediates fit one byte of their variable-length code.  Floating-point  *)
(* numbers are left out.                                                   *)
(***************************************************************************)
EXTENDS Integers, Sequences, FiniteSets

CONSTANTS
    ByteBits,   \* bits of a byte of memory
    PageSize, MaxMemory,  \* PAGE_SIZE, MAX_MEMORY_BYTES
    MaxSteps,   \* MAX_INTERPRETER_STEPS
    MaxStack,   \* MAX_STACK_VALUES
    MaxCallDepth,  \* MAX_CALL_DEPTH_WASM
    MaxCodeDepth,  \* MAX_CODE_DEPTH
    Sources     \* the modules: functions as trees, types, table, and the calls to make

WasmAssumption == {ByteBits, PageSize, MaxMemory, MaxSteps, MaxStack, MaxCallDepth, MaxCodeDepth} \subseteq Nat

VARIABLES
    source,    \* the module as it was written
    instance,  \* bodies, globals, memory and table: WasmInstance
    frames,    \* the frames of the call that runs
    steps,     \* total_steps of the call that runs
    outcomes   \* what the calls made so far gave

vars == <<source, instance, frames, steps, outcomes>>

-----------------------------------------------------------------------------
(* Numbers *)
Width(t) == IF t = "i32" THEN 4 * ByteBits ELSE 8 * ByteBits
Wrap(t, n) == n % (2 ^ Width(t))
Number(t, n) == [t |-> t, v |-> Wrap(t, n)]
Signed(t, n) == IF n < 2 ^ (Width(t) - 1) THEN n ELSE n - 2 ^ Width(t)
Bool(b) == Number("i32", IF b THEN 1 ELSE 0)
Bit(n, i) == (n \div (2 ^ i)) % 2
OfBits(t, f(_)) ==
    LET sum[i \in 0..Width(t)] == IF i = 0 THEN 0 ELSE sum[i - 1] + (2 ^ (i - 1)) * f(i - 1)
    IN  Number(t, sum[Width(t)])
\* Division that truncates towards zero, as Rust's does.
Quotient(a, b) ==
    LET Abs(n) == IF n < 0 THEN -n ELSE n
        q == Abs(a) \div Abs(b)
    IN  IF (a < 0) = (b < 0) THEN q ELSE -q

\* No value: the instruction failed.
Fault == <<>>
Value(v) == <<v>>

\* The comparison number k of a type: eq, ne, then lt, gt, le, ge signed and unsigned.
Compare(t, k, a, b) ==
    LET x == IF k % 2 = 1 THEN Signed(t, a) ELSE a
        y == IF k % 2 = 1 THEN Signed(t, b) ELSE b
    IN  Bool(CASE k = 1 -> a = b
               [] k = 2 -> a # b
               [] k \in {3, 4} -> x < y
               [] k \in {5, 6} -> x > y
               [] k \in {7, 8} -> x <= y
               [] k \in {9, 10} -> x >= y)

Count(t, k, a) ==
    LET w == Width(t)
        ones == {i \in 0..w - 1 : Bit(a, i) = 1}
        Least == CHOOSE i \in ones : \A j \in ones : i <= j
        Greatest == CHOOSE i \in ones : \A j \in ones : i >= j
    IN  Number(t, CASE k = 0 -> IF ones = {} THEN w ELSE w - 1 - Greatest
                    [] k = 1 -> IF ones = {} THEN w ELSE Least
                    [] k = 2 -> Cardinality(ones))

Divide(t, k, a, b) ==
    LET x == Signed(t, a)
        y == Signed(t, b)
    IN  IF b = 0 THEN Fault
        ELSE CASE k = 6 -> IF a = 2 ^ (Width(t) - 1) /\ y = -1 THEN Fault ELSE Value(Number(t, Quotient(x, y)))
               [] k = 7 -> Value(Number(t, a \div b))
               [] k = 8 -> Value(Number(t, x - y * Quotient(x, y)))
               [] k = 9 -> Value(Number(t, a % b))

Shift(t, k, a, b) ==
    LET w == Width(t)
        n == b % w
    IN  CASE k = 13 -> Number(t, a * 2 ^ n)
          [] k = 14 -> Number(t, Signed(t, a) \div 2 ^ n)
          [] k = 15 -> Number(t, a \div 2 ^ n)
          [] k = 16 -> OfBits(t, LAMBDA i : Bit(a, (i + w - n) % w))
          [] k = 17 -> OfBits(t, LAMBDA i : Bit(a, (i + n) % w))

Bitwise2(t, k, a, b) ==
    OfBits(t, LAMBDA i : CASE k = 10 -> Bit(a, i) * Bit(b, i)
                           [] k = 11 -> IF Bit(a, i) + Bit(b, i) > 0 THEN 1 ELSE 0
                           [] k = 12 -> (Bit(a, i) + Bit(b, i)) % 2)

\* The operation number k of a type, from clz to rotr.
Arith(t, k, a, b) ==
    CASE k \in 3..5 -> Value(Number(t, CASE k = 3 -> a + b [] k = 4 -> a - b [] k = 5 -> a * b))
      [] k \in 6..9 -> Divide(t, k, a, b)
      [] k \in 10..12 -> Value(Bitwise2(t, k, a, b))
      [] k \in 13..17 -> Value(Shift(t, k, a, b))

Extend(t, bytes, a) ==
    LET w == 2 ^ (bytes * ByteBits)
        n == a % w
    IN  Number(t, IF n < w \div 2 THEN n ELSE n - w)

\* How many operands an operator takes, and their type.
Unary(op) == op \in {69, 80, 167, 172, 173} \cup 103..105 \cup 121..123 \cup 192..196
Operand(op) ==
    IF op \in 69..79 \cup 103..120 \cup {172, 173, 192, 193} THEN "i32" ELSE "i64"

\* The value of a numeric operator.
Numeric(op, a, b) ==
    LET t == Operand(op)
    IN  CASE op \in {69, 80} -> Value(Bool(a = 0))
          [] op \in 70..79 -> Value(Compare(t, op - 69, a, b))
          [] op \in 81..90 -> Value(Compare(t, op - 80, a, b))
          [] op \in 103..105 -> Value(Count(t, op - 103, a))
          [] op \in 106..120 -> Arith(t, op - 103, a, b)
          [] op \in 121..123 -> Value(Count(t, op - 121, a))
          [] op \in 124..138 -> Arith(t, op - 121, a, b)
          [] op = 167 -> Value(Number("i32", a))
          [] op = 172 -> Value(Number("i64", Signed("i32", a)))
          [] op = 173 -> Value(Number("i64", a))
          [] op \in {192, 194} -> Value(Extend(t, 1, a))
          [] op \in {193, 195} -> Value(Extend(t, 2, a))
          [] op = 196 -> Value(Extend(t, 4, a))

-----------------------------------------------------------------------------
(* Memory: a sequence of bytes. *)
Load(memory, address, op) ==
    LET t == IF op \in {40, 44, 45, 46, 47} THEN "i32" ELSE "i64"
        size == CASE op \in {44, 45, 48, 49} -> 1
                  [] op \in {46, 47, 50, 51} -> 2
                  [] op \in {40, 52, 53} -> 4
                  [] op = 41 -> 8
        word == 2 ^ (size * ByteBits)
        sum[i \in 0..size] ==
            IF i = 0 THEN 0 ELSE sum[i - 1] + (2 ^ ((i - 1) * ByteBits)) * memory[address + i]
    IN  IF address + size > Len(memory) THEN Fault
        ELSE Value(Number(t, IF op \in {44, 46, 48, 50, 52} /\ sum[size] >= word \div 2
                             THEN sum[size] - word ELSE sum[size]))

StoreSize(op) ==
    CASE op \in {58, 60} -> 1 [] op \in {59, 61} -> 2 [] op \in {54, 62} -> 4 [] op = 55 -> 8

\* The memory after a store, as a sequence of one.
Store(memory, address, op, v) ==
    LET size == StoreSize(op)
    IN  IF v.t # (IF op \in {54, 58, 59} THEN "i32" ELSE "i64") \/ address + size > Len(memory)
        THEN Fault
        ELSE Value([i \in 1..Len(memory) |->
                      IF i \in address + 1..address + size
                      THEN (v.v \div (2 ^ ((i - 1 - address) * ByteBits))) % (2 ^ ByteBits)
                      ELSE memory[i]])

-----------------------------------------------------------------------------
(* Code: a sequence of bytes, the first of which is at place 0. *)
At(code, pc) == IF pc < Len(code) THEN code[pc + 1] ELSE -1
Openers == {2, 3, 4}
Else == 5
End == 11
SimpleBlock == {64} \cup 124..127

\* A signed number of one byte.
Leb(byte) == IF byte < 64 THEN byte ELSE byte - 128

\* How many bytes of immediates follow the operator at `pc'.
Immediates(code, pc) ==
    LET op == At(code, pc)
    IN  CASE op \in Openers -> IF At(code, pc + 1) \in SimpleBlock THEN 1 ELSE 2
          [] op \in {12, 13, 16, 18, 19} \cup 32..36 \cup {63, 64, 65, 66} -> 1
          [] op \in {17} \cup 40..62 -> 2
          [] op = 14 -> At(code, pc + 1) + 2
          [] op = 28 -> At(code, pc + 1) + 1
          [] op = 67 -> 4
          [] op = 68 -> 8
          [] OTHER -> 0
\* Mutant: immediates are read as instructions.
SkipNothing(code, pc) == pc + 1

SkipImmediates(code, pc) == pc + 1 + Immediates(code, pc)

\* The place of the `end' that closes the block `pc' is in; -1 without one.
RECURSIVE FindEnd(_, _, _)
FindEnd(code, pc, depth) ==
    LET op == At(code, pc)
        On(d) == FindEnd(code, SkipImmediates(code, pc), d)
    IN  CASE op = -1 -> -1
          [] op \in Openers -> On(depth + 1)
          [] op = End -> IF depth = 0 THEN pc ELSE On(depth - 1)
          [] OTHER -> On(depth)

\* The place after the `else' or `end' that closes the block `pc' is in.
RECURSIVE FindElseOrEnd(_, _, _)
FindElseOrEnd(code, pc, depth) ==
    LET op == At(code, pc)
        On(d) == FindElseOrEnd(code, SkipImmediates(code, pc), d)
    IN  CASE op = -1 -> -1
          [] op \in Openers -> On(depth + 1)
          [] op \in {Else, End} /\ depth = 0 -> pc + 1
          [] op = End /\ depth > 0 -> On(depth - 1)
          [] OTHER -> On(depth)

Known(op) ==
    op \in {0, 1, 2, 3, 4, Else, 12, 13, 14, 15, 16, 17, 18, 19, 26, 27, 28, 63, 64, 65, 66, 67, 68}
           \cup 32..36 \cup 40..62 \cup 69..196

\* The deepest nesting of a body, or -1 for a body that is refused.
RECURSIVE ValidateCode(_, _, _, _)
ValidateCode(code, pc, depth, deepest) ==
    LET op == At(code, pc)
        next == pc + 1 + (IF op \in Openers THEN 1 ELSE Immediates(code, pc))
        On(d) == ValidateCode(code, next, d, IF d > deepest THEN d ELSE deepest)
    IN  CASE op = End -> IF depth = 0 THEN deepest ELSE On(depth - 1)
          [] op \in Openers -> On(depth + 1)
          [] op # End /\ op \notin Openers ->
                IF ~Known(op) \/ next > Len(code) \/ (op = 17 /\ At(code, pc + 2) # 0)
                   \/ (op \in {63, 64} /\ At(code, pc + 1) # 0)
                THEN -1 ELSE On(depth)

-----------------------------------------------------------------------------
(* The machine. *)
Block == "Block"
Loop == "Loop"
If == "If"

Top == frames[Len(frames)]
Below == SubSeq(frames, 1, Len(frames) - 1)
Code(fr) == instance.bodies[fr.f - Len(source.imports) + 1].code
Peek(fr) == fr.stack[Len(fr.stack)]
Drop(fr, n) == [fr EXCEPT !.stack = SubSeq(@, 1, Len(@) - n)]
Push(fr, v) == [fr EXCEPT !.stack = Append(@, v)]
Jump(fr, pc) == [fr EXCEPT !.pc = pc]
Holds(fr, n) == Len(fr.stack) >= n
HasInt(fr) == Holds(fr, 1) /\ Peek(fr).t = "i32"
SignedTop(fr) == Signed("i32", Peek(fr).v)

\* Keep the n uppermost values of those above a height.
Cut(stack, height, n) ==
    LET keep == IF n < Len(stack) - height THEN n ELSE Len(stack) - height
    IN  SubSeq(stack, 1, height) \o SubSeq(stack, Len(stack) - keep + 1, Len(stack))

\* What an instruction does: the frame after it, and what the loop does next.
Step(k, fr, label) == [k |-> k, fr |-> fr, label |-> label, memory |-> instance.memory, globals |-> instance.globals]
Continue(fr) == Step("Continue", fr, 0)
Failed == Step("Error", Top, 0)
If2(guard, step) == IF guard THEN step ELSE Failed
Give(fr, v) == IF v = Fault THEN Failed ELSE Continue(Push(fr, v[1]))

\* block, loop and if; the frame stands after the operator.
ExecBlock(op, fr, code) ==
    LET type == At(code, fr.pc)
        start == fr.pc + (IF type \in SimpleBlock THEN 1 ELSE 2)
        results == IF type = 64 THEN 0
                   ELSE IF type \in SimpleBlock THEN 1
                   ELSE IF source.types[type + 1].result = <<>> THEN 0 ELSE 1
        end == FindEnd(code, start, 0)
        else == FindElseOrEnd(code, start, 0)
        taken == op # 4 \/ SignedTop(fr) # 0
        rest == IF op = 4 THEN Drop(fr, 1) ELSE fr
        goto == IF taken THEN start ELSE IF else < end THEN else ELSE end
        control == [k |-> CASE op = 2 -> Block [] op = 3 -> Loop [] op = 4 -> If,
                    else |-> IF taken THEN start ELSE else, end |-> end,
                    height |-> Len(rest.stack), results |-> results]
    IN  If2(/\ type \in SimpleBlock \/ type < Len(source.types)
            /\ op = 4 => HasInt(fr)
            /\ end # -1,
            Continue([rest EXCEPT !.pc = goto, !.controls = Append(@, control)]))

ExecBranch(op, fr, code) ==
    LET n == At(code, fr.pc)
        labels == SubSeq(code, fr.pc + 2, fr.pc + 1 + n)
        i == SignedTop(fr)
    IN  CASE op = 12 -> If2(n <= Len(fr.controls), Step("Branch", Jump(fr, fr.pc + 1), n))
          [] op = 13 -> If2(n <= Len(fr.controls) /\ HasInt(fr),
                            LET on == Jump(Drop(fr, 1), fr.pc + 1)
                            IN  IF i = 0 THEN Continue(on) ELSE Step("Branch", on, n))
          [] op = 14 -> If2(HasInt(fr),
                            Step("Branch", Jump(Drop(fr, 1), fr.pc + n + 2),
                                 IF i >= 0 /\ i < n THEN labels[i + 1] ELSE At(code, fr.pc + 1 + n)))

ExecVariable(op, fr, code) ==
    LET i == At(code, fr.pc) + 1
        on == Jump(fr, fr.pc + 1)
        Known1(vs) == i <= Len(vs)
    IN  CASE op = 32 -> If2(Known1(fr.locals), Continue(Push(on, fr.locals[i])))
          [] op \in {33, 34} ->
                If2(Holds(fr, 1) /\ Known1(fr.locals),
                    Continue([(IF op = 33 THEN Drop(on, 1) ELSE on) EXCEPT !.locals[i] = Peek(fr)]))
          [] op = 35 -> If2(Known1(instance.globals), Continue(Push(on, instance.globals[i])))
          [] op = 36 -> If2(Holds(fr, 1) /\ Known1(instance.globals),
                            [Continue(Drop(on, 1)) EXCEPT !.globals[i] = Peek(fr)])

ExecMemory(op, fr, code) ==
    LET stores == op >= 54
        on == Jump(fr, fr.pc + 2)
        below == IF stores THEN Drop(on, 1) ELSE on
        address == SignedTop(below) + At(code, fr.pc + 1)
        stored == Store(instance.memory, address, op, Peek(fr))
    IN  If2(Holds(fr, IF stores THEN 2 ELSE 1) /\ HasInt(below) /\ SignedTop(below) >= 0,
            IF stores THEN IF stored = Fault THEN Failed
                           ELSE [Continue(Drop(below, 1)) EXCEPT !.memory = stored[1]]
            ELSE Give(Drop(below, 1), Load(instance.memory, address, op)))

\* memory.size and memory.grow
ExecPages(op, fr, code) ==
    LET on == Jump(fr, fr.pc + 1)
        pages == Number("i32", Len(instance.memory) \div PageSize)
        size == Len(instance.memory) + SignedTop(fr) * PageSize
    IN  CASE op = 63 -> Continue(Push(on, pages))
          [] op = 64 -> If2(HasInt(fr),
                            IF SignedTop(fr) < 0 \/ size > MaxMemory
                            THEN Continue(Push(Drop(on, 1), Number("i32", -1)))
                            ELSE [Continue(Push(Drop(on, 1), pages)) EXCEPT
                                    !.memory = [i \in 1..size |-> IF i <= Len(@) THEN @[i] ELSE 0]])

ExecNumeric(op, fr) ==
    LET n == IF Unary(op) THEN 1 ELSE 2
        a == fr.stack[Len(fr.stack) - n + 1]
    IN  If2(Holds(fr, n) /\ \A i \in 0..n - 1 : fr.stack[Len(fr.stack) - i].t = Operand(op),
            Give(Drop(fr, n), Numeric(op, a.v, Peek(fr).v)))

ExecSelect(fr) ==
    LET n == Len(fr.stack)
    IN  If2(HasInt(fr) /\ Holds(fr, 3) /\ fr.stack[n - 1].t = fr.stack[n - 2].t,
            Continue(Push(Drop(fr, 3), fr.stack[IF Peek(fr).v # 0 THEN n - 2 ELSE n - 1])))

\* One instruction; the frame stands after its operator.
ExecInstruction(op, fr, code) ==
    CASE op \in Openers -> ExecBlock(op, fr, code)
      [] op = Else -> If2(FindEnd(code, fr.pc, 0) # -1, Continue(Jump(fr, FindEnd(code, fr.pc, 0))))
      [] op \in {12, 13, 14} -> ExecBranch(op, fr, code)
      [] op = 15 -> Step("Return", fr, 0)
      [] op \in {16, 18} -> Step("Call", Jump(fr, fr.pc + 1), At(code, fr.pc))
      [] op = 17 -> If2(At(code, fr.pc + 1) = 0, Step("CallIndirect", Jump(fr, fr.pc + 2), At(code, fr.pc)))
      [] op = 19 -> Step("CallIndirect", Jump(fr, fr.pc + 1), At(code, fr.pc))
      [] op = 26 -> If2(Holds(fr, 1), Continue(Drop(fr, 1)))
      [] op = 27 -> ExecSelect(fr)
      [] op \in 32..36 -> ExecVariable(op, fr, code)
      [] op \in 40..62 -> ExecMemory(op, fr, code)
      [] op \in {63, 64} -> ExecPages(op, fr, code)
      [] op = 65 -> Continue(Push(Jump(fr, fr.pc + 1), Number("i32", Leb(At(code, fr.pc)))))
      [] op = 66 -> Continue(Push(Jump(fr, fr.pc + 1), Number("i64", Leb(At(code, fr.pc)))))
      [] op \in 69..90 \cup 103..138 \cup {167, 172, 173} \cup 192..196 -> ExecNumeric(op, fr)
      [] OTHER -> Failed

-----------------------------------------------------------------------------
(* Modules: a body is a sequence of trees [op, imm, a, b]: an operator, its *)
(* immediates, its operands and, for a block, what it encloses.  Imports     *)
(* are functions without a body, numbered first.                            *)
RECURSIVE Encoded(_)
Encoded(trees) ==
    IF trees = <<>> THEN <<>>
    ELSE LET n == Head(trees)
             body == CASE Len(n.b) = 0 -> <<>>
                       [] Len(n.b) = 1 -> Encoded(n.b[1]) \o <<End>>
                       [] Len(n.b) = 2 -> Encoded(n.b[1]) \o <<Else>> \o Encoded(n.b[2]) \o <<End>>
         IN  Encoded(n.a) \o <<n.op>> \o n.imm \o body \o Encoded(Tail(trees))

TotalFunctions(m) == Len(m.imports) + Len(m.funcs)
Zeros(types) == [i \in 1..Len(types) |-> Number(types[i], 0)]
TypeIndex(m, f) ==
    IF f < Len(m.imports) THEN m.imports[f + 1] ELSE m.funcs[f - Len(m.imports) + 1].type
Type(m, f) == m.types[TypeIndex(m, f) + 1]

\* The table with one segment of functions written to it, or nothing.
Element(m, table, segment) ==
    LET n == Len(segment.funcs)
    IN  IF \/ segment.offset < 0 \/ segment.offset + n > Len(table)
           \/ \E i \in 1..n : segment.funcs[i] >= TotalFunctions(m)
        THEN Fault
        ELSE Value([i \in 1..Len(table) |-> IF i \in segment.offset + 1..segment.offset + n
                                            THEN segment.funcs[i - segment.offset] ELSE table[i]])

Data(memory, segment) ==
    LET n == Len(segment.bytes)
    IN  IF segment.offset < 0 \/ segment.offset + n > Len(memory) THEN Fault
        ELSE Value([i \in 1..Len(memory) |-> IF i \in segment.offset + 1..segment.offset + n
                                             THEN segment.bytes[i - segment.offset] ELSE memory[i]])

\* Apply segments in order until one fails.
RECURSIVE All(_, _, _)
All(F(_, _), start, segments) ==
    IF start = Fault \/ segments = <<>> THEN start
    ELSE All(F, F(start[1], Head(segments)), Tail(segments))

ParsedBody(f) == [locals |-> f.locals, code |-> Encoded(f.body) \o <<End>>]
Accepts(body) == ValidateCode(body.code, 0, 0, 0) \in 0..MaxCodeDepth

NoFunction == -1

Instantiate(m) ==
    LET bodies == [i \in 1..Len(m.funcs) |-> ParsedBody(m.funcs[i])]
        memory == [i \in 1..m.pages * PageSize |-> 0]
        table == All(LAMBDA t, segment : Element(m, t, segment),
                     Value([i \in 1..m.table |-> NoFunction]), m.elements)
        data == All(Data, Value(memory), m.data)
    IN  IF \/ Len(memory) > MaxMemory \/ table = Fault \/ data = Fault
           \/ \E i \in 1..Len(bodies) : ~Accepts(bodies[i])
        THEN [ok |-> FALSE, bodies |-> <<>>, globals |-> <<>>, memory |-> <<>>, table |-> <<>>]
        ELSE [ok |-> TRUE, bodies |-> bodies, globals |-> m.globals, memory |-> data[1], table |-> table[1]]

-----------------------------------------------------------------------------
(* Calls. *)
Calls == source.calls
Running == frames # <<>>
Outcome(how, vals) == [how |-> how, vals |-> vals]

\* The call ends without values: every frame is dropped, memory and globals stay.
Fail(how) ==
    /\ frames' = <<>>
    /\ outcomes' = Append(outcomes, Outcome(how, <<>>))
    /\ UNCHANGED <<source, instance, steps>>

Defined(f) == f >= Len(source.imports) /\ f < TotalFunctions(source)
Frame(f, args) ==
    [f |-> f, pc |-> 0, locals |-> args \o Zeros(source.funcs[f - Len(source.imports) + 1].locals),
     stack |-> <<>>, controls |-> <<>>]
Parameters(f) == Len(Type(source, f).params)

Invoke ==
    /\ instance.ok /\ ~Running /\ Len(outcomes) < Len(Calls)
    /\ LET call == Calls[Len(outcomes) + 1]
       IN  IF Defined(call.f) /\ Len(call.args) = Parameters(call.f)
           THEN /\ frames' = <<Frame(call.f, call.args)>>
                /\ steps' = 0
                /\ UNCHANGED <<source, instance, outcomes>>
           ELSE Fail("trap")

\* The top function leaves its whole operand stack as its results.
Leave(stack) ==
    IF Len(frames) = 1
    THEN IF Len(stack) = Len(Type(source, Top.f).result)
         THEN /\ frames' = <<>>
              /\ outcomes' = Append(outcomes, Outcome("values", stack))
              /\ UNCHANGED <<source, instance, steps>>
         ELSE Fail("trap")
    ELSE /\ frames' = [Below EXCEPT ![Len(Below)].stack = @ \o stack]
         /\ steps' = steps + 1
         /\ UNCHANGED <<source, instance, outcomes>>

Replace(fr) ==
    /\ frames' = Append(Below, fr)
    /\ steps' = steps + 1
    /\ UNCHANGED <<source, outcomes>>

\* The `end' of a block, or of the function.
CloseBlock(fr) ==
    LET control == fr.controls[Len(fr.controls)]
    IN  [fr EXCEPT !.pc = @ + 1,
                   !.controls = SubSeq(@, 1, Len(@) - 1),
                   !.stack = Cut(@, control.height, control.results)]

\* A branch to a label that is not the function's: a loop is entered again,
\* a block is left at its `end'.
Branch(fr, label) ==
    LET i == Len(fr.controls) - label
        control == fr.controls[i]
    IN  [fr EXCEPT !.pc = IF control.k = Loop THEN control.else ELSE control.end,
                   !.controls = SubSeq(@, 1, i),
                   !.stack = Cut(@, control.height, control.results)]

\* run_function: one more frame, the arguments taken from the caller.
Enter(caller, f, args) ==
    IF Len(frames) >= MaxCallDepth \/ ~Defined(f) THEN Fail("trap")
    ELSE /\ frames' = Append(Append(Below, caller), Frame(f, args))
         /\ steps' = steps + 1
         /\ UNCHANGED <<source, instance, outcomes>>

EnterWith(fr, f) ==
    LET n == Parameters(f)
    IN  IF Holds(fr, n)
        THEN Enter(Drop(fr, n), f, SubSeq(fr.stack, Len(fr.stack) - n + 1, Len(fr.stack)))
        ELSE Fail("trap")

CallIndirect(fr, type) ==
    LET slot == SignedTop(fr) + 1
        f == instance.table[slot]
    IN  IF HasInt(fr) /\ slot \in 1..Len(instance.table) /\ f # NoFunction /\ Defined(f)
           /\ TypeIndex(source, f) = type
        THEN EnterWith(Drop(fr, 1), f)
        ELSE Fail("trap")

Execute ==
    /\ Running
    /\ LET fr == Top
           op == At(Code(fr), fr.pc)
       IN  \E step \in {ExecInstruction(op, Jump(fr, fr.pc + 1), Code(fr))} :
           IF steps >= MaxSteps THEN Fail("spent")
           ELSE IF Len(fr.stack) > MaxStack \/ op = -1 THEN Fail("trap")
           ELSE IF op = End
           THEN IF fr.controls = <<>> THEN Leave(fr.stack)
                ELSE Replace(CloseBlock(fr)) /\ UNCHANGED instance
           ELSE CASE step.k = "Error" -> Fail("trap")
                  [] step.k = "Continue" ->
                        /\ Replace(step.fr)
                        /\ instance' = [instance EXCEPT !.memory = step.memory, !.globals = step.globals]
                  [] step.k = "Branch" ->
                        IF step.label = Len(step.fr.controls) THEN Leave(step.fr.stack)
                        ELSE IF step.label > Len(step.fr.controls) THEN Fail("trap")
                        ELSE Replace(Branch(step.fr, step.label)) /\ UNCHANGED instance
                  [] step.k = "Return" -> Leave(step.fr.stack)
                  [] step.k = "Call" -> IF step.label < TotalFunctions(source)
                                        THEN EnterWith(step.fr, step.label) ELSE Fail("trap")
                  [] step.k = "CallIndirect" -> CallIndirect(step.fr, step.label)

Init ==
    /\ source \in Sources
    /\ instance = Instantiate(source)
    /\ frames = <<>> /\ steps = 0 /\ outcomes = <<>>

Next == Invoke \/ Execute

-----------------------------------------------------------------------------
(* What the trees say.  A tree gives values, or leaves the trees around it: *)
(* by a branch to the k-th block outwards, by a return or by a trap.  Each  *)
(* node costs one, so that every tree ends.                                 *)
Ok(s, vs) == [s EXCEPT !.c = "ok", !.v = vs]
Out(s, c, k, vs) == [s EXCEPT !.c = c, !.k = k, !.v = vs, !.below = FALSE]
Met(s, what, where) == IF where THEN [s EXCEPT !.met = @ \cup {what}] ELSE s
Trap(s) == Out(s, "trap", 0, <<>>)
OneOf(s, v) == IF v = Fault THEN Trap(s) ELSE Ok(s, v)

\* A block ends a branch to it.
BlockExit(s) ==
    IF s.c # "br" THEN s ELSE IF s.k = 0 THEN Ok(s, s.v) ELSE [s EXCEPT !.k = @ - 1]

\* What an operator means, by the mathematics of two's complement.
Meaning(op, a, b) ==
    LET t == Operand(op)
        w == Width(t)
        x == Signed(t, a)
        y == Signed(t, b)
        n == b % w
        Abs(i) == IF i < 0 THEN -i ELSE i
        sizes == {q \in 0..2 ^ (w - 1) : q * Abs(y) <= Abs(x) /\ (q + 1) * Abs(y) > Abs(x)}
        q == (IF (x < 0) = (y < 0) THEN 1 ELSE -1) * CHOOSE i \in sizes : TRUE
        Filled(from, low, top) == OfBits(IF op = 172 THEN "i64" ELSE t,
                                         LAMBDA i : IF i >= from THEN Bit(a, top) ELSE Bit(a, i + low))
        order == IF op \in 69..79 THEN op - 69 ELSE op - 80
        k == IF op \in 103..120 THEN op - 103 ELSE op - 121
    IN  CASE op \in {69, 80} -> Value(Bool(a = 0))
          [] op \in 70..79 \cup 81..90 ->
                Value(Bool(<<a = b, a # b, x < y, a < b, x > y, a > b, x <= y, a <= b, x >= y, a >= b>>[order]))
          [] op = 167 -> Value(OfBits("i32", LAMBDA i : Bit(a, i)))
          [] op = 172 -> Value(Filled(w, 0, w - 1))
          [] op = 173 -> Value(OfBits("i64", LAMBDA i : Bit(a, i)))
          [] op \in 192..196 ->
                LET bits == ByteBits * (CASE op \in {192, 194} -> 1 [] op \in {193, 195} -> 2 [] op = 196 -> 4)
                IN  Value(Filled(bits, 0, bits - 1))
          [] op \in 103..138 ->
                CASE k = 0 -> Value(Number(t, CHOOSE i \in 0..w : a < 2 ^ (w - i) /\ (i = w \/ 2 * a >= 2 ^ (w - i))))
                  [] k = 1 -> Value(Number(t, CHOOSE i \in 0..w : a % 2 ^ i = 0 /\ (i = w \/ a % 2 ^ (i + 1) # 0)))
                  [] k = 2 -> Value(Number(t, Cardinality({i \in 0..w - 1 : Bit(a, i) = 1})))
                  [] k = 3 -> Value(Number(t, x + y))
                  [] k = 4 -> Value(Number(t, x - y))
                  [] k = 5 -> Value(Number(t, x * y))
                  [] k = 6 -> IF y = 0 \/ q = 2 ^ (w - 1) THEN Fault ELSE Value(Number(t, q))
                  [] k = 7 -> IF b = 0 THEN Fault ELSE Value(Number(t, CHOOSE i \in 0..a : i * b <= a /\ (i + 1) * b > a))
                  [] k = 8 -> IF y = 0 THEN Fault ELSE Value(Number(t, x - q * y))
                  [] k = 9 -> IF b = 0 THEN Fault ELSE Value(Number(t, a - b * (a \div b)))
                  [] k = 10 -> Value(OfBits(t, LAMBDA i : IF Bit(a, i) = 1 /\ Bit(b, i) = 1 THEN 1 ELSE 0))
                  [] k = 11 -> Value(OfBits(t, LAMBDA i : IF Bit(a, i) = 1 \/ Bit(b, i) = 1 THEN 1 ELSE 0))
                  [] k = 12 -> Value(OfBits(t, LAMBDA i : IF Bit(a, i) # Bit(b, i) THEN 1 ELSE 0))
                  [] k = 13 -> Value(OfBits(t, LAMBDA i : IF i < n THEN 0 ELSE Bit(a, i - n)))
                  [] k = 14 -> Value(Filled(w - n, n, w - 1))
                  [] k = 15 -> Value(OfBits(t, LAMBDA i : IF i >= w - n THEN 0 ELSE Bit(a, i + n)))
                  [] k = 16 -> Value(Number(t, a * 2 ^ n + a \div 2 ^ (w - n)))
                  [] k = 17 -> Value(Number(t, a * 2 ^ (w - n) + a \div 2 ^ n))

RECURSIVE EvalNode(_, _, _)
RECURSIVE EvalSeq(_, _, _)
RECURSIVE EvalCall(_, _, _, _)
RECURSIVE EvalLoop(_, _, _)
RECURSIVE Indexed(_)

\* A block among the trees whose type is an index into the types.
Indexed(trees) ==
    \E i \in DOMAIN trees :
        \/ trees[i].op \in Openers /\ trees[i].imm[1] \notin SimpleBlock
        \/ Indexed(trees[i].a) \/ \E j \in DOMAIN trees[i].b : Indexed(trees[i].b[j])

\* What follows on `r'; a jump leaves the values of `r' below what it carries.
Before(r, rest) ==
    IF rest.c # "ok" THEN [rest EXCEPT !.below = @ \/ r.v # <<>>] ELSE [rest EXCEPT !.v = r.v \o @]
AfterOne(r, trees, d) == IF r.c # "ok" THEN r ELSE Before(r, EvalSeq(trees, r, d))
AfterRound(r, n, d) ==
    IF r.c = "br" /\ r.k = 0
    THEN EvalLoop(n, Met(r, "operand kept by a loop", r.below /\ n.imm[1] # 64), d) ELSE BlockExit(r)
AfterBody(r, locals) ==
    IF r.c \in {"br", "return"}
    THEN Ok([Met(r, "operand below a result", r.below) EXCEPT !.locals = locals], r.v)
    ELSE [r EXCEPT !.locals = locals]

EvalSeq(trees, s, d) ==
    IF trees = <<>> THEN Ok(s, <<>>) ELSE AfterOne(EvalNode(Head(trees), s, d), Tail(trees), d)

EvalLoop(n, s, d) == AfterRound(EvalSeq(n.b[1], s, d), n, d)

EvalCall(f, args, s, d) ==
    IF d >= MaxCallDepth \/ ~Defined(f) THEN Trap(s)
    ELSE LET def == source.funcs[f - Len(source.imports) + 1]
         IN  AfterBody(EvalSeq(def.body, [s EXCEPT !.locals = args \o Zeros(def.locals)], d + 1), s.locals)

\* `s' has the values of the operands.
EvalWith(n, s, d) ==
    LET args == s.v
        last == args[Len(args)]
        others == SubSeq(args, 1, Len(args) - 1)
        int == Signed("i32", last.v)
        i == n.imm[1] + 1
        targets == SubSeq(n.imm, 2, Len(n.imm) - 1)
        address == Signed("i32", args[1].v) + n.imm[2]
        pages == Number("i32", Len(s.memory) \div PageSize)
        size == Len(s.memory) + int * PageSize
    IN  IF s.c # "ok" THEN s
        ELSE CASE n.op = 2 -> BlockExit(EvalSeq(n.b[1], s, d))
               [] n.op = 3 -> EvalLoop(n, s, d)
               [] n.op = 4 -> IF int # 0 THEN BlockExit(EvalSeq(n.b[1], s, d))
                              ELSE IF Len(n.b) = 2 THEN BlockExit(EvalSeq(n.b[2], s, d)) ELSE Ok(s, <<>>)
               [] n.op = 12 -> Out(s, "br", n.imm[1], args)
               [] n.op = 13 -> IF int # 0 THEN Out(s, "br", n.imm[1], others) ELSE Ok(s, others)
               [] n.op = 14 -> Out(s, "br", IF int \in 0..Len(targets) - 1 THEN targets[int + 1]
                                            ELSE n.imm[Len(n.imm)], others)
               [] n.op = 15 -> Out(s, "return", 0, args)
               [] n.op = 16 -> EvalCall(n.imm[1], args, s, d)
               [] n.op = 17 -> IF /\ int \in 0..Len(instance.table) - 1
                                  /\ instance.table[int + 1] # NoFunction
                                  /\ Type(source, instance.table[int + 1]) = source.types[i]
                               THEN LET f == instance.table[int + 1] IN
                                    EvalCall(f, others, Met(s, "equal types", TypeIndex(source, f) + 1 # i), d)
                               ELSE Trap(s)
               [] n.op = 26 -> Ok(s, <<>>)
               [] n.op = 27 -> Ok(s, <<IF int # 0 THEN args[1] ELSE args[2]>>)
               [] n.op = 32 -> Ok(s, <<s.locals[i]>>)
               [] n.op = 33 -> Ok([s EXCEPT !.locals[i] = last], <<>>)
               [] n.op = 34 -> Ok([s EXCEPT !.locals[i] = last], <<last>>)
               [] n.op = 35 -> Ok(s, <<s.globals[i]>>)
               [] n.op = 36 -> Ok([s EXCEPT !.globals[i] = last], <<>>)
               [] n.op \in 40..53 -> IF Signed("i32", args[1].v) < 0 THEN Trap(s)
                                     ELSE OneOf(s, Load(s.memory, address, n.op))
               [] n.op \in 54..62 ->
                     IF Signed("i32", args[1].v) < 0 \/ Store(s.memory, address, n.op, last) = Fault
                     THEN Trap(s)
                     ELSE Ok([s EXCEPT !.memory = Store(s.memory, address, n.op, last)[1]], <<>>)
               [] n.op = 63 -> Ok(s, <<pages>>)
               [] n.op = 64 -> IF int < 0 \/ size > MaxMemory THEN Ok(s, <<Number("i32", -1)>>)
                               ELSE Ok([s EXCEPT !.memory = [j \in 1..size |-> IF j <= Len(@) THEN @[j] ELSE 0]],
                                       <<pages>>)
               [] n.op = 65 -> Ok(s, <<Number("i32", Leb(n.imm[1]))>>)
               [] n.op = 66 -> Ok(s, <<Number("i64", Leb(n.imm[1]))>>)
               [] n.op >= 69 -> OneOf(s, Meaning(n.op, args[1].v, last.v))

EvalNode(n, s, d) ==
    IF s.fuel = 0 THEN Out(s, "spent", 0, <<>>)
    ELSE EvalWith(n, EvalSeq(n.a, [s EXCEPT !.fuel = @ - 1], d), d)

\* The calls in order, on the globals and the memory that the one before left.
RECURSIVE Says(_, _, _)
Told(calls, r, told) ==
    Says(Tail(calls), r, Append(told, Outcome(IF r.c = "ok" THEN "values" ELSE r.c,
                                              IF r.c = "ok" THEN r.v ELSE <<>>)))

Says(calls, s, told) ==
    IF calls = <<>> THEN [outcomes |-> told, globals |-> s.globals, memory |-> s.memory, met |-> s.met]
    ELSE LET call == Head(calls)
         IN  Told(calls, IF Defined(call.f) /\ Len(call.args) = Parameters(call.f)
                         THEN EvalCall(call.f, call.args, [s EXCEPT !.fuel = MaxSteps \div 3], 0) ELSE Trap(s),
                  told)

Reference ==
    LET fresh == Instantiate(source)
    IN  Says(Calls, [locals |-> <<>>, globals |-> fresh.globals, memory |-> fresh.memory,
                     fuel |-> 0, c |-> "ok", k |-> 0, v |-> <<>>, below |-> FALSE,
                     met |-> {x \in {"block type index"} :
                                \E i \in DOMAIN source.funcs : Indexed(source.funcs[i].body)}], <<>>)

-----------------------------------------------------------------------------
\* The machine gives what the trees of the functions say: the same values or
\* the same trap for every call, and the same globals and memory after them,
\* unless a call runs out of its budget.  Nothing is claimed of a module that
\* meets a place where the interpreter leaves the language: a block whose type
\* is an index, after which the scan and the block itself skip two immediates
\* (wasm_interp.rs 1859-1866) where validate_code reads one; a `return' or a
\* branch to the function with operands below the result, all of which become
\* results (428-433, 537-543); a branch to a loop with a result, which keeps an operand
\* (451-456); and a call_indirect of an equal type under another index (515).
RunsTheTrees ==
    (instance.ok /\ ~Running /\ Len(outcomes) = Len(Calls)) =>
        \A said \in {Reference} :
            (said.met = {} /\ \A i \in 1..Len(Calls) : said.outcomes[i].how # "spent") =>
                /\ outcomes = said.outcomes
                /\ instance.globals = said.globals /\ instance.memory = said.memory
=============================================================================
