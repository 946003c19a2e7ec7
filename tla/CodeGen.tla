------------------------------- MODULE CodeGen ------------------------------
(***************************************************************************)
(* The bytecode that is generated for a tree.  A value is in a register or *)
(* in a constant register; an opcode with operands of both sorts stands    *)
(* for the family of opcodes that the code has for their combinations      *)
(* (ADD, ADD2, ADD3; STORE_SUBSC, STORE_CONST_SUBSC, ...).  Addresses are  *)
(* those of the code and start from 0.  A try is generated in TryCode.     *)
(*                                                                         *)
(* A generator g is [code, reg, creg |-> the next free registers, saved    *)
(* |-> those of the functions and classes around, val |-> the value of the *)
(* expression that was generated last, place |-> the operands that were    *)
(* generated for an assigned element or attribute, lists |-> the number of *)
(* comprehensions so far, broken |-> what went wrong in the generator].    *)
(*                                                                         *)
(* Abstractions: the source lines in opcodes (ASSERT's line is 0); the     *)
(* numbers in the names the parser makes up for lambdas and for the lists  *)
(* of comprehensions, where only distinct names matter.                    *)
(***************************************************************************)
EXTENDS Passes

Op(name, dst, src, arg) == [op |-> name, dst |-> dst, src |-> src, arg |-> arg]
Reg(n) == [const |-> FALSE, n |-> n, silent |-> FALSE]
ConstReg(n) == [const |-> TRUE, n |-> n, silent |-> FALSE]
NoReg == Reg(-1)

BC_RESERVED_REGS == 100
BC_RESERVED_CREGS == 300
NewGenerator == [code |-> <<>>, reg |-> BC_RESERVED_REGS, creg |-> BC_RESERVED_CREGS,
                 saved |-> <<>>, val |-> NoReg, place |-> <<>>, lists |-> 0, broken |-> ""]

-----------------------------------------------------------------------------
(* Registers and opcodes *)

Put(g, op) == [g EXCEPT !.code = Append(@, op)]
Effect(g, name, src, arg) == Put(g, Op(name, NoReg, src, arg))
\* An opcode whose result goes to the next register.
Result(g, name, src, arg) ==
    [Put(g, Op(name, Reg(g.reg), src, arg)) EXCEPT !.reg = @ + 1, !.val = Reg(g.reg)]
Constant(g, literal) ==
    [Put(g, Op("STORE_VALUE", ConstReg(g.creg), <<>>, literal))
        EXCEPT !.creg = @ + 1, !.val = ConstReg(g.creg)]
Reserve(g, n) == [g EXCEPT !.reg = @ + n]
Silent(g) == [g EXCEPT !.val.silent = TRUE]
Valued(g, val) == [g EXCEPT !.val = val]

\* The value in a register: a constant is copied to one.
get_ncreg(g) == IF g.val.const THEN Result(g, "STORE_CONST", <<g.val>>, None) ELSE g

push_reg_scope(g, n) ==
    [g EXCEPT !.saved = Append(@, <<g.reg, g.creg>>), !.reg = n, !.creg = 0]
pop_reg_scope(g) ==
    [g EXCEPT !.reg = Last(g.saved)[1], !.creg = Last(g.saved)[2], !.saved = Front(@)]

\* The address of the next opcode; the target of a jump, once it is known.
Here(g) == Len(g.code)
JumpHere(g, address) == [g EXCEPT !.code[address + 1].arg = Len(g.code)]

\* An operator with its left operand, the right one being the value of g.  Of
\* two constants one is copied to a register.
CombinedBackwards(name, left, g) ==
    LET h == IF left.const THEN get_ncreg(g) ELSE g
    IN  Result(h, name, IF left.const THEN <<h.val, left>> ELSE <<left, h.val>>, None)
Combined(name, left, g) ==
    LET h == IF left.const THEN get_ncreg(g) ELSE g
    IN  Result(h, name, <<left, h.val>>, None)

OpcodeOf ==
    [o \in BinOps \union SetOps \union {"[]"} |->
        CASE o \in {"++", "++="} -> "CONCAT" [] o \in {"^", "^="} -> "EXP"
          [] o \in {"+", "+="} -> "ADD" [] o \in {"-", "-="} -> "SUB"
          [] o \in {"/", "/="} -> "DIV" [] o \in {"*", "*="} -> "MUL"
          [] o \in {"%", "%="} -> "MOD" [] o = "==" -> "EQ" [] o = "!=" -> "NEQ"
          [] o = ">" -> "BT" [] o = "<" -> "LT" [] o = ">=" -> "BEQ" [] o = "<=" -> "LEQ"
          [] o = "and" -> "AND" [] o = "or" -> "OR" [] o = "xor" -> "XOR"
          [] o = "in" -> "IN" [] o = "[]" -> "SUBSC" [] OTHER -> "NONE"]

-----------------------------------------------------------------------------
RECURSIVE Emit(_, _)

Statements == {"Module", "Raise", "Return", "Function", "Class", "Space", "Enum", "If",
               "Switch", "ForLoop", "While", "DoWhile", "Import", "Try", "Assert",
               "Break", "Continue", "Annotation", "EndOfFile"}

\* The value of a standalone expression goes to the notes, unless it is silent.
output(g) ==
    IF g.val.silent THEN g
    ELSE LET h == get_ncreg(g) IN Effect(h, "OUTPUT", <<h.val>>, None)

EmitBlock(body, g) ==
    FoldLeft(LAMBDA h, d : IF d.k \in Statements THEN Emit(d, h) ELSE output(Emit(d, h)),
             g, body)

-----------------------------------------------------------------------------
(* Operators *)

EmitArithmetic(e, g) ==
    LET l == Emit(e.left, g)
        Right(h) == Combined(OpcodeOf[e.op], l.val, h)
    IN  Right(Emit(e.right, l))

EmitShortCircuit(e, g) ==
    LET l == get_ncreg(Emit(e.left, g))
        res_reg == l.reg
        jump == Result(l, "STORE", <<l.val>>, None)
        test == Effect(jump, IF e.op = "&&" THEN "JMP_IF_TRUE" ELSE "JMP_IF_FALSE",
                       <<l.val>>, Here(jump) + 2)
        Rest(h) == Valued(JumpHere(Put(h, Op("STORE", Reg(res_reg), <<h.val>>, None)),
                                   Here(test)), Reg(res_reg))
    IN  Rest(get_ncreg(Emit(e.right, Effect(test, "JMP", <<>>, 0))))

EmitAccess(e, g) ==
    LET h == get_ncreg(Emit(e.left, g))
    IN  Result(h, "LOAD_ATTR", <<h.val>>,
               CASE e.right.k = "Variable" -> e.right.name
                 [] e.right.k = "Operator" -> e.right.op
                 [] OTHER -> "super")

EmitUnary(e, g) ==
    LET v == IF e.op = "::" THEN g ELSE Emit(e.expr, g)
    IN  CASE e.op \in {"not", "-"} ->
               LET h == get_ncreg(v)
               IN  Result(h, IF e.op = "-" THEN "NEG" ELSE "NOT", <<h.val>>, None)
          [] e.op = "~" -> Silent(Valued(v, Reg(v.reg - 1)))
          [] e.op = "::" -> Result(v, "LOAD_GLOBAL", <<>>, e.expr.name)
          [] e.op = "<<" ->
               LET h == get_ncreg(v)
               IN  Silent(Valued(Effect(h, "PUSH_UNPACKED", <<h.val>>, None), v.val))

-----------------------------------------------------------------------------
(* Assignments *)

\* The index and the object of an element, or the object of an attribute.
EmitPlace(target, g) ==
    LET i == IF target.op = "[]" THEN Emit(target.right, g) ELSE g
        Placed(h) == [h EXCEPT !.place = IF target.op = "[]" THEN <<h.val, i.val>>
                                         ELSE <<h.val>>]
    IN  Placed(get_ncreg(Emit(target.left, i)))

\* The value v is stored there, and is the value of the assignment.
Stored(target, v, g) ==
    Silent(Valued(Effect(g, IF target.op = "[]" THEN "STORE_SUBSC" ELSE "STORE_ATTR",
                         <<v>> \o g.place,
                         IF target.op = "[]" THEN "" ELSE target.right.name), v))

SetVariable(name, g) ==
    LET h == Result(g, IF g.val.const THEN "STORE_CONST" ELSE "STORE", <<g.val>>, None)
    IN  Silent(Effect(h, "STORE_NAME", <<h.val>>, name))

SetByName(opcode, name, g) ==
    LET h == get_ncreg(g) IN Effect(h, opcode, <<h.val>>, name)

\* One variable of several: the value is in register reg.
SetOneOf(target, reg, g) ==
    CASE target.k = "Variable" -> Effect(g, "STORE_NAME", <<reg>>, target.name)
      [] target.k = "BinaryExpr" -> Stored(target, reg, EmitPlace(target, g))
      [] OTHER -> g

\* The value is first made a list, by a call of List.
SetEach(mva, g) ==
    LET right == get_ncreg(g)
        fun == Result(Effect(right, "PUSH_CALL_FRAME", <<>>, None), "LOAD", <<>>, "List")
        list == Result(Effect(fun, "PUSH_ARG", <<right.val>>, None), "CALL", <<fun.val>>, None)
        One(h, i) ==
            LET index == Constant(h, IntLiteral(i - 1))
                value == Result(index, IF i = Len(mva.vars) THEN "SUBSCLAST" ELSE "SUBSC",
                                <<list.val, index.val>>, None)
            IN  SetOneOf(mva.vars[i], value.val, value)
    IN  Silent(Valued(FoldLeft(One, list, [i \in DOMAIN mva.vars |-> i]), list.val))

\* With a ... variable: the registers of all are put in a list, that SUBSCREST
\* fills; the names are stored before that, the elements and attributes after.
SetRest(mva, g) ==
    LET right == get_ncreg(g)
        fun == Result(Effect(right, "PUSH_CALL_FRAME", <<>>, None), "LOAD", <<>>, "List")
        list == Result(Effect(fun, "PUSH_ARG", <<right.val>>, None), "CALL", <<fun.val>>, None)
        vars == Result(list, "BUILD_LIST", <<>>, None)
        Used(i) == Reg(vars.reg + i - 1)
        Name(h, i) ==
            LET named == IF Is(mva.vars[i], "Variable") THEN SetOneOf(mva.vars[i], Used(i), h)
                         ELSE h
                number == Constant(Reserve(named, 1), IntLiteral(Used(i).n))
            IN  Effect(number, "LIST_PUSH", <<vars.val, number.val>>, None)
        Filled(h) ==
            LET rest == Constant(h, IntLiteral(mva.rest_index))
            IN  Effect(rest, "SUBSCREST", <<vars.val, list.val, rest.val>>, None)
        Place(h, i) == IF Is(mva.vars[i], "Variable") THEN h ELSE SetOneOf(mva.vars[i], Used(i), h)
        indices == [i \in DOMAIN mva.vars |-> i]
    IN  Silent(Valued(FoldLeft(Place, Filled(FoldLeft(Name, vars, indices)), indices), list.val))

\* The right side is generated first, then the index and the object.  A global
\* variable is read before that, though its value is not used.
EmitSet(e, g) ==
    LET target == e.left
        right == Emit(e.right, IF Is(target, "UnaryExpr") THEN Emit(target, g) ELSE g)
    IN  CASE target.k = "Variable" /\ ~target.non_local -> SetVariable(target.name, right)
          [] target.k = "Variable" /\ target.non_local ->
               Silent(Valued(SetByName("STORE_NON_LOC", target.name, right), right.val))
          [] target.k = "BinaryExpr" -> Stored(target, right.val, EmitPlace(target, right))
          [] target.k = "UnaryExpr" -> Silent(SetByName("STORE_GLOBAL", target.expr.name, right))
          [] target.k = "Multivar" /\ target.rest_index >= 0 -> SetRest(target, right)
          [] target.k = "Multivar" -> SetEach(target, right)

\* x += y.  A local variable is computed in the register it was loaded to; the
\* value of the assignment to a global or non-local one is that of before.  The
\* index and the object of an element are generated twice.
EmitCompound(e, g) ==
    LET target == e.left
        left == Emit(target, g)
        right == Emit(e.right, left)
        Computed(h) == Result(h, OpcodeOf[e.op], <<left.val, right.val>>, None)
        InPlace == Put(right, Op(OpcodeOf[e.op], left.val, <<left.val, right.val>>, None))
    IN  CASE target.k = "Variable" /\ ~target.non_local ->
               Silent(Valued(Effect(InPlace, "STORE_NAME", <<left.val>>, target.name), left.val))
          [] target.k = "Variable" /\ target.non_local ->
               Silent(Valued(SetByName("STORE_NON_LOC", target.name, Computed(right)), left.val))
          [] target.k = "UnaryExpr" ->
               Silent(Valued(SetByName("STORE_GLOBAL", target.expr.name, Computed(right)),
                             left.val))
          [] target.k = "BinaryExpr" ->
               LET c == Computed(EmitPlace(target, right)) IN Stored(target, c.val, c)

EmitBinary(e, g) ==
    CASE e.op = "=" -> EmitSet(e, g)
      [] is_set_op(e.op) -> EmitCompound(e, g)
      [] e.op \in {"&&", "||"} -> EmitShortCircuit(e, g)
      [] e.op = "." -> EmitAccess(e, g)
      [] OTHER -> EmitArithmetic(e, g)

-----------------------------------------------------------------------------
(* Other expressions *)

PushOne(g, list, value) ==
    LET h == Emit(value, g) IN Effect(h, "LIST_PUSH", <<list, h.val>>, None)
EmitList(vals, g) ==
    LET list == Result(g, "BUILD_LIST", <<>>, None)
        Push(h, v) == PushOne(h, list.val, v)
    IN  Valued(FoldLeft(Push, list, vals), list.val)

EmitDict(e, g) ==
    LET keys == EmitList(e.keys, g)
        vals == EmitList(e.vals, keys)
    IN  Result(vals, "BUILD_DICT", <<keys.val, vals.val>>, None)

\* A comprehension is generated as loops that append to a list with a name of
\* its own.
as_for(e, name) ==
    LET Added(x) == BinaryExpr("+=", Variable(name, FALSE), ListOf(<<x>>))
        Inner == IF Is(e.cond, "None") THEN Added(e.result)
                 ELSE IfThen(e.cond, <<Added(e.result)>>,
                             IF Is(e.otherwise, "None") THEN None
                             ELSE ElseOf(<<Added(e.otherwise)>>))
    IN  <<BinaryExpr("=", Variable(name, FALSE), ListOf(<<>>)),
          FoldRight(LAMBDA assign, body : ForLoop(assign.left, assign.right, <<body>>),
                    e.assigns, Inner)>>

EmitComprehension(e, g) ==
    LET name == ToString(g.lists) \o "cl"
    IN  Result(EmitBlock(as_for(e, name), [g EXCEPT !.lists = @ + 1]), "LOAD", <<>>, name)

EmitNote(e, g) ==
    LET note == Constant(g, StringLiteral(e.text))
    IN  Result(Effect(Effect(note, "PUSH_CALL_FRAME", <<>>, None), "PUSH_ARG", <<note.val>>, None),
               "CALL_FORMATTER", <<>>, e.format)

EmitArg(g, arg) ==
    CASE Is(arg, "BinaryExpr") /\ arg.op = "=" ->
            LET h == get_ncreg(Emit(arg.right, g))
            IN  Effect(h, "PUSH_NAMED_ARG", <<h.val>>,
                       IF Is(arg.left, "This") THEN "this" ELSE arg.left.name)
      [] Is(arg, "UnaryExpr") /\ arg.op = "<<" -> Emit(arg, g)
      [] OTHER -> LET h == Emit(arg, g) IN Effect(h, "PUSH_ARG", <<h.val>>, None)

\* The receiver of a method is pushed as an argument named this, after the
\* others: its code is generated again for that.
EmitCall(e, g) ==
    LET fun == get_ncreg(Emit(e.fun, Effect(g, "PUSH_CALL_FRAME", <<>>, None)))
        This(h) ==
            IF Is(e.fun, "BinaryExpr") /\ e.fun.op = "."
            THEN LET ths == get_ncreg(Emit(e.fun.left, h))
                 IN  Effect(ths, "PUSH_NAMED_ARG", <<ths.val>>, "this")
            ELSE h
    IN  Result(This(FoldLeft(EmitArg, fun, e.args)), "CALL", <<fun.val>>, None)

\* The three operands of CREATE_RANGE may each be constants, but for the second
\* value when the first is one.
EmitRange(e, g) ==
    LET start == Emit(e.start, g)
        end == Emit(e.end, start)
        second == IF Is(e.second, "None") THEN Constant(end, NilLiteral)
                  ELSE LET s == Emit(e.second, end)
                       IN  IF start.val.const THEN get_ncreg(s) ELSE s
    IN  Result(second, "CREATE_RANGE", <<start.val, second.val, end.val>>, None)

\* One of two values is stored in the register res_reg.
EmitInto(value, res_reg, g) ==
    LET h == Emit(value, g)
    IN  Put(h, Op(IF h.val.const THEN "STORE_CONST" ELSE "STORE", res_reg, <<h.val>>, None))

EmitTernary(e, g) ==
    LET cond == get_ncreg(Emit(e.cond, g))
        res_reg == Reg(cond.reg)
        test == Effect(Reserve(cond, 1), "JMP_IF_FALSE", <<cond.val>>, 0)
        yes == EmitInto(e.yes, res_reg, test)
        jump == JumpHere(Effect(yes, "JMP", <<>>, 0), Here(cond))
        no == EmitInto(e.no, res_reg, jump)
    IN  Valued(JumpHere(no, Here(yes)), res_reg)

-----------------------------------------------------------------------------
(* Functions *)

EmitAnnotations(annots, reg, g) ==
    LET One(h, a) ==
            LET v == get_ncreg(Emit(a.value, h))
            IN  Effect(v, "ANNOTATE", <<reg, v.val>>, a.name)
    IN  FoldLeft(One, g, annots)

EmitDocument(docs, reg, g) ==
    IF docs = 0 THEN g ELSE Effect(g, "DOCUMENT", <<reg>>, docs)

\* What is known of argument i: that it is ..., or its default value and types.
EmitArgument(a, i, fun, g) ==
    LET Type(h, t) ==
            LET v == get_ncreg(Emit(t, h)) IN Effect(v, "SET_TYPE", <<fun, v.val>>, i)
        Default(h) == Effect(h, "SET_DEFAULT", <<fun, h.val>>, i)
    IN  IF a.vararg THEN Effect(g, "SET_VARARG", <<fun>>, i)
        ELSE FoldLeft(Type, IF Is(a.default, "None") THEN g ELSE Default(Emit(a.default, g)),
                      a.types)

is_staticmethod(fun) ==
    \E i \in DOMAIN fun.annots :
        fun.annots[i].name = "static_method" /\ Is(fun.annots[i].value, "Nil")

\* The names of the arguments, with this for a method.
encode_fun_args(fun, method) ==
    [i \in DOMAIN fun.args |-> fun.args[i].name] \o (IF method THEN <<"this">> ELSE <<>>)

\* Up to the body, that is jumped over; the frame of the call is popped in it.
\* Its registers start behind the arguments and one for this.
FunctionHead(fun, names, docs, g) ==
    LET made == Result(g, "CREATE_FUN", <<>>, [name |-> fun.name, args |-> names])
        noted == EmitDocument(docs, made.val, EmitAnnotations(fun.annots, made.val, made))
        Arg(h, i) == EmitArgument(fun.args[i], i - 1, made.val, h)
        args == FoldLeft(Arg, noted, [i \in DOMAIN fun.args |-> i])
        begun == Effect(Effect(args, "FUN_BEGIN", <<made.val>>, None), "JMP", <<>>, 0)
    IN  push_reg_scope(Effect(begun, "POP_CALL_FRAME", <<>>, None), Len(fun.args) + 1)

\* The jump over the body is two opcodes before it.
FunctionEnd(head, g) == pop_reg_scope(JumpHere(g, Here(head) - 2))
Returned(g) == Effect(g, IF g.val.const THEN "RETURN_CONST" ELSE "RETURN", <<g.val>>, None)

EmitWithoutReturn(fun, g) ==
    LET head == FunctionHead(fun, encode_fun_args(fun, fun.method /\ ~fun.constructor
                                                          /\ ~is_staticmethod(fun)), fun.docs, g)
    IN  FunctionEnd(head, EmitBlock(fun.body, head))
EmitFunction(fun, g) ==
    LET head == FunctionHead(fun, encode_fun_args(fun, fun.method /\ ~fun.constructor
                                                          /\ ~is_staticmethod(fun)), fun.docs, g)
    IN  FunctionEnd(head, Returned(Constant(EmitBlock(fun.body, head), NilLiteral)))

EmitLambda(fun, g) ==
    LET head == FunctionHead(fun, encode_fun_args(fun, fun.method /\ ~is_staticmethod(fun)), 0, g)
    IN  Silent(Valued(FunctionEnd(head, Returned(Emit(fun.body, head))), Reg(g.reg)))

-----------------------------------------------------------------------------
(* Constructs *)

EmitIf(e, g) ==
    LET cond == get_ncreg(Emit(e.cond, g))
        body == EmitBlock(e.body, Effect(cond, "JMP_IF_FALSE", <<cond.val>>, 0))
        done == JumpHere(Effect(body, "JMP", <<>>, 0), Here(cond))
    IN  IF Is(e.else, "None") THEN JumpHere(body, Here(cond))
        ELSE JumpHere(EmitBlock(e.else.body, done), Here(body))

\* The values of all cases are put in one list, and for each of them the address
\* of its body in another: a constant that is set when the body is generated.
EmitSwitch(e, g) ==
    LET cond == get_ncreg(Emit(e.expr, g))
        val_list == Reg(cond.reg)
        addr_list == Reg(cond.reg + 1)
        Push(h, v) == PushOne(h, val_list, v)
        List(h, list) == Put(h, Op("BUILD_LIST", list, <<>>, None))
        values == FlattenSeq([c \in DOMAIN e.body |-> e.body[c].values])
        vals == List(FoldLeft(Push, List(Reserve(cond, 2), val_list), values), addr_list)
        Address(h, v) ==
            LET a == Constant(h, IntLiteral(0))
            IN  Effect(a, "LIST_PUSH", <<addr_list, a.val>>, None)
        addrs == FoldLeft(Address, vals, values)
        switch == Effect(addrs, "SWITCH", <<cond.val, val_list, addr_list>>, 0)
        Before(c) == FoldLeft(LAMBDA n, b : n + Len(b.values), 0, SubSeq(e.body, 1, c - 1))
        Addressed(h, c) ==
            IF e.body[c].default THEN JumpHere(h, Here(addrs))
            ELSE FoldLeft(LAMBDA j, i : [j EXCEPT !.code[Here(vals) + 2 * i + 1].arg =
                                                        IntLiteral(Here(h))],
                          h, [i \in 1 .. Len(e.body[c].values) |-> Before(c) + i - 1])
        Case(h, c) == Effect(EmitBlock(e.body[c].body, Addressed(h, c)), "END_CASE", <<>>, 0)
        cases == FoldLeft(Case, switch, [c \in DOMAIN e.body |-> c])
        AtEnd(op) == IF op.op = "END_CASE" THEN Op("JMP", NoReg, <<>>, Here(cases)) ELSE op
        all == IF cases.code[Here(addrs) + 1].arg = 0 THEN JumpHere(cases, Here(addrs)) ELSE cases
    IN  [all EXCEPT !.code = [i \in DOMAIN @ |-> IF i > Here(switch) THEN AtEnd(@[i]) ELSE @[i]]]

\* The breaks and continues from start to end that are not set yet.
UpdateBreaksOnly(g, start, end, brk, cont) ==
    [g EXCEPT !.code = [i \in DOMAIN @ |->
        IF i \in start + 1 .. end /\ @[i].op = "BREAK" THEN Op("BREAK_TO", NoReg, <<>>, brk)
        ELSE @[i]]]
update_jmps(g, start, end, brk, cont) ==
    LET Updated(op) == CASE op.op = "BREAK" -> Op("BREAK_TO", NoReg, <<>>, brk)
                         [] op.op = "CONTINUE" -> Op("BREAK_TO", NoReg, <<>>, cont)
                         [] OTHER -> op
    IN  [g EXCEPT !.code = [i \in DOMAIN @ |-> IF i \in start + 1 .. end THEN Updated(@[i])
                                               ELSE @[i]]]

\* The end of a loop that starts at address start and is left when the jump at
\* address test is taken.
LeftTooEarly(start, test, g) ==
    LET set == update_jmps(g, start, Here(g), Here(g), start)
    IN  Effect(JumpHere(Effect(set, "JMP", <<>>, start), test), "LOOP_END", <<>>, None)
LeftTooFar(start, test, g) ==
    LET set == update_jmps(g, start, Here(g), Here(g) + 2, start)
    IN  Effect(JumpHere(Effect(set, "JMP", <<>>, start), test), "LOOP_END", <<>>, None)
LoopEnd(start, test, g) ==
    LET set == update_jmps(g, start, Here(g), Here(g) + 1, start)
    IN  Effect(JumpHere(Effect(set, "JMP", <<>>, start), test), "LOOP_END", <<>>, None)

EmitWhile(e, g) ==
    LET begun == Effect(g, "LOOP_BEGIN", <<>>, None)
        cond == get_ncreg(Emit(e.cond, begun))
    IN  LoopEnd(Here(begun), Here(cond),
                EmitBlock(e.body, Effect(cond, "JMP_IF_FALSE", <<cond.val>>, 0)))

EmitDoWhile(e, g) ==
    LET begun == Effect(g, "LOOP_BEGIN", <<>>, None)
        body == EmitBlock(e.body, begun)
        cond == get_ncreg(Emit(e.cond, body))
        test == Effect(cond, "JMP_IF_TRUE", <<cond.val>>, Here(begun))
    IN  Effect(update_jmps(test, Here(begun), Here(test) - 1, Here(test), Here(body)),
               "LOOP_END", <<>>, None)

\* The variable starts as nil, and is named when there is an element for it.
EmitForOne(e, g) ==
    LET nil == Constant(Reserve(g, 1), NilLiteral)
        iter == Reg(g.reg)
        coll == get_ncreg(Emit(e.collection,
                               Put(nil, Op("STORE_CONST", iter, <<nil.val>>, None))))
        start == Result(Effect(coll, "LOOP_BEGIN", <<>>, None), "ITER", <<coll.val>>, None)
        for == Put(start, Op("FOR", iter, <<start.val>>, 0))
    IN  LoopEnd(Here(start), Here(start),
                EmitBlock(e.body, Effect(for, "STORE_NAME", <<iter>>, e.iterator.name)))

\* With several variables: their registers are put in a list.
EmitForMulti(e, g) ==
    LET vars == e.iterator.vars
        list == Result(g, "BUILD_LIST", <<>>, None)
        Var(i) == Reg(list.reg + i - 1)
        Declare(h, i) ==
            LET nil == Constant(Reserve(h, 1), NilLiteral)
                number == Constant(Put(nil, Op("STORE_CONST", Var(i), <<nil.val>>, None)),
                                   IntLiteral(Var(i).n))
            IN  Effect(number, "LIST_PUSH", <<list.val, number.val>>, None)
        indices == [i \in DOMAIN vars |-> i]
        coll == get_ncreg(Emit(e.collection, FoldLeft(Declare, list, indices)))
        start == Result(Effect(coll, "LOOP_BEGIN", <<>>, None), "ITER", <<coll.val>>, None)
        rest == Constant(start, IntLiteral(e.iterator.rest_index))
        for == Put(rest, Op("FOR_MULTI", list.val, <<start.val, rest.val>>, 0))
        Name(h, i) == Effect(h, "STORE_NAME", <<Var(i)>>, vars[i].name)
    IN  LoopEnd(Here(start), Here(rest), EmitBlock(e.body, FoldLeft(Name, for, indices)))

EmitAssert(e, g) ==
    LET cond == get_ncreg(Emit(e.cond, g))
        line == Constant(cond, IntLiteral(0))
        msg == get_ncreg(IF Is(e.msg, "None") THEN Constant(line, StringLiteral(<<>>))
                         ELSE Emit(e.msg, line))
    IN  Effect(msg, "ASSERT", <<cond.val, line.val, msg.val>>, None)

-----------------------------------------------------------------------------
(* Imports, classes, spaces and enums *)

\* Elements of an import: the first name is a module, after a :: a variable.
RECURSIVE EmitImportExpr(_, _, _)
EmitImportExpr(e, space, g) ==
    CASE e.k = "Variable" ->
            Result(g, IF ~space THEN "IMPORT"
                      ELSE IF e.non_local THEN "LOAD_NONLOC" ELSE "LOAD", <<>>, e.name)
      [] e.k = "BinaryExpr" ->
            LET h == EmitImportExpr(e.left, space, g)
            IN  IF Is(e.right, "AllSymbols")
                THEN Effect(h, "IMPORT_ALL", <<Reg(h.reg - 1)>>, None)
                ELSE Result(h, "LOAD_ATTR", <<Reg(h.reg - 1)>>, e.right.name)
      [] e.k = "UnaryExpr" -> IF space THEN Result(g, "LOAD_GLOBAL", <<>>, e.expr.name)
                              ELSE EmitImportExpr(e.expr, TRUE, g)

EmitImport(e, g) ==
    LET One(h, i) ==
            LET n == EmitImportExpr(e.names[i], FALSE, h)
            IN  IF Last(n.code).op = "IMPORT_ALL" THEN n
                ELSE Effect(n, "STORE_NAME", <<Reg(n.reg - 1)>>, e.aliases[i])
    IN  FoldLeft(One, g, [i \in DOMAIN e.names |-> i])

EmitModule(e, g) ==
    LET str == Constant(g, StringLiteral(e.docs))
        doc == Result(str, "STORE_CONST", <<str.val>>, None)
    IN  EmitBlock(e.body, IF e.docs = 0 THEN g
                          ELSE Effect(doc, "STORE_NAME", <<doc.val>>, "__doc"))

\* The frame that BUILD_CLASS pushes is popped at the end of the body.  In it
\* the class itself is found by its name.
Named(e, g) ==
    LET self == Result(g, "LOAD", <<>>, e.name)
    IN  EmitDocument(e.docs, self.val, EmitAnnotations(e.annots, self.val, self))

EmitClass(e, g) ==
    LET Parent(h, p) ==
            LET v == get_ncreg(Emit(p, h)) IN Effect(v, "PUSH_PARENT", <<v.val>>, None)
        built == Result(FoldLeft(Parent, g, e.parents), "BUILD_CLASS", <<>>, e.name)
    IN  pop_reg_scope(Effect(EmitBlock(e.body, Named(e, push_reg_scope(built, 0))),
                             "POP_FRAME", <<>>, None))

\* The registers of a space go on counting, though its frame has its own.
EmitSpace(e, g) ==
    Effect(EmitBlock(e.body, Named(e, Result(g, "BUILD_SPACE", <<>>, e.name))),
           "POP_FRAME", <<>>, None)

EmitEnum(e, g) ==
    LET list == EmitList([i \in DOMAIN e.values |-> StringLiteral(e.values[i])], g)
        enum == Result(list, "BUILD_ENUM", <<list.val>>, e.name)
    IN  EmitDocument(e.docs, enum.val, enum)

-----------------------------------------------------------------------------

EmitExpression(e, g) ==
    CASE is_constant(e) -> Constant(g, e)
      [] e.k = "List" -> EmitList(e.vals, g)
      [] e.k = "Comprehension" -> EmitComprehension(e, g)
      [] e.k = "Dict" -> EmitDict(e, g)
      [] e.k = "Note" -> EmitNote(e, g)
      [] e.k = "BinaryExpr" -> EmitBinary(e, g)
      [] e.k = "UnaryExpr" -> EmitUnary(e, g)
      [] e.k = "Variable" ->
            Result(g, IF e.non_local THEN "LOAD_NONLOC" ELSE "LOAD", <<>>, e.name)
      [] e.k = "This" -> Result(g, "LOAD", <<>>, "this")
      [] e.k = "Super" -> Result(g, "LOAD", <<>>, "super")
      [] e.k = "Operator" -> Result(g, "LOAD", <<>>, e.op)
      [] e.k = "Call" -> EmitCall(e, g)
      [] e.k = "Range" -> EmitRange(e, g)
      [] e.k = "TernaryIf" -> EmitTernary(e, g)
      [] e.k = "Lambda" -> EmitLambda(e, g)
      [] OTHER -> [g EXCEPT !.broken = "an expression is not generated"]

EmitStatement(e, g) ==
    CASE e.k = "Module" -> EmitModule(e, g)
      [] e.k = "Raise" ->
            LET h == get_ncreg(Emit(e.expr, g)) IN Effect(h, "RAISE", <<h.val>>, None)
      [] e.k = "Return" -> Returned(Emit(e.expr, g))
      [] e.k = "Function" -> EmitFunction(e, g)
      [] e.k = "Class" -> EmitClass(e, g)
      [] e.k = "Space" -> EmitSpace(e, g)
      [] e.k = "Enum" -> EmitEnum(e, g)
      [] e.k = "If" -> EmitIf(e, g)
      [] e.k = "Switch" -> EmitSwitch(e, g)
      [] e.k = "ForLoop" ->
            IF Is(e.iterator, "Multivar") THEN EmitForMulti(e, g) ELSE EmitForOne(e, g)
      [] e.k = "While" -> EmitWhile(e, g)
      [] e.k = "DoWhile" -> EmitDoWhile(e, g)
      [] e.k = "Import" -> EmitImport(e, g)
      [] e.k = "Assert" -> EmitAssert(e, g)
      [] e.k = "Break" -> Effect(g, "BREAK", <<>>, 0)
      [] e.k = "Continue" -> Effect(g, "CONTINUE", <<>>, 0)
      [] e.k = "Annotation" ->
            LET h == get_ncreg(Emit(e.value, g)) IN Effect(h, "ANNOTATE_MOD", <<h.val>>, e.name)
      [] e.k = "EndOfFile" -> Effect(g, "END", <<>>, None)

Emit(node, g) == IF node.k \in Statements THEN EmitStatement(node, g) ELSE EmitExpression(node, g)

generate(node) == Emit(node, NewGenerator)
=============================================================================
