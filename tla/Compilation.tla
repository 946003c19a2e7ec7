----------------------------- MODULE Compilation ----------------------------
(***************************************************************************)
(* The passes, the generator and the interpreter together do to a program  *)
(* what Meaning says: the properties of the whole way from the tree to the *)
(* output.  What the code is known to do otherwise is named in Meaning     *)
(* (odd, Missed) and here (Faulty), and left out of the comparison.        *)
(***************************************************************************)
EXTENDS Machine, Meaning

\* The compiler itself fails, or folds what it should leave: constants whose
\* folding faults, a float divided by zero (inf, where an error is raised when the
\* program does it), a silenced constant where one value is needed, and a branch
\* that takes the place of an if and is still linked to the freed else.
Breakdowns == {"division by zero", "invalid literal float op", "a freed node is read",
               "a child cannot be removed"}
Silenced(e) == Is(e, "UnaryExpr") /\ e.op = "~" /\ is_constant(e.expr)
RECURSIVE Faulty(_)
Faulty(e) ==
    \/ Is(e, "BinaryExpr") /\ is_constant(e.left) /\ is_constant(e.right)
       /\ \/ BreaksFolding(e.op, e.left, e.right) # ""
          \/ "Float" \in {e.left.k, e.right.k} /\ Divides(e.op) /\ e.right \in {IntLiteral(0), FloatLiteral(0)}
    \/ Is(e, "If") /\ IsBool(e.cond, FALSE) /\ ~Is(e.else, "None")
       /\ \E i \in DOMAIN e.else.body : e.else.body[i].k \in {"Break", "Continue", "Return"}
    \/ e.k \in DOMAIN NodeFields /\ \E f \in ToSet(NodeFields[e.k]) : Silenced(e[f])
    \/ \E i \in DOMAIN Children(e) : Faulty(Children(e)[i])

\* Comparisons of the end with the meaning are made where none of that is met.
Comparable == IsLegal(program) /\ ~Faulty(program)
Agrees(m) ==
    LET end == IF m.known # <<>> THEN m.known[1] ELSE [sig |-> m.sig, out |-> m.out]
    IN  m.odd = {} \/ m.known # <<>> => ended = end.sig /\ out = end.out

-----------------------------------------------------------------------------
(* Properties *)

\* Frames are pools, each with its constants and, from the second on, with the
\* call that entered it or the class or space that is built in it; what a class is
\* going to inherit from are classes, none of them twice.
TypeOK ==
    /\ bci \in 0 .. Len(code)
    /\ frames # <<>> /\ Range(frames) \subseteq DOMAIN pools
    /\ Len(consts) = Len(frames)
    /\ \A id \in DOMAIN pools : pools[id].owner \in {NoOwner} \union DOMAIN heap
    /\ \A i \in 2 .. Len(frames) : pools[frames[i]].owner # NoOwner
    /\ \A i \in DOMAIN calls : calls[i].fun \in {0} \union DOMAIN heap
    /\ Cardinality(ToSet(parents)) = Len(parents)
    /\ \A class \in ToSet(parents) : heap[class].k = "Class"

\* Several variables, one with ..., are named before SUBSCREST stores them; when
\* it raises an error instead the names stay without a value.
NamedFirst == \E i \in bci + 1 .. Len(code) :
    /\ code[i].op = "SUBSCREST"
    /\ \A j \in bci + 1 .. i - 1 : code[j].op \in {"STORE_NAME", "STORE_VALUE", "LIST_PUSH"}

\* What the code asserts or takes for granted: the next opcode is one (none is
\* left that the generator should have replaced, no jump leads out of the code); a
\* register that is read was written in this frame (MemoryPool::load), a name
\* stands for one that was; the stack of loops is not popped when it is empty; the
\* compiler does not break down, but where that is known.  That no assertion fails
\* and no null pointer is read, but where that is known, is in AsWritten: no
\* meaning ends so.
AssertionsHold ==
    /\ ended = "" => bci < Len(code) /\ Fetch.op \in Opcodes
    /\ \A id \in DOMAIN pools : pools[id].loops >= 0 \/ Missed(program, {})
    /\ \A name \in DOMAIN pools[Top].names :
         pools[Top].names[name] \in DOMAIN pools[Top].regs \/ NamedFirst
    /\ ended \in Breakdowns => Faulty(program)
    /\ ended = "an unknown register is read" => Missed(program, {})

\* A program that runs to its end writes what its meaning writes and ends as that
\* does: by the same error, or without one (expressions, statements, opcodes).
AsWritten ==
    ended \notin {"", "refused"} /\ Comparable => Agrees(Meaning(program))

\* The analyzers refuse the programs that break a rule of the language, and no
\* other (ir_pipeline.cpp; the rules: Legal in Meaning).
RefusesIllegal ==
    ended \notin Breakdowns /\ ~Missed(program, {}) => ((ended = "refused") = ~IsLegal(program))

\* While a function runs, the next opcode is one of its body: no jump, no missing
\* return leads out of it (the jump over a body: bytecodegen.cpp; bci).
StaysInBody ==
    LET owner == OwnerFun(pools[Top])
    IN  ended = "" /\ ~Is(owner, "None") /\ ~Missed(program, {}) =>
            bci >= owner.body /\ bci < code[owner.body].arg

\* At the end of a program the stacks are as they were at its start: no frame, no
\* call and no loop is left behind by a break, a continue or a return.
LeavesNothing ==
    ended = "end" /\ ~Missed(program, {}) =>
        frames = <<1>> /\ calls = <<>> /\ parents = <<>> /\ pools[1].loops = 0

\* Every program here has a meaning, that Meaning finds in finitely many steps:
\* its code ends too, the loops in it are left.
Terminates == <>(ended # "")
=============================================================================
