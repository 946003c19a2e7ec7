--------------------------- MODULE MCBytecodeFile ---------------------------
(* Codes for BytecodeFile: each opcode, alone and before another one. *)
EXTENDS BytecodeFile

\* Strings: empty, the name of an anonymous space, another name.  Numbers are
\* told apart by the operand they are of.
StrLengths == 0 :> 0 @@ 20 :> 2 @@ 30 :> 1
Numerics == {20}

Operands(fields) ==
    {[i \in DOMAIN fields |-> IF fields[i] = "str" THEN s[i] ELSE i] :
        s \in [DOMAIN fields -> DOMAIN StrLengths]}

All == UNION {{Made(op, a) : a \in Operands(Written[op])} : op \in DOMAIN Written}

Load == Made("LOAD", <<1, 30>>)

AllCodes == {<<o>> : o \in All} \union {<<o, Load>> : o \in All}

\* A damaged byte is that of another opcode, or of none.
Others == {<<2, 1>>, <<255, 1>>}

\* None, some bytes of the same file, or more than there are.
Lengths == {0, 3, 1000}

\* No opcode is left out by the writer or the reader, or known to one only.
ASSUME DOMAIN Written = Range(OpCodes) /\ DOMAIN ReadOperands = Range(OpCodes)
=============================================================================
