---------------------------- MODULE BytecodeFile ----------------------------
(***************************************************************************)
(* Bytecode files: BytecodeWriter writes a code opcode by opcode and puts  *)
(* its checksum into the header at the end; BytecodeReader reads opcodes   *)
(* until the file ends and compares the checksum.  The writer may be cut   *)
(* off at any time (the process ends, the disk is full: no write is        *)
(* checked), and what it wrote so far is a prefix of the file.  A file may *)
(* also be damaged before it is read.                                      *)
(*                                                                         *)
(* Writer and reader each know which operands an opcode has: the two       *)
(* tables below.  Nothing in a file says where an opcode ends, so that the *)
(* tables must agree on every field and its size.                          *)
(*                                                                         *)
(* A byte is a pair: the k-th byte of a value.  A checksum stands for the  *)
(* bytes it is computed from: different bytes have different checksums,    *)
(* and that of no bytes is 0, the checksum of a header that was not        *)
(* patched.  The other fields of the header, and the checks of them, are   *)
(* left out.                                                               *)
(***************************************************************************)
EXTENDS Integers, SequencesExt, TLC

CONSTANTS
    Codes,              \* the codes to write: sequences of opcodes
    StrLen,             \* strings, which are numbers here, and their lengths
    Numeric,            \* those that start with a digit
    OtherBytes,         \* what a damaged byte may be
    WildLengths         \* what a length may be that was not written as one

Empty == 0              \* the string of length 0

ASSUME StringAssumption ==
    /\ Numeric \subseteq DOMAIN StrLen /\ DOMAIN StrLen \subseteq Nat
    /\ WildLengths \subseteq Nat
    /\ \A s \in DOMAIN StrLen : StrLen[s] \in Nat /\ (StrLen[s] = 0) = (s = Empty)

VARIABLES
    code,               \* the code that is written
    file,               \* the checksum in the header, and the bytes after it
    written,            \* how many opcodes the writer has written
    crc_checksum,       \* the bytes the writer's, then the reader's checksum
                        \* is computed from
    pos,                \* how far the reader is
    ops,                \* the opcodes it has read
    mode,               \* "write", "read", "verify"; then "accepted",
                        \* "rejected" or "crashed"
    whole               \* the file is as a writer completed it

vars == <<code, file, written, crc_checksum, pos, ops, mode, whole>>

-----------------------------------------------------------------------------
(* The opcodes, in the order of their numbers.                             *)

PlainOpCodes == <<
    "END", "LOAD", "LOAD_ATTR", "LOAD_GLOBAL", "LOAD_NONLOC", "STORE",
    "STORE_NAME", "STORE_CONST", "STORE_ATTR", "STORE_CONST_ATTR",
    "STORE_GLOBAL", "STORE_NONLOC", "STORE_SUBSC", "STORE_CONST_SUBSC",
    "STORE_SUBSC_CONST", "STORE_C_SUBSC_C", "STORE_INT_CONST",
    "STORE_FLOAT_CONST", "STORE_BOOL_CONST", "STORE_STRING_CONST",
    "STORE_NIL_CONST", "JMP", "BREAK_TO", "JMP_IF_TRUE", "JMP_IF_FALSE", "CALL",
    "CALL_FORMATTER", "POP_FRAME", "PUSH_CALL_FRAME", "POP_CALL_FRAME", "RETURN",
    "RETURN_CONST", "PUSH_ARG", "PUSH_CONST_ARG", "PUSH_NAMED_ARG",
    "PUSH_UNPACKED", "CREATE_FUN", "FUN_BEGIN", "SET_DEFAULT",
    "SET_DEFAULT_CONST", "SET_TYPE", "SET_VARARG", "IMPORT", "IMPORT_ALL",
    "PUSH_PARENT", "BUILD_CLASS", "ANNOTATE", "ANNOTATE_MOD", "DOCUMENT",
    "OUTPUT" >>

BinaryOpCodes == <<
    "CONCAT", "EXP", "ADD", "SUB", "DIV", "MUL", "MOD", "EQ", "NEQ", "BT", "LT",
    "BEQ", "LEQ", "IN", "AND", "OR", "XOR", "SUBSC",
    "CONCAT2", "EXP2", "ADD2", "SUB2", "DIV2", "MUL2", "MOD2", "EQ2", "NEQ2",
    "BT2", "LT2", "BEQ2", "LEQ2", "IN2", "AND2", "OR2", "XOR2", "SUBSC2",
    "CONCAT3", "EXP3", "ADD3", "SUB3", "DIV3", "MUL3", "MOD3", "EQ3", "NEQ3",
    "BT3", "LT3", "BEQ3", "LEQ3", "IN3", "AND3", "OR3", "XOR3", "SUBSC3",
    "SUBSCLAST", "SUBSCREST" >>

OtherOpCodes == <<
    "NOT", "NEG", "ASSERT", "RAISE", "CATCH", "CATCH_TYPED", "POP_CATCH",
    "FINALLY", "POP_FINALLY", "FINALLY_RETURN", "RUN_FINALLY", "LIST_PUSH",
    "LIST_PUSH_CONST", "BUILD_LIST", "BUILD_DICT", "BUILD_ENUM", "BUILD_SPACE",
    "CREATE_RANGE", "CREATE_RANGE2", "CREATE_RANGE3", "CREATE_RANGE4",
    "CREATE_RANGE5", "CREATE_RANGE6", "CREATE_RANGE7", "CREATE_RANGE8",
    "SWITCH", "FOR", "FOR_MULTI", "ITER", "LOOP_BEGIN", "LOOP_END" >>

OpCodes == PlainOpCodes \o BinaryOpCodes \o OtherOpCodes

Number == [op \in Range(OpCodes) |-> CHOOSE i \in DOMAIN OpCodes : OpCodes[i] = op]

\* The opcodes with numbers from that of a to that of b.
From(a, b) == {OpCodes[i] : i \in Number[a] .. Number[b]}

\* Operands, by what is written for them.
R == <<"reg">>
RR == <<"reg", "reg">>
RRR == <<"reg", "reg", "reg">>
RRRR == <<"reg", "reg", "reg", "reg">>
RS == <<"reg", "str">>
RRS == <<"reg", "reg", "str">>
RI == <<"reg", "int">>
RIR == <<"reg", "int", "reg">>
A == <<"addr">>
RA == <<"reg", "addr">>

\* Two tables in one; the first one counts where both have an opcode.
t ++ u == [op \in DOMAIN t \union DOMAIN u |-> IF op \in DOMAIN t THEN t[op] ELSE u[op]]

Each(S, operands) == [op \in S |-> operands]

-----------------------------------------------------------------------------
(* What the writer writes for each opcode.                                 *)

WrittenNames ==
    Each({"END"}, <<>>)
    ++ Each({"LOAD", "LOAD_GLOBAL", "LOAD_NONLOC", "STORE_NAME", "STORE_GLOBAL",
             "STORE_NONLOC"}, RS)
    ++ Each({"LOAD_ATTR", "STORE_ATTR", "STORE_CONST_ATTR"}, RRS)
    ++ Each({"STORE", "STORE_CONST"}, RR)
    ++ Each({"STORE_SUBSC", "STORE_CONST_SUBSC", "STORE_SUBSC_CONST",
             "STORE_C_SUBSC_C"}, RRR)

WrittenConstants ==
    Each({"STORE_INT_CONST"}, RI)
    ++ Each({"STORE_FLOAT_CONST"}, <<"reg", "float">>)
    ++ Each({"STORE_BOOL_CONST"}, <<"reg", "bool">>)
    ++ Each({"STORE_STRING_CONST"}, RS)
    ++ Each({"STORE_NIL_CONST"}, R)

WrittenCalls ==
    Each({"JMP", "BREAK_TO"}, A)
    ++ Each({"JMP_IF_TRUE", "JMP_IF_FALSE"}, RA)
    ++ Each({"CALL"}, RR)
    ++ Each({"CALL_FORMATTER", "PUSH_NAMED_ARG"}, RS)
    ++ Each({"POP_FRAME", "PUSH_CALL_FRAME", "POP_CALL_FRAME"}, <<>>)
    ++ Each({"RETURN", "RETURN_CONST", "PUSH_ARG", "PUSH_CONST_ARG",
             "PUSH_UNPACKED"}, R)

WrittenDeclarations ==
    Each({"CREATE_FUN"}, <<"reg", "str", "str">>)
    ++ Each({"FUN_BEGIN", "IMPORT_ALL", "PUSH_PARENT", "OUTPUT"}, R)
    ++ Each({"SET_DEFAULT", "SET_DEFAULT_CONST", "SET_TYPE"}, RIR)
    ++ Each({"SET_VARARG"}, RI)
    ++ Each({"IMPORT", "BUILD_CLASS", "DOCUMENT"}, RS)
    ++ Each({"ANNOTATE"}, <<"reg", "str", "reg">>)
    ++ Each({"ANNOTATE_MOD"}, <<"str", "reg">>)

\* The binary operators are told from the others by their numbers.
WrittenOperators ==
    Each(From("CONCAT", "SUBSCREST"), RRR) ++ Each({"NOT", "NEG"}, RR)

WrittenExceptions ==
    Each({"ASSERT"}, RRR)
    ++ Each({"RAISE", "FINALLY_RETURN"}, R)
    ++ Each({"CATCH"}, <<"str", "addr", "int">>)
    ++ Each({"CATCH_TYPED"}, <<"str", "reg", "addr", "int">>)
    ++ Each({"POP_CATCH"}, <<"int">>)
    ++ Each({"FINALLY"}, <<"addr", "reg">>)
    ++ Each({"POP_FINALLY", "RUN_FINALLY"}, <<>>)

WrittenCollections ==
    Each({"LIST_PUSH", "LIST_PUSH_CONST", "ITER"}, RR)
    ++ Each({"BUILD_LIST"}, R)
    ++ Each({"BUILD_DICT"}, RRR)
    ++ Each({"BUILD_ENUM"}, RRS)
    ++ Each({"BUILD_SPACE"}, RS)
    ++ Each(From("CREATE_RANGE", "CREATE_RANGE8"), RRRR)
    ++ Each({"SWITCH"}, RRRR)
    ++ Each({"FOR"}, <<"reg", "reg", "addr">>)
    ++ Each({"FOR_MULTI"}, <<"reg", "reg", "addr", "reg">>)
    ++ Each({"LOOP_BEGIN", "LOOP_END"}, <<>>)

Written ==
    WrittenNames ++ WrittenConstants ++ WrittenCalls ++ WrittenDeclarations
    ++ WrittenOperators ++ WrittenExceptions ++ WrittenCollections

-----------------------------------------------------------------------------
(* What the reader reads for each opcode.                                  *)

ReadNames ==
    Each({"END"}, <<>>)
    ++ Each({"LOAD", "LOAD_GLOBAL", "LOAD_NONLOC", "STORE_NAME", "STORE_GLOBAL",
             "STORE_NONLOC"}, RS)
    ++ Each({"LOAD_ATTR", "STORE_ATTR", "STORE_CONST_ATTR"}, RRS)
    ++ Each({"STORE", "STORE_CONST"}, RR)
    ++ Each({"STORE_SUBSC", "STORE_CONST_SUBSC", "STORE_SUBSC_CONST",
             "STORE_C_SUBSC_C"}, RRR)

ReadConstants ==
    Each({"STORE_INT_CONST"}, RI)
    ++ Each({"STORE_FLOAT_CONST"}, <<"reg", "float">>)
    ++ Each({"STORE_BOOL_CONST"}, <<"reg", "bool">>)
    ++ Each({"STORE_STRING_CONST"}, RS)
    ++ Each({"STORE_NIL_CONST"}, R)

ReadCalls ==
    Each({"JMP", "BREAK_TO"}, A)
    ++ Each({"JMP_IF_TRUE", "JMP_IF_FALSE"}, RA)
    ++ Each({"CALL"}, RR)
    ++ Each({"CALL_FORMATTER", "PUSH_NAMED_ARG"}, RS)
    ++ Each({"POP_FRAME", "PUSH_CALL_FRAME", "POP_CALL_FRAME"}, <<>>)
    ++ Each({"RETURN", "RETURN_CONST", "PUSH_ARG", "PUSH_CONST_ARG",
             "PUSH_UNPACKED"}, R)

ReadDeclarations ==
    Each({"CREATE_FUN"}, <<"reg", "str", "str">>)
    ++ Each({"FUN_BEGIN", "IMPORT_ALL", "PUSH_PARENT", "OUTPUT"}, R)
    ++ Each({"SET_DEFAULT", "SET_DEFAULT_CONST", "SET_TYPE"}, RIR)
    ++ Each({"SET_VARARG"}, RI)
    ++ Each({"IMPORT", "BUILD_CLASS", "DOCUMENT"}, RS)
    ++ Each({"ANNOTATE"}, <<"reg", "str", "reg">>)
    ++ Each({"ANNOTATE_MOD"}, <<"str", "reg">>)

ReadBinary ==
    Each({"CONCAT", "EXP", "ADD", "SUB", "DIV", "MUL", "MOD", "EQ", "NEQ", "BT",
          "LT", "BEQ", "LEQ", "IN", "AND", "OR", "XOR", "SUBSC"}, RRR)

ReadBinary2 ==
    Each({"CONCAT2", "EXP2", "ADD2", "SUB2", "DIV2", "MUL2", "MOD2", "EQ2",
          "NEQ2", "BT2", "LT2", "BEQ2", "LEQ2", "IN2", "AND2", "OR2", "XOR2",
          "SUBSC2"}, RRR)

ReadBinary3 ==
    Each({"CONCAT3", "EXP3", "ADD3", "SUB3", "DIV3", "MUL3", "MOD3", "EQ3",
          "NEQ3", "BT3", "LT3", "BEQ3", "LEQ3", "IN3", "AND3", "OR3", "XOR3",
          "SUBSC3", "SUBSCLAST", "SUBSCREST"}, RRR)

\* Mutants: the id and the address are read in the other order, or the id is
\* not read.
ReadCatchIdFirst ==
    Each({"CATCH"}, <<"str", "int", "addr">>)
    ++ Each({"CATCH_TYPED"}, <<"str", "reg", "int", "addr">>)
ReadCatchWithoutId ==
    Each({"CATCH"}, <<"str", "addr">>)
    ++ Each({"CATCH_TYPED"}, <<"str", "reg", "addr">>)

ReadCatch ==
    Each({"CATCH"}, <<"str", "addr", "int">>)
    ++ Each({"CATCH_TYPED"}, <<"str", "reg", "addr", "int">>)

ReadExceptions ==
    Each({"NOT", "NEG"}, RR)
    ++ Each({"ASSERT"}, RRR)
    ++ Each({"RAISE", "FINALLY_RETURN"}, R)
    ++ ReadCatch
    ++ Each({"POP_CATCH"}, <<"int">>)
    ++ Each({"FINALLY"}, <<"addr", "reg">>)
    ++ Each({"POP_FINALLY", "RUN_FINALLY"}, <<>>)

ReadCollections ==
    Each({"LIST_PUSH", "LIST_PUSH_CONST", "ITER"}, RR)
    ++ Each({"BUILD_LIST"}, R)
    ++ Each({"BUILD_DICT"}, RRR)
    ++ Each({"BUILD_ENUM"}, RRS)
    ++ Each({"BUILD_SPACE"}, RS)
    ++ Each({"CREATE_RANGE", "CREATE_RANGE2", "CREATE_RANGE3", "CREATE_RANGE4",
             "CREATE_RANGE5", "CREATE_RANGE6", "CREATE_RANGE7",
             "CREATE_RANGE8"}, RRRR)
    ++ Each({"SWITCH"}, <<"reg", "reg", "reg", "addr">>)
    ++ Each({"FOR"}, <<"reg", "reg", "addr">>)
    ++ Each({"FOR_MULTI"}, <<"reg", "reg", "addr", "reg">>)
    ++ Each({"LOOP_BEGIN", "LOOP_END"}, <<>>)

ReadOperands ==
    ReadNames ++ ReadConstants ++ ReadCalls ++ ReadDeclarations ++ ReadBinary
    ++ ReadBinary2 ++ ReadBinary3 ++ ReadExceptions ++ ReadCollections

-----------------------------------------------------------------------------
(* Bytes.                                                                  *)

Size == [reg |-> 4, addr |-> 4, int |-> 8, float |-> 8, bool |-> 1]
StrLenSize == 4

Bytes(v, size) == [k \in 1 .. size |-> <<v, k>>]

StringBytes(s) == Bytes(StrLen[s], StrLenSize) \o Bytes(s, StrLen[s])

FieldBytes(field, v) ==
    IF field = "str" THEN StringBytes(v) ELSE Bytes(v, Size[field])

\* What is read where no such value was written.
Garbage == -1

Value(bytes) ==
    IF bytes # <<>> /\ bytes = Bytes(bytes[1][1], Len(bytes))
    THEN bytes[1][1] ELSE Garbage

StringValue(bytes, len) ==
    LET s == IF len = 0 THEN Empty ELSE Value(bytes)
    IN  IF s \in DOMAIN StrLen /\ StrLen[s] = len THEN s ELSE Garbage

-----------------------------------------------------------------------------
(* The writer.                                                             *)

Unpatched == <<>>

Init ==
    /\ code \in Codes
    /\ file = [checksum |-> Unpatched, bytes |-> <<>>]
    /\ written = 0
    /\ crc_checksum = <<>>
    /\ pos = 0
    /\ ops = <<>>
    /\ mode = "write"
    /\ whole = FALSE

OpBytes(o) ==
    Bytes(Number[o.op] - 1, 1)
        \o FlattenSeq([i \in DOMAIN o.args |-> FieldBytes(Written[o.op][i], o.args[i])])

WriteOp ==
    /\ mode = "write" /\ written < Len(code)
    /\ written' = written + 1
    /\ file' = [file EXCEPT !.bytes = @ \o OpBytes(code[written + 1])]
    /\ crc_checksum' = crc_checksum \o OpBytes(code[written + 1])
    /\ UNCHANGED <<code, pos, ops, mode, whole>>

\* The file is complete; a new BytecodeReader opens it.
PatchChecksum ==
    /\ mode = "write" /\ written = Len(code)
    /\ file' = [file EXCEPT !.checksum = crc_checksum]
    /\ crc_checksum' = <<>>
    /\ mode' = "read" /\ whole' = TRUE
    /\ UNCHANGED <<code, written, pos, ops>>

\* The process ends, or the disk is full: the file is a prefix of what was
\* written.  The checksum is written after all else was (seekp flushes).
CutOff ==
    /\ mode = "write"
    /\ \E n \in 0 .. Len(file.bytes) :
           file' = [file EXCEPT !.bytes = SubSeq(@, 1, n)]
    /\ crc_checksum' = <<>>
    /\ mode' = "read"
    /\ UNCHANGED <<code, written, pos, ops, whole>>

\* A byte is not what it was when the file is opened.
Damage ==
    /\ whole /\ mode = "read" /\ pos = 0
    /\ \E i \in DOMAIN file.bytes, b \in OtherBytes :
           /\ b # file.bytes[i]
           /\ file' = [file EXCEPT !.bytes[i] = b]
    /\ whole' = FALSE
    /\ UNCHANGED <<code, written, crc_checksum, pos, ops, mode>>

-----------------------------------------------------------------------------
(* The reader.                                                             *)

\* Mutant: the reader goes on behind the end of the file.
read_raw_past_end(r, size) ==
    IF r.pos + size <= Len(file.bytes)
    THEN LET bytes == SubSeq(file.bytes, r.pos + 1, r.pos + size)
         IN  [r EXCEPT !.pos = @ + size, !.crc = @ \o bytes, !.raw = bytes]
    ELSE [r EXCEPT !.pos = @ + size, !.raw = <<>>, !.eof = TRUE]

\* Reads size bytes, or as many as there are: those are not in the checksum.
\* The operators below pass on where the reader is, what its checksum is
\* computed from and the operands it has read.
read_raw(r, size) ==
    IF r.pos + size <= Len(file.bytes)
    THEN LET bytes == SubSeq(file.bytes, r.pos + 1, r.pos + size)
         IN  [r EXCEPT !.pos = @ + size, !.crc = @ \o bytes, !.raw = bytes]
    ELSE [r EXCEPT !.pos = Len(file.bytes), !.raw = <<>>, !.eof = TRUE]

read_number(r, size) ==
    LET s == read_raw(r, size) IN [s EXCEPT !.args = Append(@, Value(s.raw))]

\* A length that the file ends in is not initialised, and one made of bytes of
\* something else is arbitrary: so many bytes are read, and the buffer may be
\* made as large as it says.
read_string(r) ==
    LET s == read_raw(r, StrLenSize)
        len == Value(s.raw)
        t == read_raw(s, IF len = Garbage THEN r.length ELSE len)
    IN  IF len = Garbage
        THEN [t EXCEPT !.args = Append(@, Garbage), !.wild = TRUE]
        ELSE [t EXCEPT !.args = Append(@, StringValue(t.raw, len))]

ReadField(r, field) ==
    IF field = "str" THEN read_string(r) ELSE read_number(r, Size[field])

\* The operands of an opcode, one after the other.
ReadFields(first, fields) ==
    LET reading[n \in 0 .. Len(fields)] ==
            IF n = 0 THEN first ELSE ReadField(reading[n - 1], fields[n])
    IN  reading[Len(fields)]

Reader(length) == [pos |-> pos, crc |-> crc_checksum, raw |-> <<>>, args |-> <<>>,
                   eof |-> FALSE, wild |-> FALSE, length |-> length]

\* Anonymous spaces have names that start with a number.
Made(op, args) ==
    [op |-> op, args |-> args,
     anonymous |-> op = "BUILD_SPACE" /\ args[2] \in Numeric]

\* One turn of the reader's loop.
ReadOp ==
    /\ mode = "read"
    /\ \E length \in WildLengths :
       LET first == read_raw(Reader(length), 1)
           number == Value(first.raw)
           op == OpCodes[number + 1]
           r == ReadFields(first, ReadOperands[op])
       IN  IF first.eof
           THEN /\ mode' = "verify"
                /\ UNCHANGED <<pos, crc_checksum, ops>>
           ELSE IF number + 1 \notin DOMAIN OpCodes
           THEN mode' = "rejected" /\ UNCHANGED <<pos, crc_checksum, ops>>
           ELSE /\ pos' = r.pos
                /\ crc_checksum' = r.crc
                /\ ops' = Append(ops, Made(op, r.args))
                /\ \/ mode' = IF r.eof THEN "verify" ELSE mode
                   \/ r.wild /\ mode' = "crashed"
    /\ UNCHANGED <<code, file, written, whole>>

Verify ==
    /\ mode = "verify"
    /\ mode' = IF crc_checksum = file.checksum THEN "accepted" ELSE "rejected"
    /\ UNCHANGED <<code, file, written, crc_checksum, pos, ops, whole>>

Finished == mode \in {"accepted", "rejected", "crashed"} /\ UNCHANGED vars

Next ==
    \/ WriteOp \/ PatchChecksum \/ CutOff \/ Damage
    \/ ReadOp \/ Verify \/ Finished

Spec == Init /\ [][Next]_vars

-----------------------------------------------------------------------------
(* What a code is: opcodes with the operands the writer writes.  A number   *)
(* stands for the bytes of an operand.                                      *)

ASSUME CodeAssumption ==
    \A c \in Codes :
        /\ c \in Seq([op : Range(OpCodes) \cap DOMAIN Written, args : Seq(Nat),
                     anonymous : BOOLEAN])
        /\ \A i \in DOMAIN c :
              LET o == c[i]
                  fields == Written[o.op]
              IN  /\ o = Made(o.op, o.args) /\ Len(o.args) = Len(fields)
                  /\ \A k \in DOMAIN fields :
                        fields[k] = "str" => o.args[k] \in DOMAIN StrLen

ASSUME ByteAssumption == OtherBytes \subseteq Nat \X Nat

-----------------------------------------------------------------------------
(* Properties.                                                             *)

\* Every variable has its type; the reader stays within the file.
TypeOK ==
    /\ code \in Codes
    /\ written \in 0 .. Len(code)
    /\ pos \in 0 .. Len(file.bytes)
    /\ Len(crc_checksum) <= Len(file.bytes) \/ mode = "write"
    /\ \A i \in DOMAIN ops : ops[i].op \in Range(OpCodes)
    /\ mode \in {"write", "read", "verify", "accepted", "rejected", "crashed"}
    /\ whole \in BOOLEAN

Same(o, p) == o.op = p.op /\ o.args = p.args /\ o.anonymous = p.anonymous

\* What a reader accepts is the code that was written, opcode by opcode, with
\* all it needs to run (a space is anonymous again); a file that was cut off or
\* damaged is never run, unless nothing but its header is left: the checksum of
\* nothing is that of the header as it was first written.
AcceptedIsWritten ==
    mode = "accepted" =>
        \/ Len(ops) = Len(code) /\ \A i \in DOMAIN ops : Same(ops[i], code[i])
        \/ ops = <<>> /\ file.bytes = <<>>

\* A file the writer completed is accepted: the reader takes as many bytes as
\* were written for each opcode.
CompleteIsAccepted ==
    whole => mode \notin {"rejected", "crashed"}
=============================================================================
