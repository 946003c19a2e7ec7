------------------------- MODULE BytecodeFileProofs -------------------------
(***************************************************************************)
(* What is read of a bytecode file is what was written, for every code,    *)
(* every way to cut off or to damage its file, and every length of a       *)
(* string that is read where none was written.                             *)
(*                                                                         *)
(* The argument: the tables of the writer and the reader agree, so that    *)
(* an operand, and then an opcode, is read from exactly the bytes that     *)
(* were written for it.  FileInv then says, for a file the writer          *)
(* completed, that the reader is at the end of an opcode and has read the  *)
(* opcodes before; for any other file, that its checksum is not that of    *)
(* its bytes, while the reader's is that of the bytes it has read.         *)
(***************************************************************************)
EXTENDS BytecodeFile, SequenceLemmas

-----------------------------------------------------------------------------
(* Operands agree when the reader reads as many bytes for them as the      *)
(* writer writes: the tables of both agree for every opcode.               *)

\* What an operand may be.
Fields == DOMAIN Size \union {"str"}

\* Reading the operands r takes as many bytes as writing the operands w.
Fits(w, r) ==
    /\ w \in Seq(Fields) /\ r \in Seq(Fields) /\ Len(w) = Len(r)
    /\ \A k \in 1 .. Len(w) :
          \/ w[k] = r[k]
          \/ w[k] # "str" /\ r[k] # "str" /\ Size[w[k]] = Size[r[k]]

\* They do so for every opcode.
Agree(t, u) == DOMAIN t = DOMAIN u /\ \A op \in DOMAIN t : Fits(t[op], u[op])

\* A table agrees with itself.
LEMMA EachAgree ==
  ASSUME NEW S, NEW x \in Seq(Fields)
  PROVE  Agree(Each(S, x), Each(S, x))
<1>1. Fits(x, x)
  BY DEF Fits
<1>2. \A op \in DOMAIN Each(S, x) : Each(S, x)[op] = x
  BY DEF Each
<1> QED BY <1>1, <1>2 DEF Agree

\* The table v is t and u in one.
InOne(v, t, u) ==
    /\ DOMAIN v = DOMAIN t \union DOMAIN u
    /\ \A op \in DOMAIN t : v[op] = t[op]
    /\ \A op \in DOMAIN u : op \notin DOMAIN t => v[op] = u[op]
    /\ v = [op \in DOMAIN v |-> v[op]]

\* Two tables in one.
LEMMA Merged ==
  ASSUME NEW t, NEW u, NEW v, v = t ++ u
  PROVE  InOne(v, t, u)
<1>1. PICK E : E = DOMAIN t
  OBVIOUS
<1>2. PICK D : D = DOMAIN t \union DOMAIN u
  OBVIOUS
<1>3. v = [op \in D |-> IF op \in E THEN t[op] ELSE u[op]]
  <2>1. v = [op \in DOMAIN t \union DOMAIN u |-> IF op \in DOMAIN t THEN t[op] ELSE u[op]]
    BY ZenonT(40) DEF ++
  <2> QED BY <1>1, <1>2, <2>1
<1>4. DOMAIN v = D /\ v = [op \in D |-> v[op]]
  BY <1>3
<1>5. \A op \in D : v[op] = IF op \in E THEN t[op] ELSE u[op]
  BY <1>3
<1>6. DOMAIN v = DOMAIN t \union DOMAIN u /\ v = [op \in DOMAIN v |-> v[op]]
  BY <1>2, <1>4
<1>7. \A op \in DOMAIN t : v[op] = t[op]
  BY <1>1, <1>2, <1>5
<1>8. \A op \in DOMAIN u : op \notin DOMAIN t => v[op] = u[op]
  BY <1>1, <1>2, <1>5
<1> QED BY <1>6, <1>7, <1>8 DEF InOne

\* Tables in two parts agree if the parts do.
LEMMA MergeAgree ==
  ASSUME NEW t1, NEW t2, NEW u1, NEW u2, Agree(t1, u1), Agree(t2, u2)
  PROVE  Agree(t1 ++ t2, u1 ++ u2)
<1>1. PICK v : v = t1 ++ t2
  OBVIOUS
<1>2. PICK w : w = u1 ++ u2
  OBVIOUS
<1>3. InOne(v, t1, t2)
  BY <1>1, Merged, Zenon
<1>4. InOne(w, u1, u2)
  BY <1>2, Merged, Zenon
<1>5. DOMAIN v = DOMAIN w
  BY <1>3, <1>4, Zenon DEF Agree, InOne
<1>6. ASSUME NEW op \in DOMAIN v PROVE Fits(v[op], w[op])
  <2>1. CASE op \in DOMAIN t1
    BY <1>3, <1>4, <2>1, Zenon DEF Agree, InOne
  <2>2. CASE op \notin DOMAIN t1
    BY <1>3, <1>4, <2>2, Zenon DEF Agree, InOne
  <2> QED BY <2>1, <2>2, Zenon
<1>7. Agree(v, w)
  BY <1>5, <1>6, Zenon DEF Agree
<1> QED BY <1>1, <1>2, <1>7, Zenon

\* It does not matter how a table is put together from three.
LEMMA MergeAssociative ==
  ASSUME NEW t, NEW u, NEW v
  PROVE  t ++ (u ++ v) = (t ++ u) ++ v
<1>1. PICK a : a = u ++ v
  OBVIOUS
<1>2. PICK b : b = t ++ u
  OBVIOUS
<1>3. PICK l : l = t ++ a
  OBVIOUS
<1>4. PICK r : r = b ++ v
  OBVIOUS
<1>5. InOne(a, u, v)
  BY <1>1, Merged, Zenon
<1>6. InOne(b, t, u)
  BY <1>2, Merged, Zenon
<1>7. InOne(l, t, a)
  BY <1>3, Merged, Zenon
<1>8. InOne(r, b, v)
  BY <1>4, Merged, Zenon
<1>9. DOMAIN l = DOMAIN r
  BY <1>5, <1>6, <1>7, <1>8 DEF InOne
<1>10. ASSUME NEW op \in DOMAIN l PROVE l[op] = r[op]
  <2>1. CASE op \in DOMAIN t
    BY <1>6, <1>7, <1>8, <2>1 DEF InOne
  <2>2. CASE op \notin DOMAIN t /\ op \in DOMAIN u
    BY <1>5, <1>6, <1>7, <1>8, <2>2 DEF InOne
  <2>3. CASE op \notin DOMAIN t /\ op \notin DOMAIN u
    BY <1>5, <1>6, <1>7, <1>8, <2>3 DEF InOne
  <2> QED BY <2>1, <2>2, <2>3, Zenon
<1>11. l = r
  BY <1>7, <1>8, <1>9, <1>10 DEF InOne
<1> QED BY <1>1, <1>2, <1>3, <1>4, <1>11

\* Two groups with the same operands are one.
LEMMA EachMerged ==
  ASSUME NEW S, NEW T, NEW x
  PROVE  Each(S, x) ++ Each(T, x) = Each(S \union T, x)
<1>1. PICK s : s = Each(S, x)
  OBVIOUS
<1>2. PICK t : t = Each(T, x)
  OBVIOUS
<1>3. PICK v : v = s ++ t
  OBVIOUS
<1>4. InOne(v, s, t)
  BY <1>3, Merged, Zenon
<1>5. /\ DOMAIN s = S /\ \A op \in S : s[op] = x
      /\ DOMAIN t = T /\ \A op \in T : t[op] = x
  BY <1>1, <1>2 DEF Each
<1>6. DOMAIN v = S \union T /\ v = [op \in DOMAIN v |-> v[op]]
  BY <1>4, <1>5, Zenon DEF InOne
<1>7. \A op \in S \union T : v[op] = x
  BY <1>4, <1>5, Zenon DEF InOne
<1>8. v = Each(S \union T, x)
  BY <1>6, <1>7 DEF Each
<1> QED BY <1>1, <1>2, <1>3, <1>8, Zenon

\* Every operand in the tables is a field that has a size, or a string.
LEMMA Shapes ==
  /\ <<>> \in Seq(Fields)
  /\ R \in Seq(Fields) /\ RR \in Seq(Fields)
  /\ RRR \in Seq(Fields) /\ RRRR \in Seq(Fields)
  /\ RS \in Seq(Fields) /\ RRS \in Seq(Fields)
  /\ RI \in Seq(Fields) /\ RIR \in Seq(Fields)
  /\ A \in Seq(Fields) /\ RA \in Seq(Fields)
  /\ <<"reg", "float">> \in Seq(Fields) /\ <<"reg", "bool">> \in Seq(Fields)
  /\ <<"reg", "str", "str">> \in Seq(Fields) /\ <<"reg", "str", "reg">> \in Seq(Fields)
  /\ <<"str", "reg">> \in Seq(Fields)
  /\ <<"str", "addr", "int">> \in Seq(Fields)
  /\ <<"str", "reg", "addr", "int">> \in Seq(Fields)
  /\ <<"int">> \in Seq(Fields) /\ <<"addr", "reg">> \in Seq(Fields)
  /\ <<"reg", "reg", "addr">> \in Seq(Fields)
  /\ <<"reg", "reg", "addr", "reg">> \in Seq(Fields)
<1>1. {"reg", "addr", "int", "float", "bool", "str"} \subseteq Fields
  BY DEF Fields, Size
<1> HIDE DEF Fields
<1> QED BY <1>1 DEF R, RR, RRR, RRRR, RS, RRS, RI, RIR, A, RA

\* The last operand of SWITCH is written as a register and read as an address, of
\* the same size (bytecode_writer.cpp and bytecode_reader.cpp).
LEMMA SwitchFits == Fits(RRRR, <<"reg", "reg", "reg", "addr">>)
<1>1. RRRR \in Seq(Fields) /\ <<"reg", "reg", "reg", "addr">> \in Seq(Fields)
  BY Shapes DEF Fields, Size, RRRR
<1>2. Size["reg"] = Size["addr"]
  BY DEF Size
<1> QED BY <1>1, <1>2 DEF Fits, RRRR

\* The tables that both sides list alike agree.
LEMMA FirstTablesAgree ==
  /\ Agree(WrittenNames, ReadNames)
  /\ Agree(WrittenConstants, ReadConstants)
  /\ Agree(WrittenCalls, ReadCalls)
  /\ Agree(WrittenDeclarations, ReadDeclarations)
<1>1. Agree(WrittenNames, ReadNames)
  BY EachAgree, MergeAgree, Shapes DEF WrittenNames, ReadNames
<1>2. Agree(WrittenConstants, ReadConstants)
  BY EachAgree, MergeAgree, Shapes DEF WrittenConstants, ReadConstants
<1>3. Agree(WrittenCalls, ReadCalls)
  BY EachAgree, MergeAgree, Shapes DEF WrittenCalls, ReadCalls
<1>4. Agree(WrittenDeclarations, ReadDeclarations)
  BY EachAgree, MergeAgree, Shapes DEF WrittenDeclarations, ReadDeclarations
<1> QED BY <1>1, <1>2, <1>3, <1>4

\* The exceptions as the reader lists them, without the unary operators.
ReadRest ==
    Each({"ASSERT"}, RRR)
    ++ Each({"RAISE", "FINALLY_RETURN"}, R)
    ++ ReadCatch
    ++ Each({"POP_CATCH"}, <<"int">>)
    ++ Each({"FINALLY"}, <<"addr", "reg">>)
    ++ Each({"POP_FINALLY", "RUN_FINALLY"}, <<>>)

\* So do those of the exceptions, which the reader lists with NOT and NEG.
LEMMA ExceptionsAgree ==
  /\ Agree(WrittenExceptions, ReadRest)
  /\ ReadExceptions = Each({"NOT", "NEG"}, RR) ++ ReadRest
<1> DEFINE U == Each({"NOT", "NEG"}, RR)
           a1 == Each({"ASSERT"}, RRR)
           a2 == Each({"RAISE", "FINALLY_RETURN"}, R)
           c1 == Each({"CATCH"}, <<"str", "addr", "int">>)
           c2 == Each({"CATCH_TYPED"}, <<"str", "reg", "addr", "int">>)
           a4 == Each({"POP_CATCH"}, <<"int">>)
           a5 == Each({"FINALLY"}, <<"addr", "reg">>)
           a6 == Each({"POP_FINALLY", "RUN_FINALLY"}, <<>>)
<1>1. /\ Agree(a1, a1) /\ Agree(a2, a2) /\ Agree(c1, c1) /\ Agree(c2, c2)
      /\ Agree(a4, a4) /\ Agree(a5, a5) /\ Agree(a6, a6)
  BY EachAgree, Shapes
<1>2. /\ WrittenExceptions = a1 ++ a2 ++ c1 ++ c2 ++ a4 ++ a5 ++ a6
      /\ ReadRest = a1 ++ a2 ++ (c1 ++ c2) ++ a4 ++ a5 ++ a6
      /\ ReadExceptions = U ++ a1 ++ a2 ++ (c1 ++ c2) ++ a4 ++ a5 ++ a6
  BY Zenon DEF WrittenExceptions, ReadRest, ReadExceptions, ReadCatch
<1> HIDE DEF U, a1, a2, c1, c2, a4, a5, a6
<1>3. a1 ++ a2 ++ (c1 ++ c2) = a1 ++ a2 ++ c1 ++ c2
  BY MergeAssociative
<1>4. Agree(WrittenExceptions, WrittenExceptions)
  BY <1>1, <1>2, MergeAgree
<1>5. U ++ (((((a1 ++ a2) ++ (c1 ++ c2)) ++ a4) ++ a5) ++ a6)
        = U ++ a1 ++ a2 ++ (c1 ++ c2) ++ a4 ++ a5 ++ a6
  <2>1. U ++ (((((a1 ++ a2) ++ (c1 ++ c2)) ++ a4) ++ a5) ++ a6)
          = (U ++ ((((a1 ++ a2) ++ (c1 ++ c2)) ++ a4) ++ a5)) ++ a6
    BY MergeAssociative
  <2>2. U ++ ((((a1 ++ a2) ++ (c1 ++ c2)) ++ a4) ++ a5)
          = (U ++ (((a1 ++ a2) ++ (c1 ++ c2)) ++ a4)) ++ a5
    BY MergeAssociative
  <2>3. U ++ (((a1 ++ a2) ++ (c1 ++ c2)) ++ a4) = (U ++ ((a1 ++ a2) ++ (c1 ++ c2))) ++ a4
    BY MergeAssociative
  <2>4. U ++ ((a1 ++ a2) ++ (c1 ++ c2)) = (U ++ (a1 ++ a2)) ++ (c1 ++ c2)
    BY MergeAssociative
  <2>5. U ++ (a1 ++ a2) = (U ++ a1) ++ a2
    BY MergeAssociative
  <2> QED BY <2>1, <2>2, <2>3, <2>4, <2>5
<1>6. ReadRest = WrittenExceptions /\ ReadExceptions = U ++ ReadRest
  BY <1>2, <1>3, <1>5
<1>7. Agree(WrittenExceptions, ReadRest) /\ ReadExceptions = U ++ ReadRest
  BY <1>4, <1>6
<1> QED BY <1>7 DEF U

\* A function on 1 .. n is a sequence.
LEMMA TupleIsSequence ==
  ASSUME NEW S, NEW n \in Nat, NEW f, f = [i \in 1 .. n |-> f[i]],
         \A i \in 1 .. n : f[i] \in S
  PROVE  f \in Seq(S) /\ Len(f) = n
OBVIOUS

\* Three sequences, one after the other.
LEMMA ThreeConcatenated ==
  ASSUME NEW S, NEW s \in Seq(S), NEW t \in Seq(S), NEW u \in Seq(S)
  PROVE  /\ DOMAIN (s \o t \o u) = 1 .. Len(s) + Len(t) + Len(u)
         /\ \A i \in 1 .. Len(s) : (s \o t \o u)[i] = s[i]
         /\ \A i \in 1 .. Len(t) : (s \o t \o u)[Len(s) + i] = t[i]
         /\ \A i \in 1 .. Len(u) : (s \o t \o u)[Len(s) + Len(t) + i] = u[i]
OBVIOUS

\* Where an opcode is found in OpCodes.
LEMMA OpCodeAt ==
  /\ DOMAIN OpCodes = 1 .. 137
  /\ \A i \in 1 .. 50 : OpCodes[i] = PlainOpCodes[i]
  /\ \A i \in 1 .. 56 : OpCodes[50 + i] = BinaryOpCodes[i]
  /\ \A i \in 1 .. 31 : OpCodes[106 + i] = OtherOpCodes[i]
<1>a. PICK p : p = PlainOpCodes
  OBVIOUS
<1>b. PICK b : b = BinaryOpCodes
  OBVIOUS
<1>c. PICK o : o = OtherOpCodes
  OBVIOUS
<1>1. p = PlainOpCodes /\ b = BinaryOpCodes /\ o = OtherOpCodes
  BY <1>a, <1>b, <1>c
<1>2. p = [i \in 1 .. 50 |-> p[i]]
  BY <1>1, SMTT(30) DEF PlainOpCodes
<1>3. b = [i \in 1 .. 56 |-> b[i]]
  BY <1>1, SMTT(30) DEF BinaryOpCodes
<1>4. o = [i \in 1 .. 31 |-> o[i]]
  BY <1>1, SMTT(30) DEF OtherOpCodes
<1>5. PICK S : S = {p[i] : i \in 1 .. 50} \union {b[i] : i \in 1 .. 56}
                     \union {o[i] : i \in 1 .. 31}
  OBVIOUS
<1>6. /\ p \in Seq(S) /\ Len(p) = 50
      /\ b \in Seq(S) /\ Len(b) = 56
      /\ o \in Seq(S) /\ Len(o) = 31
  <2>1. /\ \A i \in 1 .. 50 : p[i] \in S
        /\ \A i \in 1 .. 56 : b[i] \in S
        /\ \A i \in 1 .. 31 : o[i] \in S
    BY <1>5, Zenon
  <2>2. 50 \in Nat /\ 56 \in Nat /\ 31 \in Nat
    OBVIOUS
  <2> QED BY <1>2, <1>3, <1>4, <2>1, <2>2, TupleIsSequence
<1>7. OpCodes = p \o b \o o
  BY <1>1 DEF OpCodes
<1>8. /\ DOMAIN OpCodes = 1 .. 137
      /\ \A i \in 1 .. 50 : OpCodes[i] = p[i]
      /\ \A i \in 1 .. 56 : OpCodes[50 + i] = b[i]
      /\ \A i \in 1 .. 31 : OpCodes[106 + i] = o[i]
  <2>1. /\ DOMAIN (p \o b \o o) = 1 .. Len(p) + Len(b) + Len(o)
        /\ \A i \in 1 .. Len(p) : (p \o b \o o)[i] = p[i]
        /\ \A i \in 1 .. Len(b) : (p \o b \o o)[Len(p) + i] = b[i]
        /\ \A i \in 1 .. Len(o) : (p \o b \o o)[Len(p) + Len(b) + i] = o[i]
    <3>1. p \in Seq(S) /\ b \in Seq(S) /\ o \in Seq(S)
      BY <1>6
    <3> QED BY <3>1, ThreeConcatenated
  <2>2. 50 + 56 = 106 /\ 106 + 31 = 137
    OBVIOUS
  <2>3. /\ DOMAIN OpCodes = 1 .. Len(p) + Len(b) + Len(o)
        /\ \A i \in 1 .. Len(p) : OpCodes[i] = p[i]
        /\ \A i \in 1 .. Len(b) : OpCodes[Len(p) + i] = b[i]
        /\ \A i \in 1 .. Len(o) : OpCodes[Len(p) + Len(b) + i] = o[i]
    BY <1>7, <2>1, Zenon
  <2> QED BY <1>6, <2>2, <2>3
<1> QED BY <1>1, <1>8

\* Each opcode has the number it was given.
LEMMA NumberOf ==
  ASSUME NEW op \in Range(OpCodes)
  PROVE  Number[op] \in 1 .. 137 /\ OpCodes[Number[op]] = op
<1>1. \E i \in 1 .. 137 : OpCodes[i] = op
  BY OpCodeAt DEF Range
<1>2. Number[op] = CHOOSE i \in 1 .. 137 : OpCodes[i] = op
  BY OpCodeAt DEF Number
<1> QED BY <1>1, <1>2

\* The opcode is at i, and nowhere else.
Numbered(i, op) == OpCodes[i] = op /\ \A j \in 1 .. 137 : OpCodes[j] = op => j = i

\* An opcode that is listed once, at i, has the number i.
LEMMA NumberIs ==
  ASSUME NEW i \in 1 .. 137, NEW op, Numbered(i, op)
  PROVE  Number[op] = i
<1>1. op \in Range(OpCodes)
  BY OpCodeAt DEF Range, Numbered
<1> QED BY <1>1, NumberOf DEF Numbered

\* The numbers of the first and the last binary operator and range.
LEMMA Bounds ==
  /\ Numbered(51, "CONCAT") /\ Numbered(106, "SUBSCREST")
  /\ Numbered(124, "CREATE_RANGE") /\ Numbered(131, "CREATE_RANGE8")
<1> DEFINE Q == {"CONCAT", "SUBSCREST", "CREATE_RANGE", "CREATE_RANGE8"}
<1>1. \A i \in 1 .. 50 : PlainOpCodes[i] \notin Q
  BY SMTT(30) DEF PlainOpCodes
<1>2. \A i \in 1 .. 56 : /\ BinaryOpCodes[i] = "CONCAT" <=> i = 1
                         /\ BinaryOpCodes[i] = "SUBSCREST" <=> i = 56
                         /\ BinaryOpCodes[i] # "CREATE_RANGE"
                         /\ BinaryOpCodes[i] # "CREATE_RANGE8"
  BY SMTT(30) DEF BinaryOpCodes
<1>3. \A i \in 1 .. 31 : /\ OtherOpCodes[i] = "CREATE_RANGE" <=> i = 18
                         /\ OtherOpCodes[i] = "CREATE_RANGE8" <=> i = 25
                         /\ OtherOpCodes[i] # "CONCAT"
                         /\ OtherOpCodes[i] # "SUBSCREST"
  BY SMTT(30) DEF OtherOpCodes
<1>4. \A i \in 1 .. 137 : /\ OpCodes[i] = "CONCAT" <=> i = 51
                          /\ OpCodes[i] = "SUBSCREST" <=> i = 106
                          /\ OpCodes[i] = "CREATE_RANGE" <=> i = 124
                          /\ OpCodes[i] = "CREATE_RANGE8" <=> i = 131
  <2> TAKE i \in 1 .. 137
  <2>1. CASE i \in 1 .. 50
    BY <1>1, <2>1, OpCodeAt
  <2>2. CASE i \in 51 .. 106
    BY <1>2, <2>2, OpCodeAt, i - 50 \in 1 .. 56, i = 50 + (i - 50)
  <2>3. CASE i \in 107 .. 137
    BY <1>3, <2>3, OpCodeAt, i - 106 \in 1 .. 31, i = 106 + (i - 106)
  <2> QED BY <2>1, <2>2, <2>3
<1> QED BY <1>4 DEF Numbered

\* The binary operators as the reader lists them, and the kinds of ranges.
Binary1 == {"CONCAT", "EXP", "ADD", "SUB", "DIV", "MUL", "MOD", "EQ", "NEQ", "BT",
            "LT", "BEQ", "LEQ", "IN", "AND", "OR", "XOR", "SUBSC"}
Binary2 == {"CONCAT2", "EXP2", "ADD2", "SUB2", "DIV2", "MUL2", "MOD2", "EQ2", "NEQ2",
            "BT2", "LT2", "BEQ2", "LEQ2", "IN2", "AND2", "OR2", "XOR2", "SUBSC2"}
Binary3 == {"CONCAT3", "EXP3", "ADD3", "SUB3", "DIV3", "MUL3", "MOD3", "EQ3", "NEQ3",
            "BT3", "LT3", "BEQ3", "LEQ3", "IN3", "AND3", "OR3", "XOR3", "SUBSC3",
            "SUBSCLAST", "SUBSCREST"}
Ranges == {"CREATE_RANGE", "CREATE_RANGE2", "CREATE_RANGE3", "CREATE_RANGE4",
           "CREATE_RANGE5", "CREATE_RANGE6", "CREATE_RANGE7", "CREATE_RANGE8"}

\* The opcodes the writer tells from the others by their numbers.
LEMMA FromBounds ==
  /\ From("CONCAT", "SUBSCREST") = {OpCodes[i] : i \in 51 .. 106}
  /\ From("CREATE_RANGE", "CREATE_RANGE8") = {OpCodes[i] : i \in 124 .. 131}
<1>1. /\ Number["CONCAT"] = 51 /\ Number["SUBSCREST"] = 106
      /\ Number["CREATE_RANGE"] = 124 /\ Number["CREATE_RANGE8"] = 131
  BY Bounds, NumberIs
<1> QED BY <1>1 DEF From

\* The writer's binary operators are those the reader lists.
LEMMA FromBinary ==
  From("CONCAT", "SUBSCREST") = Binary1 \union Binary2 \union Binary3
<1>1. PICK B : B = Binary1 \union Binary2 \union Binary3
  OBVIOUS
<1>2. PICK b : b = BinaryOpCodes
  OBVIOUS
<1>3. \A i \in 1 .. 56 : b[i] \in B
  BY <1>1, <1>2, SMTT(60) DEF BinaryOpCodes, Binary1, Binary2, Binary3
<1>4. ASSUME NEW op \in B PROVE \E i \in 1 .. 56 : b[i] = op
  <2>1. ASSUME op \in Binary1 PROVE \E i \in 1 .. 56 : b[i] = op
    BY <1>2, <2>1, SMTT(60) DEF BinaryOpCodes, Binary1
  <2>2. ASSUME op \in Binary2 PROVE \E i \in 1 .. 56 : b[i] = op
    BY <1>2, <2>2, SMTT(60) DEF BinaryOpCodes, Binary2
  <2>3. ASSUME op \in Binary3 PROVE \E i \in 1 .. 56 : b[i] = op
    BY <1>2, <2>3, SMTT(60) DEF BinaryOpCodes, Binary3
  <2> QED BY <1>1, <1>4, <2>1, <2>2, <2>3
<1>5. {OpCodes[i] : i \in 51 .. 106} = {b[i] : i \in 1 .. 56}
  <2>1. \A i \in 51 .. 106 : i - 50 \in 1 .. 56 /\ OpCodes[i] = b[i - 50]
    BY <1>2, OpCodeAt, \A i \in 51 .. 106 : i - 50 \in 1 .. 56 /\ 50 + (i - 50) = i
  <2>2. \A i \in 1 .. 56 : 50 + i \in 51 .. 106 /\ OpCodes[50 + i] = b[i]
    BY <1>2, OpCodeAt
  <2> QED BY <2>1, <2>2
<1>6. {b[i] : i \in 1 .. 56} = B
  BY <1>3, <1>4
<1> QED BY <1>1, <1>5, <1>6, FromBounds, Zenon

\* So are the kinds of ranges.
LEMMA FromRanges == From("CREATE_RANGE", "CREATE_RANGE8") = Ranges
<1>2. PICK o : o = OtherOpCodes
  OBVIOUS
<1>3. \A i \in 18 .. 25 : o[i] \in Ranges
  BY <1>2, SMTT(60) DEF OtherOpCodes, Ranges
<1>4. ASSUME NEW op \in Ranges PROVE \E i \in 18 .. 25 : o[i] = op
  BY <1>2, SMTT(60) DEF OtherOpCodes, Ranges
<1>5. {OpCodes[i] : i \in 124 .. 131} = {o[i] : i \in 18 .. 25}
  <2>1. \A i \in 124 .. 131 : i - 106 \in 18 .. 25 /\ OpCodes[i] = o[i - 106]
    BY <1>2, OpCodeAt, \A i \in 124 .. 131 : i - 106 \in 1 .. 31 /\ 106 + (i - 106) = i
  <2>2. \A i \in 18 .. 25 : 106 + i \in 124 .. 131 /\ OpCodes[106 + i] = o[i]
    BY <1>2, OpCodeAt
  <2> QED BY <2>1, <2>2
<1>6. {o[i] : i \in 18 .. 25} = Ranges
  BY <1>3, <1>4
<1> QED BY <1>5, <1>6, FromBounds, Zenon

\* The tables of the binary operators agree.
LEMMA OperatorsAgree ==
  Agree(Each(From("CONCAT", "SUBSCREST"), RRR), ReadBinary ++ ReadBinary2 ++ ReadBinary3)
<1>1. ReadBinary = Each(Binary1, RRR)
  BY Zenon DEF ReadBinary, Binary1
<1>2. ReadBinary2 = Each(Binary2, RRR)
  BY Zenon DEF ReadBinary2, Binary2
<1>3. ReadBinary3 = Each(Binary3, RRR)
  BY Zenon DEF ReadBinary3, Binary3
<1>4. ReadBinary ++ ReadBinary2 ++ ReadBinary3 = Each(From("CONCAT", "SUBSCREST"), RRR)
  <2>1. ReadBinary ++ ReadBinary2 = Each(Binary1 \union Binary2, RRR)
    BY <1>1, <1>2, EachMerged
  <2>2. ReadBinary ++ ReadBinary2 ++ ReadBinary3
          = Each(Binary1 \union Binary2 \union Binary3, RRR)
    BY <1>3, <2>1, EachMerged
  <2> QED BY <2>2, FromBinary
<1> QED BY <1>4, EachAgree, Shapes

\* The tables of the collections and the loops agree.
LEMMA CollectionsAgree == Agree(WrittenCollections, ReadCollections)
<1> DEFINE a1 == Each({"LIST_PUSH", "LIST_PUSH_CONST", "ITER"}, RR)
           a2 == Each({"BUILD_LIST"}, R)
           a3 == Each({"BUILD_DICT"}, RRR)
           a4 == Each({"BUILD_ENUM"}, RRS)
           a5 == Each({"BUILD_SPACE"}, RS)
           a6 == Each(Ranges, RRRR)
           w == Each({"SWITCH"}, RRRR)
           r == Each({"SWITCH"}, <<"reg", "reg", "reg", "addr">>)
           a8 == Each({"FOR"}, <<"reg", "reg", "addr">>)
           a9 == Each({"FOR_MULTI"}, <<"reg", "reg", "addr", "reg">>)
           a0 == Each({"LOOP_BEGIN", "LOOP_END"}, <<>>)
<1>1. /\ Agree(a1, a1) /\ Agree(a2, a2) /\ Agree(a3, a3) /\ Agree(a4, a4) /\ Agree(a5, a5)
      /\ Agree(a6, a6) /\ Agree(a8, a8) /\ Agree(a9, a9) /\ Agree(a0, a0)
  BY EachAgree, Shapes
<1>2. Agree(w, r)
  BY SwitchFits DEF Agree, Each
<1>3. WrittenCollections = a1 ++ a2 ++ a3 ++ a4 ++ a5 ++ a6 ++ w ++ a8 ++ a9 ++ a0
  BY FromRanges, Zenon DEF WrittenCollections
<1>4. ReadCollections = a1 ++ a2 ++ a3 ++ a4 ++ a5 ++ a6 ++ r ++ a8 ++ a9 ++ a0
  BY Zenon DEF ReadCollections, Ranges
<1> HIDE DEF a1, a2, a3, a4, a5, a6, w, r, a8, a9, a0
<1> QED BY <1>1, <1>2, <1>3, <1>4, MergeAgree

\* For every opcode, the reader reads as many operands as the writer writes, each
\* of the same size and a string where it writes a string: nothing in a file says
\* where an opcode ends (bytecode_writer.cpp, bytecode_reader.cpp).
THEOREM TablesAgree == Agree(Written, ReadOperands)
<1> DEFINE U == Each({"NOT", "NEG"}, RR)
<1>a. PICK n : n = WrittenNames ++ WrittenConstants ++ WrittenCalls ++ WrittenDeclarations
  OBVIOUS
<1>b. PICK n2 : n2 = ReadNames ++ ReadConstants ++ ReadCalls ++ ReadDeclarations
  OBVIOUS
<1>c. PICK m : m = Each(From("CONCAT", "SUBSCREST"), RRR)
  OBVIOUS
<1>d. PICK m2 : m2 = ReadBinary ++ ReadBinary2 ++ ReadBinary3
  OBVIOUS
<1>1. /\ n = WrittenNames ++ WrittenConstants ++ WrittenCalls ++ WrittenDeclarations
      /\ n2 = ReadNames ++ ReadConstants ++ ReadCalls ++ ReadDeclarations
      /\ m = Each(From("CONCAT", "SUBSCREST"), RRR)
      /\ m2 = ReadBinary ++ ReadBinary2 ++ ReadBinary3
  BY <1>a, <1>b, <1>c, <1>d
<1>2. Agree(n, n2) /\ Agree(m, m2)
  BY <1>1, FirstTablesAgree, MergeAgree, OperatorsAgree
<1>3. Agree(U, U)
  BY EachAgree, Shapes
<1>4. Written = n ++ (m ++ U) ++ WrittenExceptions ++ WrittenCollections
  BY <1>1, Zenon DEF Written, WrittenOperators
<1>5. ReadOperands = n2 ++ m2 ++ (U ++ ReadRest) ++ ReadCollections
  <2>1. ReadOperands = n2 ++ ReadBinary ++ ReadBinary2 ++ ReadBinary3 ++ ReadExceptions
                         ++ ReadCollections
    BY <1>1, Zenon DEF ReadOperands
  <2>2. n2 ++ ReadBinary ++ ReadBinary2 ++ ReadBinary3 = n2 ++ m2
    <3>1. n2 ++ m2 = (n2 ++ (ReadBinary ++ ReadBinary2)) ++ ReadBinary3
      BY <1>1, MergeAssociative
    <3>2. n2 ++ (ReadBinary ++ ReadBinary2) = (n2 ++ ReadBinary) ++ ReadBinary2
      BY MergeAssociative
    <3> QED BY <3>1, <3>2
  <2>3. ReadExceptions = U ++ ReadRest
    BY ExceptionsAgree
  <2> QED BY <2>1, <2>2, <2>3
<1> HIDE DEF U
<1>6. Written = ((n ++ m) ++ U) ++ WrittenExceptions ++ WrittenCollections
  BY <1>4, MergeAssociative
<1>7. ReadOperands = ((n2 ++ m2) ++ U) ++ ReadRest ++ ReadCollections
  BY <1>5, MergeAssociative
<1> QED BY <1>2, <1>3, <1>6, <1>7, MergeAgree, ExceptionsAgree, CollectionsAgree

\* A table knows the opcodes in S.
Knows(t, S) == S = DOMAIN t

\* A group knows its opcodes.
LEMMA EachKnows ==
  ASSUME NEW S, NEW x
  PROVE  Knows(Each(S, x), S)
BY DEF Knows, Each

\* Two tables in one know the opcodes of both.
LEMMA MergeKnows ==
  ASSUME NEW t, NEW u, NEW S, NEW T, Knows(t, S), Knows(u, T)
  PROVE  Knows(t ++ u, S \union T)
<1>1. PICK v : v = t ++ u
  OBVIOUS
<1>2. InOne(v, t, u)
  BY <1>1, Merged, Zenon
<1>3. Knows(v, S \union T)
  BY <1>2, Zenon DEF InOne, Knows
<1> QED BY <1>1, <1>3, Zenon

\* The reader knows every opcode.
LEMMA AllRead == Range(OpCodes) \subseteq DOMAIN ReadOperands
<1>1. Knows(ReadNames,
        {"END"}
        \union {"LOAD", "LOAD_GLOBAL", "LOAD_NONLOC", "STORE_NAME", "STORE_GLOBAL",
                "STORE_NONLOC"}
        \union {"LOAD_ATTR", "STORE_ATTR", "STORE_CONST_ATTR"}
        \union {"STORE", "STORE_CONST"}
        \union {"STORE_SUBSC", "STORE_CONST_SUBSC", "STORE_SUBSC_CONST",
                "STORE_C_SUBSC_C"})
  BY MergeKnows, EachKnows DEF ReadNames
<1>2. Knows(ReadConstants,
        {"STORE_INT_CONST"}
        \union {"STORE_FLOAT_CONST"}
        \union {"STORE_BOOL_CONST"}
        \union {"STORE_STRING_CONST"}
        \union {"STORE_NIL_CONST"})
  BY MergeKnows, EachKnows DEF ReadConstants
<1>3. Knows(ReadCalls,
        {"JMP", "BREAK_TO"}
        \union {"JMP_IF_TRUE", "JMP_IF_FALSE"}
        \union {"CALL"}
        \union {"CALL_FORMATTER", "PUSH_NAMED_ARG"}
        \union {"POP_FRAME", "PUSH_CALL_FRAME", "POP_CALL_FRAME"}
        \union {"RETURN", "RETURN_CONST", "PUSH_ARG", "PUSH_CONST_ARG", "PUSH_UNPACKED"})
  BY MergeKnows, EachKnows DEF ReadCalls
<1>4. Knows(ReadDeclarations,
        {"CREATE_FUN"}
        \union {"FUN_BEGIN", "IMPORT_ALL", "PUSH_PARENT", "OUTPUT"}
        \union {"SET_DEFAULT", "SET_DEFAULT_CONST", "SET_TYPE"}
        \union {"SET_VARARG"}
        \union {"IMPORT", "BUILD_CLASS", "DOCUMENT"}
        \union {"ANNOTATE"}
        \union {"ANNOTATE_MOD"})
  BY MergeKnows, EachKnows DEF ReadDeclarations
<1>5. Knows(ReadBinary ++ ReadBinary2 ++ ReadBinary3, From("CONCAT", "SUBSCREST"))
  BY OperatorsAgree, EachKnows DEF Agree, Knows
<1>6. Knows(ReadExceptions,
        {"NOT", "NEG"}
        \union {"ASSERT"}
        \union {"RAISE", "FINALLY_RETURN"}
        \union ({"CATCH"} \union {"CATCH_TYPED"})
        \union {"POP_CATCH"}
        \union {"FINALLY"}
        \union {"POP_FINALLY", "RUN_FINALLY"})
  BY MergeKnows, EachKnows DEF ReadExceptions, ReadCatch
<1>7. Knows(ReadCollections,
        {"LIST_PUSH", "LIST_PUSH_CONST", "ITER"}
        \union {"BUILD_LIST"}
        \union {"BUILD_DICT"}
        \union {"BUILD_ENUM"}
        \union {"BUILD_SPACE"}
        \union Ranges
        \union {"SWITCH"}
        \union {"FOR"}
        \union {"FOR_MULTI"}
        \union {"LOOP_BEGIN", "LOOP_END"})
  <2> DEFINE t == Each({"LIST_PUSH", "LIST_PUSH_CONST", "ITER"}, RR)
                    ++ Each({"BUILD_LIST"}, R) ++ Each({"BUILD_DICT"}, RRR)
                    ++ Each({"BUILD_ENUM"}, RRS) ++ Each({"BUILD_SPACE"}, RS)
             T == {"LIST_PUSH", "LIST_PUSH_CONST", "ITER"} \union {"BUILD_LIST"}
                    \union {"BUILD_DICT"} \union {"BUILD_ENUM"} \union {"BUILD_SPACE"}
  <2>1. Knows(t, T)
    BY MergeKnows, EachKnows
  <2>2. ReadCollections =
          t ++ Each(Ranges, RRRR) ++ Each({"SWITCH"}, <<"reg", "reg", "reg", "addr">>)
            ++ Each({"FOR"}, <<"reg", "reg", "addr">>)
            ++ Each({"FOR_MULTI"}, <<"reg", "reg", "addr", "reg">>)
            ++ Each({"LOOP_BEGIN", "LOOP_END"}, <<>>)
    BY Zenon DEF ReadCollections, Ranges
  <2> HIDE DEF t
  <2> QED BY <2>1, <2>2, MergeKnows, EachKnows
<1>8. DOMAIN ReadOperands =
        DOMAIN ReadNames \union DOMAIN ReadConstants \union DOMAIN ReadCalls
          \union DOMAIN ReadDeclarations \union DOMAIN ReadBinary
          \union DOMAIN ReadBinary2 \union DOMAIN ReadBinary3
          \union DOMAIN ReadExceptions \union DOMAIN ReadCollections
  <2>1. \A t : Knows(t, DOMAIN t)
    BY DEF Knows
  <2>2. Knows(ReadOperands,
          DOMAIN ReadNames \union DOMAIN ReadConstants \union DOMAIN ReadCalls
            \union DOMAIN ReadDeclarations \union DOMAIN ReadBinary
            \union DOMAIN ReadBinary2 \union DOMAIN ReadBinary3
            \union DOMAIN ReadExceptions \union DOMAIN ReadCollections)
    BY <2>1, MergeKnows, ZenonT(40) DEF ReadOperands
  <2> QED BY <2>2 DEF Knows
<1>9. ASSUME NEW i \in 1 .. 50 PROVE PlainOpCodes[i] \in DOMAIN ReadOperands
  <2>1. PlainOpCodes[i] \in DOMAIN ReadNames \union DOMAIN ReadConstants
                              \union DOMAIN ReadCalls \union DOMAIN ReadDeclarations
    BY <1>1, <1>2, <1>3, <1>4, SMTT(60) DEF PlainOpCodes, Knows
  <2> QED BY <1>8, <2>1
<1>10. ASSUME NEW i \in 51 .. 106 PROVE OpCodes[i] \in DOMAIN ReadOperands
  <2>1. OpCodes[i] \in From("CONCAT", "SUBSCREST")
    BY FromBounds
  <2>2. From("CONCAT", "SUBSCREST")
          = DOMAIN ReadBinary \union DOMAIN ReadBinary2 \union DOMAIN ReadBinary3
    <3>1. Knows(ReadBinary, DOMAIN ReadBinary) /\ Knows(ReadBinary2, DOMAIN ReadBinary2)
          /\ Knows(ReadBinary3, DOMAIN ReadBinary3)
      BY Zenon DEF Knows
    <3>2. Knows(ReadBinary ++ ReadBinary2 ++ ReadBinary3,
                DOMAIN ReadBinary \union DOMAIN ReadBinary2 \union DOMAIN ReadBinary3)
      BY <3>1, MergeKnows
    <3> QED BY <1>5, <3>2, Zenon DEF Knows
  <2> QED BY <1>8, <2>1, <2>2
<1>11. ASSUME NEW i \in 1 .. 31 PROVE OtherOpCodes[i] \in DOMAIN ReadOperands
  <2>1. OtherOpCodes[i] \in DOMAIN ReadExceptions \union DOMAIN ReadCollections
    BY <1>6, <1>7, SMTT(60) DEF OtherOpCodes, Knows, Ranges
  <2> QED BY <1>8, <2>1
<1>12. ASSUME NEW i \in 1 .. 137 PROVE OpCodes[i] \in DOMAIN ReadOperands
  <2>1. CASE i \in 1 .. 50
    BY <1>9, <2>1, OpCodeAt
  <2>2. CASE i \in 51 .. 106
    BY <1>10, <2>2
  <2>3. CASE i \in 107 .. 137
    BY <1>11, <2>3, OpCodeAt, i - 106 \in 1 .. 31, i = 106 + (i - 106)
  <2> QED BY <2>1, <2>2, <2>3
<1> QED BY <1>12, OpCodeAt DEF Range

-----------------------------------------------------------------------------
(* Parts of a file: what was written one after the other is found there.   *)

\* The k-th byte of a value.
Byte == Nat \X Nat

\* Two sequences, one after the other.
LEMMA Concatenation ==
  ASSUME NEW S, NEW s \in Seq(S), NEW t \in Seq(S)
  PROVE  /\ s \o t \in Seq(S)
         /\ Len(s \o t) = Len(s) + Len(t)
         /\ \A k \in 1 .. Len(s) : (s \o t)[k] = s[k]
         /\ \A k \in 1 .. Len(t) : (s \o t)[Len(s) + k] = t[k]
OBVIOUS

\* The bytes s are in b from position p on.
At(b, p, s) ==
    /\ p + Len(s) <= Len(b)
    /\ \A k \in 1 .. Len(s) : b[p + k] = s[k]

\* Of what is written one after the other, each is where it was written.
LEMMA AtConcatenation ==
  ASSUME NEW S, NEW b \in Seq(S), NEW p \in Nat, NEW s \in Seq(S), NEW t \in Seq(S),
         At(b, p, s \o t)
  PROVE  At(b, p, s) /\ At(b, p + Len(s), t)
<1>1. /\ Len(s) \in Nat /\ Len(t) \in Nat /\ Len(b) \in Nat
      /\ Len(s \o t) = Len(s) + Len(t)
      /\ \A k \in 1 .. Len(s) : (s \o t)[k] = s[k]
      /\ \A k \in 1 .. Len(t) : (s \o t)[Len(s) + k] = t[k]
  BY Concatenation
<1>2. /\ p + (Len(s) + Len(t)) <= Len(b)
      /\ \A k \in 1 .. Len(s) + Len(t) : b[p + k] = (s \o t)[k]
  BY <1>1 DEF At
<1>3. p + Len(s) <= Len(b) /\ p + Len(s) + Len(t) <= Len(b)
  BY <1>1, <1>2
<1>4. \A k \in 1 .. Len(s) : b[p + k] = s[k]
  BY <1>1, <1>2
<1>5. \A k \in 1 .. Len(t) : b[p + Len(s) + k] = t[k]
  <2> TAKE k \in 1 .. Len(t)
  <2>1. Len(s) + k \in 1 .. Len(s) + Len(t) /\ p + (Len(s) + k) = p + Len(s) + k
    BY <1>1
  <2> QED BY <1>1, <1>2, <2>1
<1> QED BY <1>3, <1>4, <1>5 DEF At

\* What was read from there is what is there.
LEMMA AtPart ==
  ASSUME NEW S, NEW b \in Seq(S), NEW p \in Nat, NEW s \in Seq(S), At(b, p, s)
  PROVE  SubSeq(b, p + 1, p + Len(s)) = s
<1>1. Len(s) \in Nat /\ Len(b) \in Nat /\ p + Len(s) <= Len(b)
  BY DEF At
<1>2. \A i \in p + 1 .. p + Len(s) : b[i] \in S
  BY <1>1
<1>3. /\ SubSeq(b, p + 1, p + Len(s)) \in Seq(S)
      /\ Len(SubSeq(b, p + 1, p + Len(s)))
           = IF p + 1 <= p + Len(s) THEN p + Len(s) - (p + 1) + 1 ELSE 0
      /\ \A i \in 1 .. p + Len(s) - (p + 1) + 1 :
            SubSeq(b, p + 1, p + Len(s))[i] = b[p + 1 + i - 1]
  BY <1>1, <1>2, SubSeqProperties
<1>4. Len(SubSeq(b, p + 1, p + Len(s))) = Len(s)
  BY <1>1, <1>3
<1>5. \A i \in 1 .. Len(s) : SubSeq(b, p + 1, p + Len(s))[i] = s[i]
  BY <1>1, <1>3 DEF At
<1> QED BY <1>3, <1>4, <1>5, SeqEqual

-----------------------------------------------------------------------------

\* A sequence of sequences in one, part by part.
LEMMA FlattenedInParts ==
  ASSUME NEW S, NEW s \in Seq(Seq(S))
  PROVE  \E f \in [0 .. Len(s) -> Seq(S)] :
            /\ f[0] = <<>>
            /\ \A k \in 1 .. Len(s) : f[k] = f[k - 1] \o s[k]
            /\ FlattenSeq(s) = f[Len(s)]
<1>1. PICK n \in Nat : n = Len(s)
  OBVIOUS
<1>2. CASE n = 0
  <2>1. s = <<>> /\ FlattenSeq(s) = <<>>
    <3>1. Len(s) = 0 /\ s = <<>>
      <4>1. s # <<>> => Len(s) \in Nat \ {0}
        BY EmptySeq, Zenon
      <4>2. Len(s) = 0
        BY <1>1, <1>2
      <4>3. ~ (0 \in Nat \ {0})
        OBVIOUS
      <4> QED BY <4>1, <4>2, <4>3, Zenon
    <3>2. FlattenSeq(s) = s
      BY <3>1, Zenon DEF FlattenSeq
    <3> QED BY <3>1, <3>2
  <2>2. PICK f : f = [k \in 0 .. 0 |-> <<>>]
    OBVIOUS
  <2> QED BY <1>1, <1>2, <2>1, <2>2
<1>3. CASE n # 0
  <2> DEFINE F(g, m) == g = [i \in 1 .. m |-> IF i = 1 THEN s[i] ELSE g[i - 1] \o s[i]]
             P(m) == \E g : F(g, m) /\ g \in [1 .. m -> Seq(S)]
  <2>1. P(1)
    <3>1. PICK g : g = [i \in 1 .. 1 |-> s[i]]
      OBVIOUS
    <3>2. F(g, 1) /\ g \in [1 .. 1 -> Seq(S)]
      BY <1>1, <1>3, <3>1
    <3> QED BY <3>2
  <2>2. ASSUME NEW m \in 1 .. n - 1, P(m) PROVE P(m + 1)
    <3>1. PICK g : F(g, m) /\ g \in [1 .. m -> Seq(S)]
      BY <2>2
    <3>2. PICK h : h = [i \in 1 .. m + 1 |-> IF i = m + 1 THEN g[m] \o s[m + 1] ELSE g[i]]
      OBVIOUS
    <3>3. m + 1 \in 1 .. n /\ s[m + 1] \in Seq(S) /\ g[m] \in Seq(S)
      BY <1>1, <3>1
    <3>4. h \in [1 .. m + 1 -> Seq(S)]
      <4>1. g[m] \o s[m + 1] \in Seq(S)
        BY <3>3
      <4>2. \A i \in 1 .. m + 1 : i # m + 1 => g[i] \in Seq(S)
        BY <3>1
      <4> QED BY <3>2, <4>1, <4>2
    <3>5. \A i \in 1 .. m + 1 : h[i] = IF i = 1 THEN s[i] ELSE h[i - 1] \o s[i]
      <4> TAKE i \in 1 .. m + 1
      <4>1. CASE i = m + 1
        BY <3>2, <4>1, m \in 1 .. m + 1, m # m + 1, i # 1, i - 1 = m
      <4>2. CASE i # m + 1
        <5>1. i \in 1 .. m /\ h[i] = g[i]
          BY <3>2, <4>2
        <5>2. i # 1 => i - 1 \in 1 .. m /\ h[i - 1] = g[i - 1]
          BY <3>2, <5>1
        <5> QED BY <3>1, <5>1, <5>2
      <4> QED BY <4>1, <4>2
    <3>6. F(h, m + 1)
      BY <3>4, <3>5
    <3> QED BY <3>4, <3>6
  <2>3. P(n)
    <3> DEFINE T == {m \in Nat : P(m)}
    <3>1. 1 \in T
      BY <2>1
    <3>2. \A m \in 1 .. n - 1 : m \in T => m + 1 \in T
      <4> TAKE m \in 1 .. n - 1
      <4>1. m \in Nat /\ m + 1 \in Nat
        OBVIOUS
      <4> HIDE DEF P
      <4> QED BY <2>2, <4>1
    <3> HIDE DEF T
    <3>3. 1 .. n \subseteq T
      BY <1>1, <3>1, <3>2, SetInduction
    <3>4. n \in T
      BY <1>1, <1>3, <3>3
    <3> QED BY <3>4 DEF T
  <2>4. PICK g : F(g, n) /\ g = CHOOSE h : F(h, n)
    BY <2>3
  <2>5. FlattenSeq(s) = g[n]
    BY <1>1, <1>3, <2>4 DEF FlattenSeq
  <2> HIDE DEF P
  <2>6. g \in [1 .. n -> Seq(S)]
    <3>1. \A i \in 1 .. n : g[i] = IF i = 1 THEN s[i] ELSE g[i - 1] \o s[i]
      BY <2>4
    <3> DEFINE T == {m \in Nat : m \in 1 .. n => g[m] \in Seq(S)}
    <3>2. 1 \in T
      BY <1>1, <1>3, <3>1
    <3>3. \A m \in 1 .. n - 1 : m \in T => m + 1 \in T
      <4> TAKE m \in 1 .. n - 1
      <4>1. m + 1 \in 1 .. n /\ s[m + 1] \in Seq(S) /\ m + 1 # 1 /\ m + 1 - 1 = m
        BY <1>1
      <4>2. m \in T => g[m] \in Seq(S)
        BY <1>1
      <4>3. g[m + 1] = g[m] \o s[m + 1]
        <5>1. PICK i \in 1 .. n : i = m + 1
          BY <4>1
        <5>2. i # 1 /\ i - 1 = m
          BY <5>1
        <5>3. g[i] = g[i - 1] \o s[i]
          BY <3>1, <5>2
        <5> QED BY <5>1, <5>2, <5>3
      <4>4. g[m] \in Seq(S) => g[m] \o s[m + 1] \in Seq(S)
        BY <4>1
      <4>5. m + 1 \in Nat
        OBVIOUS
      <4> QED BY <4>2, <4>3, <4>4, <4>5, Zenon
    <3> HIDE DEF T
    <3>4. 1 .. n \subseteq T
      BY <1>1, <3>2, <3>3, SetInduction
    <3>5. \A m \in 1 .. n : g[m] \in Seq(S)
      BY <3>4 DEF T
    <3> QED BY <2>4, <3>5
  <2>7. PICK f : f = [k \in 0 .. n |-> IF k = 0 THEN <<>> ELSE g[k]]
    OBVIOUS
  <2>8. f \in [0 .. n -> Seq(S)] /\ f[0] = <<>> /\ FlattenSeq(s) = f[n]
    BY <1>3, <2>5, <2>6, <2>7
  <2>9. \A k \in 1 .. n : f[k] = f[k - 1] \o s[k]
    <3> TAKE k \in 1 .. n
    <3>1. g[k] = IF k = 1 THEN s[k] ELSE g[k - 1] \o s[k]
      BY <2>4
    <3>2. f[k] = g[k] /\ s[k] \in Seq(S)
      BY <1>1, <2>7
    <3>3. CASE k = 1
      <4>1. f[k - 1] = <<>> /\ f[k] = s[k]
        BY <2>8, <3>1, <3>2, <3>3
      <4> QED BY <3>2, <4>1
    <3>4. CASE k # 1
      <4>1. f[k - 1] = g[k - 1]
        BY <2>7, <3>4
      <4> QED BY <3>1, <3>2, <3>4, <4>1
    <3> QED BY <3>3, <3>4
  <2> QED BY <1>1, <2>8, <2>9
<1> QED BY <1>2, <1>3

\* f has, for each k, the first k parts s[1], s[2], ... one after the other.
InParts(f, s, n, S) ==
    /\ f \in [0 .. n -> Seq(S)]
    /\ f[0] = <<>>
    /\ \A k \in 1 .. n : s[k] \in Seq(S) /\ f[k] = f[k - 1] \o s[k]

\* What comes first stays where it is.
LEMMA PartsStay ==
  ASSUME NEW S, NEW n \in Nat, NEW f, NEW s, InParts(f, s, n, S), NEW j \in 0 .. n
  PROVE  At(f[n], 0, f[j])
<1> DEFINE T == {k \in Nat : k \in 0 .. n /\ At(f[k], 0, f[j])}
<1>1. j \in T
  BY DEF At, InParts
<1>2. ASSUME NEW k \in j .. n - 1, k \in T PROVE k + 1 \in T
  <2>1. k + 1 \in 1 .. n /\ k \in 0 .. n /\ k + 1 - 1 = k /\ At(f[k], 0, f[j])
    BY <1>2
  <2>2. /\ f[j] \in Seq(S) /\ f[k] \in Seq(S) /\ s[k + 1] \in Seq(S)
        /\ f[k + 1] = f[k] \o s[k + 1]
    <3>1. PICK i \in 1 .. n : i = k + 1
      BY <2>1
    <3>2. i - 1 = k
      BY <3>1
    <3> QED BY <2>1, <3>1, <3>2 DEF InParts
  <2>3. At(f[k + 1], 0, f[j])
    <3>1. PICK v : v = f[k + 1]
      OBVIOUS
    <3>2. PICK u, w, x : u = f[j] /\ w = f[k] /\ x = s[k + 1]
      OBVIOUS
    <3>3. /\ u \in Seq(S) /\ w \in Seq(S) /\ x \in Seq(S) /\ v = w \o x
          /\ At(w, 0, u)
      BY <2>1, <2>2, <3>1, <3>2
    <3>4. /\ Len(u) \in Nat /\ Len(w) \in Nat /\ Len(x) \in Nat
          /\ Len(v) = Len(w) + Len(x)
          /\ \A i \in 1 .. Len(w) : v[i] = w[i]
      BY <3>3
    <3>5. Len(u) <= Len(w) /\ \A i \in 1 .. Len(u) : w[i] = u[i]
      BY <3>3, <3>4 DEF At
    <3>6. At(v, 0, u)
      BY <3>4, <3>5 DEF At
    <3> QED BY <3>1, <3>2, <3>6
  <2> QED BY <2>1, <2>3
<1> HIDE DEF T
<1>3. j .. n \subseteq T
  BY <1>1, <1>2, SetInduction
<1>4. n \in T
  BY <1>3
<1> QED BY <1>4 DEF T

\* The k-th part is in b where the parts before it end.
Follows(b, p, f, s, k) ==
    /\ At(b, p + Len(f[k - 1]), s[k])
    /\ Len(f[k - 1]) \in Nat /\ Len(s[k]) \in Nat
    /\ Len(f[k]) = Len(f[k - 1]) + Len(s[k])

\* Each part is there.
LEMMA PartAt ==
  ASSUME NEW S, NEW n \in Nat, NEW f, NEW s, InParts(f, s, n, S), NEW k \in 1 .. n,
         NEW b \in Seq(S), NEW p \in Nat, At(b, p, f[n])
  PROVE  Follows(b, p, f, s, k)
<1>1. /\ k - 1 \in 0 .. n /\ k \in 0 .. n /\ n \in 0 .. n
      /\ f[k] \in Seq(S) /\ f[k - 1] \in Seq(S) /\ f[n] \in Seq(S)
      /\ s[k] \in Seq(S) /\ f[k] = f[k - 1] \o s[k]
  <2>1. k - 1 \in 0 .. n /\ k \in 0 .. n /\ n \in 0 .. n
    OBVIOUS
  <2> QED BY <2>1 DEF InParts
<1>2. At(f[n], 0, f[k])
  BY <1>1, PartsStay
<1>3. At(b, p, f[k])
  <2>1. Len(f[k]) \in Nat /\ Len(f[n]) \in Nat /\ Len(b) \in Nat
    <3>1. f[k] \in Seq(S) /\ f[n] \in Seq(S)
      BY <1>1
    <3> QED BY <3>1
  <2>2. Len(f[k]) <= Len(f[n]) /\ \A i \in 1 .. Len(f[k]) : f[n][i] = f[k][i]
    BY <1>2, <2>1 DEF At
  <2>3. p + Len(f[n]) <= Len(b) /\ \A i \in 1 .. Len(f[n]) : b[p + i] = f[n][i]
    BY DEF At
  <2>4. p + Len(f[k]) <= Len(b)
    BY <2>1, <2>2, <2>3
  <2>5. \A i \in 1 .. Len(f[k]) : b[p + i] = f[k][i]
    BY <2>1, <2>2, <2>3
  <2> QED BY <2>4, <2>5 DEF At
<1>4. At(b, p + Len(f[k - 1]), s[k])
  BY <1>1, <1>3, AtConcatenation
<1> QED BY <1>1, <1>4 DEF Follows

-----------------------------------------------------------------------------

\* Operands are read one after the other.
LEMMA ReadInParts ==
  ASSUME NEW first, NEW fields \in Seq(Fields)
  PROVE  \E g : /\ g[0] = first
                /\ \A k \in 1 .. Len(fields) : g[k] = ReadField(g[k - 1], fields[k])
                /\ ReadFields(first, fields) = g[Len(fields)]
<1>1. PICK n \in Nat : n = Len(fields)
  OBVIOUS
<1> DEFINE F(g, m) ==
             g = [i \in 0 .. m |-> IF i = 0 THEN first ELSE ReadField(g[i - 1], fields[i])]
           P(m) == \E g : F(g, m)
<1>2. P(0)
  <2>1. PICK g : g = [i \in 0 .. 0 |-> first]
    OBVIOUS
  <2>2. F(g, 0)
    BY <2>1
  <2> QED BY <2>2
<1>3. ASSUME NEW m \in 0 .. n - 1, P(m) PROVE P(m + 1)
  <2>1. PICK g : F(g, m)
    BY <1>3
  <2>2. PICK h : h = [i \in 0 .. m + 1 |->
                        IF i = m + 1 THEN ReadField(g[m], fields[m + 1]) ELSE g[i]]
    OBVIOUS
  <2>3. \A i \in 0 .. m + 1 :
           h[i] = IF i = 0 THEN first ELSE ReadField(h[i - 1], fields[i])
    <3> TAKE i \in 0 .. m + 1
    <3>1. CASE i = m + 1
      <4>1. h[i] = ReadField(g[m], fields[i])
        BY <2>2, <3>1
      <4>2. i # 0 /\ h[i - 1] = g[m]
        BY <2>2, <3>1
      <4> QED BY <4>1, <4>2
    <3>2. CASE i # m + 1
      <4>1. i \in 0 .. m /\ h[i] = g[i]
        BY <2>2, <3>2
      <4>2. i # 0 => h[i - 1] = g[i - 1]
        BY <2>2, <4>1
      <4>3. g[i] = IF i = 0 THEN first ELSE ReadField(g[i - 1], fields[i])
        BY <2>1, <4>1
      <4> QED BY <4>1, <4>2, <4>3
    <3> QED BY <3>1, <3>2
  <2>4. h = [i \in 0 .. m + 1 |-> h[i]]
    BY <2>2
  <2>5. F(h, m + 1)
    BY <2>3, <2>4
  <2> QED BY <2>5
<1>4. P(n)
  <2> DEFINE T == {m \in Nat : P(m)}
  <2>1. 0 \in T
    BY <1>2
  <2>2. \A m \in 0 .. n - 1 : m \in T => m + 1 \in T
    <3> TAKE m \in 0 .. n - 1
    <3>1. m \in Nat /\ m + 1 \in Nat
      OBVIOUS
    <3> HIDE DEF P
    <3> QED BY <1>3, <3>1
  <2> HIDE DEF T
  <2>3. 0 .. n \subseteq T
    BY <2>1, <2>2, SetInduction
  <2>4. n \in T
    BY <2>3
  <2> QED BY <2>4 DEF T
<1>5. PICK g : F(g, n) /\ g = CHOOSE h : F(h, n)
  BY <1>4
<1>6. ReadFields(first, fields) = g[n]
  BY <1>1, <1>5 DEF ReadFields
<1>7. g[0] = first
  <2>1. 0 \in 0 .. n
    OBVIOUS
  <2> QED BY <1>5, <2>1
<1>8. \A k \in 1 .. n : g[k] = ReadField(g[k - 1], fields[k])
  <2> TAKE k \in 1 .. n
  <2>1. k \in 0 .. n /\ k # 0
    OBVIOUS
  <2> QED BY <1>5, <2>1
<1> QED BY <1>1, <1>6, <1>7, <1>8

-----------------------------------------------------------------------------

\* The bytes of the first n opcodes of a code.
BytesOf(c) ==
    LET f[n \in 0 .. Len(c)] == IF n = 0 THEN <<>> ELSE f[n - 1] \o OpBytes(c[n])
    IN  f

\* They are in the file, opcode by opcode.
LEMMA BytesInParts ==
  ASSUME NEW c, Len(c) \in Nat, \A k \in 1 .. Len(c) : OpBytes(c[k]) \in Seq(Byte)
  PROVE  InParts(BytesOf(c), [k \in 1 .. Len(c) |-> OpBytes(c[k])], Len(c), Byte)
<1>1. PICK n \in Nat : n = Len(c)
  OBVIOUS
<1>0. PICK s : s = [k \in 1 .. n |-> OpBytes(c[k])]
  OBVIOUS
<1> DEFINE F(g, m) ==
             g = [i \in 0 .. m |-> IF i = 0 THEN <<>> ELSE g[i - 1] \o OpBytes(c[i])]
           P(m) == \E g : F(g, m)
<1>2. P(0)
  <2>1. PICK g : g = [i \in 0 .. 0 |-> <<>>]
    OBVIOUS
  <2>2. F(g, 0)
    BY <2>1
  <2> QED BY <2>2
<1>3. ASSUME NEW m \in 0 .. n - 1, P(m) PROVE P(m + 1)
  <2>1. PICK g : F(g, m)
    BY <1>3
  <2>2. PICK h : h = [i \in 0 .. m + 1 |->
                        IF i = m + 1 THEN g[m] \o OpBytes(c[m + 1]) ELSE g[i]]
    OBVIOUS
  <2>3. \A i \in 0 .. m + 1 :
           h[i] = IF i = 0 THEN <<>> ELSE h[i - 1] \o OpBytes(c[i])
    <3> TAKE i \in 0 .. m + 1
    <3>1. CASE i = m + 1
      <4>1. h[i] = g[m] \o OpBytes(c[i])
        BY <2>2, <3>1
      <4>2. i # 0 /\ h[i - 1] = g[m]
        BY <2>2, <3>1
      <4> QED BY <4>1, <4>2
    <3>2. CASE i # m + 1
      <4>1. i \in 0 .. m /\ h[i] = g[i]
        BY <2>2, <3>2
      <4>2. i # 0 => h[i - 1] = g[i - 1]
        BY <2>2, <4>1
      <4>3. g[i] = IF i = 0 THEN <<>> ELSE g[i - 1] \o OpBytes(c[i])
        BY <2>1, <4>1
      <4> QED BY <4>1, <4>2, <4>3
    <3> QED BY <3>1, <3>2
  <2>4. h = [i \in 0 .. m + 1 |-> h[i]]
    BY <2>2
  <2>5. F(h, m + 1)
    BY <2>3, <2>4
  <2> QED BY <2>5
<1>4. P(n)
  <2> DEFINE T == {m \in Nat : P(m)}
  <2>1. 0 \in T
    BY <1>2
  <2>2. \A m \in 0 .. n - 1 : m \in T => m + 1 \in T
    <3> TAKE m \in 0 .. n - 1
    <3>1. m \in Nat /\ m + 1 \in Nat
      OBVIOUS
    <3> HIDE DEF P
    <3> QED BY <1>3, <3>1
  <2> HIDE DEF T
  <2>3. 0 .. n \subseteq T
    BY <2>1, <2>2, SetInduction
  <2>4. n \in T
    BY <2>3
  <2> QED BY <2>4 DEF T
<1>5. PICK g : F(g, n) /\ g = CHOOSE h : F(h, n)
  BY <1>4
<1>6. BytesOf(c) = g
  BY <1>1, <1>5 DEF BytesOf
<1>7. g[0] = <<>>
  <2>1. 0 \in 0 .. n
    OBVIOUS
  <2> QED BY <1>5, <2>1
<1>8. \A k \in 1 .. n : s[k] \in Seq(Byte) /\ g[k] = g[k - 1] \o s[k]
  <2> TAKE k \in 1 .. n
  <2>1. k \in 0 .. n /\ k # 0 /\ s[k] = OpBytes(c[k]) /\ s[k] \in Seq(Byte)
    BY <1>0, <1>1
  <2> QED BY <1>5, <2>1
<1>9. g \in [0 .. n -> Seq(Byte)]
  <2> DEFINE T == {m \in Nat : m \in 0 .. n /\ g[m] \in Seq(Byte)}
  <2>1. 0 \in T
    <3>1. <<>> \in Seq(Byte)
      BY EmptySeq
    <3>2. 0 \in 0 .. n /\ 0 \in Nat
      OBVIOUS
    <3>3. g[0] \in Seq(Byte)
      BY <1>7, <3>1
    <3> HIDE DEF F, P
    <3> QED BY <3>2, <3>3
  <2>2. \A m \in 0 .. n - 1 : m \in T => m + 1 \in T
    <3> TAKE m \in 0 .. n - 1
    <3>1. PICK i \in 1 .. n : i = m + 1
      OBVIOUS
    <3>2. i - 1 = m /\ m + 1 \in Nat /\ m + 1 \in 0 .. n
      BY <3>1
    <3>3. s[i] \in Seq(Byte) /\ g[i] = g[m] \o s[i]
      BY <1>8, <3>2
    <3>4. g[m] \in Seq(Byte) => g[m] \o s[i] \in Seq(Byte)
      BY <3>3
    <3> QED BY <3>1, <3>2, <3>3, <3>4
  <2> HIDE DEF T
  <2>3. 0 .. n \subseteq T
    BY <2>1, <2>2, SetInduction
  <2>4. \A m \in 0 .. n : g[m] \in Seq(Byte)
    BY <2>3 DEF T
  <2>5. g = [i \in 0 .. n |-> g[i]]
    BY <1>5
  <2> QED BY <2>4, <2>5
<1>10. InParts(g, s, n, Byte)
  BY <1>7, <1>8, <1>9 DEF InParts
<1> QED BY <1>0, <1>1, <1>6, <1>10

-----------------------------------------------------------------------------
(* Values and their bytes, and what the reader makes of any bytes.         *)

\* What the bytes of a value are.
LEMMA BytesAre ==
  ASSUME NEW v \in Nat, NEW size \in Nat
  PROVE  /\ Bytes(v, size) \in Seq(Byte)
         /\ Len(Bytes(v, size)) = size
         /\ \A k \in 1 .. size : Bytes(v, size)[k] = <<v, k>>
<1>1. \A k \in 1 .. size : <<v, k>> \in Byte
  BY DEF Byte
<1> QED BY <1>1 DEF Bytes

\* A value is read back from its bytes.
LEMMA ValueOfBytes ==
  ASSUME NEW v \in Nat, NEW size \in Nat \ {0}
  PROVE  Value(Bytes(v, size)) = v
<1>1. PICK b : b = Bytes(v, size)
  OBVIOUS
<1>2. Len(b) = size /\ b[1] = <<v, 1>> /\ b # <<>>
  BY <1>1, BytesAre
<1>3. b[1][1] = v
  BY <1>2
<1>4. Value(b) = v
  BY <1>1, <1>2, <1>3 DEF Value
<1> QED BY <1>1, <1>4

\* From any bytes a number is read, or garbage.
LEMMA ValueType ==
  ASSUME NEW b \in Seq(Byte)
  PROVE  Value(b) \in Nat \union {Garbage}
<1>1. CASE b # <<>>
  <2>1. b[1] \in Byte
    BY <1>1
  <2>2. b[1][1] \in Nat
    BY <2>1 DEF Byte
  <2> QED BY <2>2 DEF Value
<1>2. CASE b = <<>>
  BY <1>2 DEF Value
<1> QED BY <1>1, <1>2

\* A field takes at least one byte.
LEMMA SizeType == \A f \in DOMAIN Size : Size[f] \in Nat \ {0}
BY DEF Size

\* A field is a string, or has a size.
LEMMA FieldsSplit ==
  ASSUME NEW f \in Fields
  PROVE  f = "str" \/ (f # "str" /\ f \in DOMAIN Size /\ Size[f] \in Nat \ {0})
BY SizeType DEF Fields

\* A value may be written for an operand.
Writable(f, v) == v \in Nat /\ (f = "str" => v \in DOMAIN StrLen)

\* What is written for an operand is bytes.
LEMMA FieldBytesType ==
  ASSUME NEW f \in Fields, NEW v, Writable(f, v)
  PROVE  FieldBytes(f, v) \in Seq(Byte)
<1>1. CASE f = "str"
  <2>1. StrLen[v] \in Nat /\ v \in Nat
    BY <1>1, StringAssumption DEF Writable
  <2>2. Bytes(StrLen[v], StrLenSize) \in Seq(Byte) /\ Bytes(v, StrLen[v]) \in Seq(Byte)
    BY <2>1, BytesAre DEF StrLenSize
  <2>3. StringBytes(v) \in Seq(Byte)
    BY <2>2 DEF StringBytes
  <2> QED BY <1>1, <2>3 DEF FieldBytes
<1>2. CASE f # "str"
  <2>1. Size[f] \in Nat /\ v \in Nat
    BY <1>2, FieldsSplit DEF Writable
  <2> QED BY <1>2, <2>1, BytesAre DEF FieldBytes
<1> QED BY <1>1, <1>2

-----------------------------------------------------------------------------

\* What read_raw and the operators that read operands pass on.
ReaderState ==
    [pos : Nat, crc : Seq(Byte), raw : Seq(Byte), args : Seq(Int),
     eof : BOOLEAN, wild : BOOLEAN, length : Nat]

\* The reader has read so many bytes of the file; those it could read in full
\* are in the checksum.
Sound(r, n) ==
    /\ r \in ReaderState
    /\ r.pos <= Len(file.bytes) /\ n <= Len(r.crc) /\ Len(r.crc) <= r.pos
    /\ \A k \in 1 .. Len(r.crc) : r.crc[k] = file.bytes[k]
    /\ IF r.eof THEN r.pos = Len(file.bytes) ELSE Len(r.crc) = r.pos

\* What read_raw leaves in each field of the reader's state.
LEMMA ReadRawFields ==
  ASSUME NEW r \in ReaderState, NEW size \in Nat, file.bytes \in Seq(Byte)
  PROVE  LET s == read_raw(r, size)
             part == SubSeq(file.bytes, r.pos + 1, r.pos + size)
         IN  /\ s.args = r.args /\ s.wild = r.wild /\ s.length = r.length
             /\ r.pos + size <= Len(file.bytes) =>
                  /\ s.pos = r.pos + size /\ s.crc = r.crc \o part /\ s.raw = part
                  /\ s.eof = r.eof
             /\ ~ (r.pos + size <= Len(file.bytes)) =>
                  /\ s.pos = Len(file.bytes) /\ s.crc = r.crc /\ s.raw = <<>>
                  /\ s.eof = TRUE
             /\ s = [pos |-> s.pos, crc |-> s.crc, raw |-> s.raw, args |-> s.args,
                     eof |-> s.eof, wild |-> s.wild, length |-> s.length]
BY DEF read_raw, ReaderState

\* A part of the file.
LEMMA PartOfFile ==
  ASSUME NEW b \in Seq(Byte), NEW p \in Nat, NEW size \in Nat, p + size <= Len(b)
  PROVE  /\ SubSeq(b, p + 1, p + size) \in Seq(Byte)
         /\ Len(SubSeq(b, p + 1, p + size)) = size
         /\ \A k \in 1 .. size : SubSeq(b, p + 1, p + size)[k] = b[p + k]
<1>1. \A i \in p + 1 .. p + size : b[i] \in Byte
  OBVIOUS
<1>2. /\ SubSeq(b, p + 1, p + size) \in Seq(Byte)
      /\ Len(SubSeq(b, p + 1, p + size))
           = IF p + 1 <= p + size THEN p + size - (p + 1) + 1 ELSE 0
      /\ \A i \in 1 .. p + size - (p + 1) + 1 :
            SubSeq(b, p + 1, p + size)[i] = b[p + 1 + i - 1]
  BY <1>1, SubSeqProperties
<1> QED BY <1>2

\* Reading some bytes keeps the reader sound.
LEMMA ReadRawSound ==
  ASSUME NEW r, NEW n \in Nat, NEW size \in Nat, file.bytes \in Seq(Byte), Sound(r, n)
  PROVE  Sound(read_raw(r, size), n)
<1>1. PICK s : s = read_raw(r, size)
  OBVIOUS
<1>2. PICK b \in Seq(Byte) : b = file.bytes
  OBVIOUS
<1>3. r \in ReaderState /\ r.pos \in Nat /\ r.crc \in Seq(Byte) /\ r.args \in Seq(Int)
      /\ r.eof \in BOOLEAN /\ r.wild \in BOOLEAN /\ r.length \in Nat
  BY DEF Sound, ReaderState
<1>4. Len(r.crc) \in Nat /\ Len(b) \in Nat
  BY <1>3
<1>5. CASE r.pos + size <= Len(b)
  <2>1. PICK part : part = SubSeq(b, r.pos + 1, r.pos + size)
    OBVIOUS
  <2>2. /\ s.pos = r.pos + size /\ s.crc = r.crc \o part /\ s.raw = part /\ s.eof = r.eof
        /\ s.args = r.args /\ s.wild = r.wild /\ s.length = r.length
        /\ s = [pos |-> s.pos, crc |-> s.crc, raw |-> s.raw, args |-> s.args,
                eof |-> s.eof, wild |-> s.wild, length |-> s.length]
    BY <1>1, <1>2, <1>3, <1>5, <2>1, ReadRawFields
  <2>3. part \in Seq(Byte) /\ Len(part) = size /\ \A k \in 1 .. size : part[k] = b[r.pos + k]
    <3>1. PICK p \in Nat : p = r.pos
      BY <1>3
    <3>2. p + size <= Len(b) /\ part = SubSeq(b, p + 1, p + size)
      BY <1>5, <2>1, <3>1, Zenon
    <3>3. /\ SubSeq(b, p + 1, p + size) \in Seq(Byte)
          /\ Len(SubSeq(b, p + 1, p + size)) = size
          /\ \A k \in 1 .. size : SubSeq(b, p + 1, p + size)[k] = b[p + k]
      BY <3>2, PartOfFile
    <3> QED BY <3>1, <3>2, <3>3, Zenon
  <2>4. /\ s.crc \in Seq(Byte) /\ Len(s.crc) = Len(r.crc) + size
        /\ \A k \in 1 .. Len(r.crc) : s.crc[k] = r.crc[k]
        /\ \A k \in 1 .. size : s.crc[Len(r.crc) + k] = part[k]
    <3>1. PICK c : c = r.crc
      OBVIOUS
    <3>2. c \in Seq(Byte) /\ s.crc = c \o part
      BY <1>3, <2>2, <3>1
    <3>3. /\ c \o part \in Seq(Byte) /\ Len(c \o part) = Len(c) + Len(part)
          /\ \A k \in 1 .. Len(c) : (c \o part)[k] = c[k]
          /\ \A k \in 1 .. Len(part) : (c \o part)[Len(c) + k] = part[k]
      <4>1. c \in Seq(Byte) /\ part \in Seq(Byte)
        BY <2>3, <3>2
      <4> QED BY <4>1, Concatenation
    <3> QED BY <2>3, <3>1, <3>2, <3>3, Zenon
  <2>5. s \in ReaderState
    <3>1. s.pos \in Nat /\ s.crc \in Seq(Byte) /\ s.raw \in Seq(Byte)
      BY <1>3, <2>2, <2>3, <2>4
    <3>2. /\ s.args \in Seq(Int) /\ s.eof \in BOOLEAN /\ s.wild \in BOOLEAN
          /\ s.length \in Nat
      BY <1>3, <2>2, Zenon
    <3>3. s = [pos |-> s.pos, crc |-> s.crc, raw |-> s.raw, args |-> s.args,
               eof |-> s.eof, wild |-> s.wild, length |-> s.length]
      BY <2>2
    <3> QED BY <3>1, <3>2, <3>3 DEF ReaderState
  <2>6. r.eof => size = 0
    BY <1>2, <1>3, <1>4, <1>5 DEF Sound
  <2>7. s.pos <= Len(b) /\ n <= Len(s.crc) /\ Len(s.crc) <= s.pos
    BY <1>2, <1>3, <1>4, <1>5, <2>2, <2>4 DEF Sound
  <2>8. \A k \in 1 .. Len(s.crc) : s.crc[k] = b[k]
    <3> TAKE k \in 1 .. Len(s.crc)
    <3>1. CASE k <= Len(r.crc)
      BY <1>2, <1>4, <2>4, <3>1 DEF Sound
    <3>2. CASE k > Len(r.crc)
      <4>1. PICK i \in 1 .. size : k = Len(r.crc) + i
        BY <1>4, <2>4, <3>2, k - Len(r.crc) \in 1 .. size
      <4>2. Len(r.crc) = r.pos
        BY <1>3, <2>6, <4>1 DEF Sound
      <4> QED BY <2>3, <2>4, <4>1, <4>2
    <3> QED BY <1>4, <2>4, <3>1, <3>2
  <2>9. IF s.eof THEN s.pos = Len(b) ELSE Len(s.crc) = s.pos
    BY <1>2, <1>3, <1>4, <2>2, <2>4, <2>6 DEF Sound
  <2> QED BY <1>1, <1>2, <2>5, <2>7, <2>8, <2>9 DEF Sound
<1>6. CASE ~ (r.pos + size <= Len(b))
  <2>2. /\ s.pos = Len(b) /\ s.crc = r.crc /\ s.raw = <<>> /\ s.eof = TRUE
        /\ s.args = r.args /\ s.wild = r.wild /\ s.length = r.length
        /\ s = [pos |-> s.pos, crc |-> s.crc, raw |-> s.raw, args |-> s.args,
                eof |-> s.eof, wild |-> s.wild, length |-> s.length]
    BY <1>1, <1>2, <1>3, <1>6, ReadRawFields
  <2>5. s \in ReaderState
    <3>1. <<>> \in Seq(Byte)
      BY EmptySeq
    <3> QED BY <1>3, <1>4, <2>2, <3>1 DEF ReaderState
  <2>7. s.pos <= Len(b) /\ n <= Len(s.crc) /\ Len(s.crc) <= s.pos
    BY <1>2, <1>3, <1>4, <2>2 DEF Sound
  <2>8. \A k \in 1 .. Len(s.crc) : s.crc[k] = b[k]
    BY <1>2, <2>2 DEF Sound
  <2> QED BY <1>1, <1>2, <2>2, <2>5, <2>7, <2>8 DEF Sound
<1> QED BY <1>5, <1>6

\* One more operand.
LEMMA AppendType ==
  ASSUME NEW a \in Seq(Int), NEW v \in Int
  PROVE  Append(a, v) \in Seq(Int)
OBVIOUS

\* An operand is added.
LEMMA ArgAppended ==
  ASSUME NEW r, NEW n, NEW v \in Int, Sound(r, n)
  PROVE  /\ Sound([r EXCEPT !.args = Append(@, v)], n)
         /\ Sound([r EXCEPT !.args = Append(@, v), !.wild = TRUE], n)
<1>1. r \in ReaderState /\ r.args \in Seq(Int)
  BY DEF Sound, ReaderState
<1>2. PICK a \in Seq(Int) : a = Append(r.args, v)
  BY <1>1, AppendType
<1>3. PICK s : s = [r EXCEPT !.args = a]
  OBVIOUS
<1>4. PICK t : t = [r EXCEPT !.args = a, !.wild = TRUE]
  OBVIOUS
<1>5. /\ s \in ReaderState /\ s.pos = r.pos /\ s.crc = r.crc /\ s.eof = r.eof
      /\ t \in ReaderState /\ t.pos = r.pos /\ t.crc = r.crc /\ t.eof = r.eof
  BY <1>1, <1>3, <1>4 DEF ReaderState
<1>6. Sound(s, n) /\ Sound(t, n)
  BY <1>5 DEF Sound
<1> QED BY <1>2, <1>3, <1>4, <1>6

\* What is read where no value was written is not a value.
LEMMA GarbageType == Garbage \in Int /\ Garbage \notin Nat
BY DEF Garbage

\* Reading a number keeps the reader sound.
LEMMA ReadNumberSound ==
  ASSUME NEW r, NEW n \in Nat, NEW size \in Nat, file.bytes \in Seq(Byte), Sound(r, n)
  PROVE  Sound(read_number(r, size), n)
<1>1. PICK s : s = read_raw(r, size)
  OBVIOUS
<1>2. Sound(s, n)
  BY <1>1, ReadRawSound
<1>3. s.raw \in Seq(Byte)
  BY <1>2 DEF Sound, ReaderState
<1>4. Value(s.raw) \in Int
  BY <1>3, ValueType, GarbageType
<1>5. read_number(r, size) = [s EXCEPT !.args = Append(@, Value(s.raw))]
  BY <1>1 DEF read_number
<1> QED BY <1>2, <1>4, <1>5, ArgAppended

\* What a string is read as.
LEMMA StringValueType ==
  ASSUME NEW b, NEW len
  PROVE  StringValue(b, len) \in Int
<1>1. DOMAIN StrLen \subseteq Nat
  BY StringAssumption
<1> QED BY <1>1, GarbageType DEF StringValue

\* Reading a string keeps the reader sound, whatever its length is read as.
LEMMA ReadStringSound ==
  ASSUME NEW r, NEW n \in Nat, file.bytes \in Seq(Byte), Sound(r, n)
  PROVE  Sound(read_string(r), n)
<1>1. PICK s : s = read_raw(r, StrLenSize)
  OBVIOUS
<1>2. Sound(s, n)
  BY <1>1, ReadRawSound DEF StrLenSize
<1>3. s.raw \in Seq(Byte) /\ r.length \in Nat
  BY <1>2 DEF Sound, ReaderState
<1>4. PICK len : len = Value(s.raw)
  OBVIOUS
<1>5. len \in Nat \union {Garbage}
  BY <1>3, <1>4, ValueType
<1>6. PICK l \in Nat : l = IF len = Garbage THEN r.length ELSE len
  BY <1>3, <1>5
<1>7. PICK t : t = read_raw(s, l)
  OBVIOUS
<1>8. Sound(t, n)
  BY <1>2, <1>7, ReadRawSound
<1>9. read_string(r) = IF len = Garbage
                       THEN [t EXCEPT !.args = Append(@, Garbage), !.wild = TRUE]
                       ELSE [t EXCEPT !.args = Append(@, StringValue(t.raw, len))]
  BY <1>1, <1>4, <1>6, <1>7, Zenon DEF read_string
<1>10. Garbage \in Int /\ StringValue(t.raw, len) \in Int
  BY GarbageType, StringValueType
<1>11. /\ Sound([t EXCEPT !.args = Append(@, Garbage), !.wild = TRUE], n)
       /\ Sound([t EXCEPT !.args = Append(@, StringValue(t.raw, len))], n)
  BY <1>8, <1>10, ArgAppended
<1> QED BY <1>9, <1>11

\* Reading an operand keeps the reader sound.
LEMMA ReadFieldSound ==
  ASSUME NEW r, NEW n \in Nat, NEW field \in Fields, file.bytes \in Seq(Byte), Sound(r, n)
  PROVE  Sound(ReadField(r, field), n)
BY FieldsSplit, ReadNumberSound, ReadStringSound DEF ReadField

\* Whatever the bytes are, the reader stays within the file, and its checksum is
\* computed from the start of the file.
LEMMA ReadFieldsSound ==
  ASSUME NEW r, NEW n \in Nat, NEW fields \in Seq(Fields), file.bytes \in Seq(Byte),
         Sound(r, n)
  PROVE  Sound(ReadFields(r, fields), n)
<1>1. PICK g : /\ g[0] = r
               /\ \A k \in 1 .. Len(fields) : g[k] = ReadField(g[k - 1], fields[k])
               /\ ReadFields(r, fields) = g[Len(fields)]
  BY ReadInParts
<1> DEFINE T == {k \in Nat : Sound(g[k], n)}
<1>2. 0 \in T
  BY <1>1
<1>3. ASSUME NEW k \in 0 .. Len(fields) - 1, k \in T PROVE k + 1 \in T
  <2>1. PICK i \in 1 .. Len(fields) : i = k + 1
    OBVIOUS
  <2>2. i - 1 = k /\ fields[i] \in Fields /\ Sound(g[k], n)
    BY <1>3, <2>1
  <2>3. g[i] = ReadField(g[k], fields[i])
    BY <1>1, <2>2
  <2>4. Sound(g[i], n)
    BY <2>2, <2>3, ReadFieldSound
  <2> QED BY <2>1, <2>4
<1> HIDE DEF T
<1>4. 0 .. Len(fields) \subseteq T /\ Len(fields) \in 0 .. Len(fields)
  <2>1. Len(fields) \in Nat /\ 0 \in Nat
    OBVIOUS
  <2>2. 0 .. Len(fields) \subseteq T
    BY <1>2, <1>3, <2>1, SetInduction
  <2> QED BY <2>1, <2>2
<1> QED BY <1>1, <1>4 DEF T

-----------------------------------------------------------------------------

\* The reader is at the end of what it was to read: p, with the operands a.
Exact(r, p, a) ==
    /\ r \in ReaderState
    /\ r.pos = p /\ r.args = a /\ r.eof = FALSE /\ r.wild = FALSE

\* The bytes that are there are read.
LEMMA ReadRawExact ==
  ASSUME NEW r, NEW p, NEW a, Exact(r, p, a), file.bytes \in Seq(Byte),
         NEW s \in Seq(Byte), At(file.bytes, p, s)
  PROVE  Exact(read_raw(r, Len(s)), p + Len(s), a) /\ read_raw(r, Len(s)).raw = s
<1>1. PICK b \in Seq(Byte) : b = file.bytes
  OBVIOUS
<1>2. PICK t : t = read_raw(r, Len(s))
  OBVIOUS
<1>3. r \in ReaderState /\ r.pos = p /\ p \in Nat /\ Len(s) \in Nat
  BY DEF Exact, ReaderState
<1>4. p + Len(s) <= Len(b) /\ SubSeq(b, p + 1, p + Len(s)) = s
  BY <1>1, <1>3, AtPart DEF At
<1>5. /\ t.pos = p + Len(s) /\ t.raw = s /\ t.eof = r.eof
      /\ t.args = r.args /\ t.wild = r.wild
  BY <1>1, <1>2, <1>3, <1>4, ReadRawFields
<1>6. t \in ReaderState
  <2>1. PICK c : c = r.crc
    OBVIOUS
  <2>2. c \in Seq(Byte)
    BY <1>3, <2>1 DEF ReaderState
  <2>3. c \o s \in Seq(Byte)
    BY <2>2, Concatenation
  <2>4. t.crc = c \o s /\ t.length = r.length
    <3>1. PICK size \in Nat : size = Len(s)
      BY <1>3
    <3>2. t = read_raw(r, size)
      BY <1>2, <3>1
    <3>3. /\ t.length = r.length
          /\ r.pos + size <= Len(file.bytes) =>
               t.crc = r.crc \o SubSeq(file.bytes, r.pos + 1, r.pos + size)
      BY <1>1, <1>3, <3>2, ReadRawFields
    <3> QED BY <1>1, <1>3, <1>4, <2>1, <3>1, <3>3
  <2>5. t = [pos |-> t.pos, crc |-> t.crc, raw |-> t.raw, args |-> t.args,
             eof |-> t.eof, wild |-> t.wild, length |-> t.length]
    BY <1>2, <1>3, ReadRawFields
  <2>6. t.pos \in Nat /\ t.crc \in Seq(Byte) /\ t.raw \in Seq(Byte)
    BY <1>3, <1>5, <2>3, <2>4
  <2>7. t.args \in Seq(Int) /\ t.eof \in BOOLEAN /\ t.wild \in BOOLEAN /\ t.length \in Nat
    BY <1>3, <1>5, <2>4 DEF ReaderState
  <2> QED BY <2>5, <2>6, <2>7 DEF ReaderState
<1> QED BY <1>2, <1>5, <1>6 DEF Exact

\* An operand is added to those that were read.
LEMMA ArgExact ==
  ASSUME NEW r, NEW p, NEW a, NEW v \in Int, Exact(r, p, a)
  PROVE  Exact([r EXCEPT !.args = Append(@, v)], p, Append(a, v))
<1>1. r \in ReaderState /\ r.args = a /\ a \in Seq(Int)
  BY DEF Exact, ReaderState
<1>2. PICK x \in Seq(Int) : x = Append(a, v)
  BY <1>1, AppendType
<1>3. PICK s : s = [r EXCEPT !.args = x]
  OBVIOUS
<1>4. s \in ReaderState /\ s.pos = r.pos /\ s.eof = r.eof /\ s.wild = r.wild /\ s.args = x
  BY <1>1, <1>3 DEF ReaderState
<1>5. Exact(s, p, x)
  BY <1>4 DEF Exact
<1> QED BY <1>1, <1>2, <1>3, <1>5

\* A number is read as it was written.
LEMMA ReadNumberExact ==
  ASSUME NEW r, NEW p, NEW a, Exact(r, p, a), file.bytes \in Seq(Byte),
         NEW v \in Nat, NEW size \in Nat \ {0}, At(file.bytes, p, Bytes(v, size))
  PROVE  Exact(read_number(r, size), p + size, Append(a, v))
<1>1. PICK s : s = read_raw(r, size)
  OBVIOUS
<1>2. PICK x \in Seq(Byte) : x = Bytes(v, size)
  BY BytesAre
<1>3. Len(x) = size /\ Value(x) = v
  BY <1>2, BytesAre, ValueOfBytes
<1>4. Exact(s, p + size, a) /\ s.raw = x
  BY <1>1, <1>2, <1>3, ReadRawExact
<1>5. read_number(r, size) = [s EXCEPT !.args = Append(@, v)]
  BY <1>1, <1>3, <1>4 DEF read_number
<1> QED BY <1>4, <1>5, ArgExact

\* A string is read as it was written, its length first.
LEMMA ReadStringExact ==
  ASSUME NEW r, NEW p, NEW a, Exact(r, p, a), file.bytes \in Seq(Byte),
         NEW v \in DOMAIN StrLen, At(file.bytes, p, StringBytes(v))
  PROVE  Exact(read_string(r), p + Len(StringBytes(v)), Append(a, v))
<1>0. v \in Nat /\ StrLen[v] \in Nat /\ (StrLen[v] = 0 => v = Empty)
  BY StringAssumption
<1>1. PICK s : s = read_raw(r, StrLenSize)
  OBVIOUS
<1>2. PICK len \in Nat : len = StrLen[v]
  BY <1>0
<1>3. PICK x \in Seq(Byte) : x = Bytes(len, StrLenSize)
  BY BytesAre DEF StrLenSize
<1>4. PICK y \in Seq(Byte) : y = Bytes(v, len)
  BY <1>0, BytesAre
<1>5. Len(x) = StrLenSize /\ Value(x) = len /\ Len(y) = len
  <2>1. StrLenSize \in Nat \ {0} /\ StrLenSize \in Nat
    BY DEF StrLenSize
  <2>2. Len(x) = StrLenSize /\ Value(x) = len
    BY <1>3, <2>1, BytesAre, ValueOfBytes
  <2>3. Len(y) = len
    BY <1>0, <1>4, BytesAre
  <2> QED BY <2>2, <2>3
<1>6. StringBytes(v) = x \o y
  BY <1>2, <1>3, <1>4 DEF StringBytes
<1>7. p \in Nat
  BY DEF Exact, ReaderState
<1>8. At(file.bytes, p, x) /\ At(file.bytes, p + Len(x), y)
  BY <1>6, <1>7, AtConcatenation
<1>9. Exact(s, p + Len(x), a) /\ s.raw = x
  BY <1>1, <1>5, <1>8, ReadRawExact
<1>10. len # Garbage
  BY GarbageType
<1>11. PICK t : t = read_raw(s, len)
  OBVIOUS
<1>12. Exact(t, p + Len(x) + Len(y), a) /\ t.raw = y
  BY <1>5, <1>8, <1>9, <1>11, ReadRawExact
<1>13. StringValue(y, len) = v
  <2>1. CASE len = 0
    BY <1>0, <1>2, <2>1 DEF StringValue
  <2>2. CASE len # 0
    <3>1. Value(y) = v
      BY <1>0, <1>4, <2>2, ValueOfBytes
    <3> QED BY <1>2, <2>2, <3>1 DEF StringValue
  <2> QED BY <2>1, <2>2
<1>14. read_string(r) = [t EXCEPT !.args = Append(@, v)]
  <2>1. Value(s.raw) = len
    BY <1>5, <1>9
  <2> QED BY <1>1, <1>10, <1>11, <1>12, <1>13, <2>1, Zenon DEF read_string
<1>15. Len(StringBytes(v)) = Len(x) + Len(y) /\ p + Len(StringBytes(v)) = p + Len(x) + Len(y)
  BY <1>6, <1>7, Concatenation
<1> QED BY <1>0, <1>12, <1>14, <1>15, ArgExact

\* An operand is read as it was written.
LEMMA ReadFieldExact ==
  ASSUME NEW r, NEW p, NEW a, Exact(r, p, a), file.bytes \in Seq(Byte),
         NEW w \in Fields, NEW f \in Fields,
         w = f \/ (w # "str" /\ f # "str" /\ Size[w] = Size[f]),
         NEW v, Writable(w, v), At(file.bytes, p, FieldBytes(w, v))
  PROVE  Exact(ReadField(r, f), p + Len(FieldBytes(w, v)), Append(a, v))
<1>1. CASE w = "str"
  <2>1. f = "str" /\ v \in DOMAIN StrLen
    BY <1>1 DEF Writable
  <2>2. FieldBytes(w, v) = StringBytes(v) /\ ReadField(r, f) = read_string(r)
    BY <1>1, <2>1 DEF FieldBytes, ReadField
  <2> QED BY <2>1, <2>2, ReadStringExact
<1>2. CASE w # "str"
  <2>1. f # "str" /\ Size[f] = Size[w] /\ Size[w] \in Nat \ {0} /\ v \in Nat
    BY <1>2, FieldsSplit DEF Writable
  <2>2. FieldBytes(w, v) = Bytes(v, Size[w]) /\ ReadField(r, f) = read_number(r, Size[w])
    BY <1>2, <2>1 DEF FieldBytes, ReadField
  <2>3. Len(Bytes(v, Size[w])) = Size[w]
    BY <2>1, BytesAre
  <2> QED BY <2>1, <2>2, <2>3, ReadNumberExact
<1> QED BY <1>1, <1>2

-----------------------------------------------------------------------------
(* An opcode is read as it was written.                                    *)

\* A sequence with one more element.
LEMMA OneMore ==
  ASSUME NEW S, NEW s \in Seq(S), NEW e \in S
  PROVE  /\ Append(s, e) \in Seq(S)
         /\ Len(Append(s, e)) = Len(s) + 1
         /\ \A i \in 1 .. Len(s) : Append(s, e)[i] = s[i]
         /\ Append(s, e)[Len(s) + 1] = e
OBVIOUS

\* One more element of a sequence.
LEMMA PrefixGrows ==
  ASSUME NEW S, NEW s \in Seq(S), NEW k \in 0 .. Len(s) - 1
  PROVE  Append(SubSeq(s, 1, k), s[k + 1]) = SubSeq(s, 1, k + 1)
<1>1. k \in 0 .. Len(s) /\ k + 1 \in 0 .. Len(s) /\ k + 1 \in 1 .. Len(s) /\ k \in Nat
  OBVIOUS
<1>2. PICK x \in Seq(S) : x = SubSeq(s, 1, k)
  BY <1>1, Prefix
<1>3. PICK y \in Seq(S) : y = SubSeq(s, 1, k + 1)
  BY <1>1, Prefix
<1>4. Len(x) = k /\ \A i \in 1 .. k : x[i] = s[i]
  BY <1>1, <1>2, Prefix
<1>5. Len(y) = k + 1 /\ \A i \in 1 .. k + 1 : y[i] = s[i]
  BY <1>1, <1>3, Prefix
<1>6. s[k + 1] \in S
  BY <1>1
<1>7. PICK z \in Seq(S) : z = Append(x, s[k + 1])
  BY <1>6, OneMore
<1>8. Len(z) = k + 1 /\ \A i \in 1 .. k + 1 : z[i] = s[i]
  BY <1>1, <1>4, <1>6, <1>7, OneMore
<1>9. z = y
  BY <1>5, <1>8, SeqEqual
<1> QED BY <1>2, <1>3, <1>7, <1>9

\* Operands that are written one after the other are read.
LEMMA ReadFieldsExact ==
  ASSUME NEW ws, NEW fs, Fits(ws, fs), NEW args \in Seq(Nat), Len(args) = Len(ws),
         \A k \in 1 .. Len(ws) : Writable(ws[k], args[k]),
         NEW s, \A k \in 1 .. Len(ws) : s[k] = FieldBytes(ws[k], args[k]),
         NEW f, InParts(f, s, Len(ws), Byte),
         NEW r, NEW p, Exact(r, p, <<>>),
         file.bytes \in Seq(Byte), At(file.bytes, p, f[Len(ws)])
  PROVE  Exact(ReadFields(r, fs), p + Len(f[Len(ws)]), args)
<1>1. PICK n \in Nat : n = Len(ws) /\ n = Len(fs) /\ n = Len(args)
  BY DEF Fits
<1>2. PICK g : /\ g[0] = r
               /\ \A k \in 1 .. n : g[k] = ReadField(g[k - 1], fs[k])
               /\ ReadFields(r, fs) = g[n]
  <2>1. fs \in Seq(Fields)
    BY DEF Fits
  <2>2. PICK g : /\ g[0] = r
                 /\ \A k \in 1 .. Len(fs) : g[k] = ReadField(g[k - 1], fs[k])
                 /\ ReadFields(r, fs) = g[Len(fs)]
    BY <2>1, ReadInParts
  <2> QED BY <1>1, <2>2
<1>3. p \in Nat
  BY DEF Exact, ReaderState
<1> DEFINE T == {k \in Nat : Exact(g[k], p + Len(f[k]), SubSeq(args, 1, k))}
<1>4. 0 \in T
  <2>1. f[0] = <<>> /\ Len(f[0]) = 0
    BY DEF InParts
  <2>2. SubSeq(args, 1, 0) = <<>> /\ p + 0 = p /\ 0 \in Nat
    BY <1>3
  <2> QED BY <1>2, <2>1, <2>2
<1>5. ASSUME NEW k \in 0 .. n - 1, k \in T PROVE k + 1 \in T
  <2>1. PICK i \in 1 .. n : i = k + 1
    OBVIOUS
  <2>2. i - 1 = k /\ i \in Nat /\ k \in Nat
    BY <2>1
  <2>3. PICK w \in Fields, e \in Fields, v \in Nat : w = ws[i] /\ e = fs[i] /\ v = args[i]
    BY <1>1, <2>1 DEF Fits
  <2>4. /\ w = e \/ (w # "str" /\ e # "str" /\ Size[w] = Size[e])
        /\ Writable(w, v) /\ s[i] = FieldBytes(w, v)
    BY <1>1, <2>1, <2>3 DEF Fits
  <2>5. /\ At(file.bytes, p + Len(f[k]), s[i])
        /\ Len(f[k]) \in Nat /\ Len(s[i]) \in Nat
        /\ Len(f[i]) = Len(f[k]) + Len(s[i])
    <3>1. /\ At(file.bytes, p + Len(f[i - 1]), s[i])
          /\ Len(f[i - 1]) \in Nat /\ Len(s[i]) \in Nat
          /\ Len(f[i]) = Len(f[i - 1]) + Len(s[i])
      <4>1. PICK b \in Seq(Byte) : b = file.bytes
        OBVIOUS
      <4>2. InParts(f, s, n, Byte) /\ At(b, p, f[n])
        BY <1>1, <4>1
      <4>3. Follows(b, p, f, s, i)
        <5>1. n \in Nat /\ i \in 1 .. n /\ b \in Seq(Byte) /\ p \in Nat
          BY <1>3
        <5> HIDE DEF T
        <5> QED BY <4>2, <5>1, PartAt, Zenon
      <4> QED BY <4>1, <4>3 DEF Follows
    <3> QED BY <2>2, <3>1
  <2>6. Exact(g[k], p + Len(f[k]), SubSeq(args, 1, k))
    BY <1>5
  <2>7. g[i] = ReadField(g[k], e)
    BY <1>2, <2>2, <2>3
  <2>8. Exact(g[i], p + Len(f[k]) + Len(s[i]), Append(SubSeq(args, 1, k), v))
    BY <2>4, <2>5, <2>6, <2>7, ReadFieldExact
  <2>9. Append(SubSeq(args, 1, k), v) = SubSeq(args, 1, i)
    BY <1>1, <2>1, <2>3, PrefixGrows
  <2>10. p + Len(f[i]) = p + Len(f[k]) + Len(s[i])
    <3>1. PICK x \in Nat, y \in Nat : x = Len(f[k]) /\ y = Len(s[i])
      BY <2>5
    <3>2. p + (x + y) = p + x + y
      BY <1>3
    <3> QED BY <2>5, <3>1, <3>2
  <2> QED BY <2>1, <2>2, <2>8, <2>9, <2>10
<1>6. n \in T
  <2> HIDE DEF T
  <2>1. 0 .. n \subseteq T
    BY <1>4, <1>5, SetInduction
  <2> QED BY <2>1
<1>7. SubSeq(args, 1, n) = args
  BY <1>1
<1> QED BY <1>1, <1>2, <1>6, <1>7

-----------------------------------------------------------------------------

\* An opcode with the operands the writer writes for it.
WellFormed(o) ==
    /\ o.op \in Range(OpCodes) /\ o.op \in DOMAIN Written
    /\ o.args \in Seq(Nat) /\ Len(o.args) = Len(Written[o.op])
    /\ \A k \in 1 .. Len(o.args) : Writable(Written[o.op][k], o.args[k])
    /\ o = Made(o.op, o.args)

\* A code is made of opcodes with the operands the writer writes.
LEMMA CodesWellFormed ==
  ASSUME NEW c \in Codes
  PROVE  Len(c) \in Nat /\ \A i \in 1 .. Len(c) : WellFormed(c[i])
<1>1. PICK S : /\ S = [op : Range(OpCodes) \cap DOMAIN Written, args : Seq(Nat),
                       anonymous : BOOLEAN]
               /\ c \in Seq(S)
  BY CodeAssumption
<1>2. ASSUME NEW i \in 1 .. Len(c) PROVE WellFormed(c[i])
  <2>1. PICK o : o = c[i]
    OBVIOUS
  <2>2. /\ o.op \in Range(OpCodes) /\ o.op \in DOMAIN Written
        /\ o.args \in Seq(Nat)
    <3>1. o \in S
      <4>1. \A j \in 1 .. Len(c) : c[j] \in S
        BY <1>1, SequenceLen
      <4> QED BY <2>1, <4>1
    <3> QED BY <1>1, <3>1
  <2>3. i \in DOMAIN c
    BY <1>1
  <2>4. /\ o = Made(o.op, o.args) /\ Len(o.args) = Len(Written[o.op])
        /\ \A k \in DOMAIN Written[o.op] :
              Written[o.op][k] = "str" => o.args[k] \in DOMAIN StrLen
    BY <2>1, <2>3, CodeAssumption
  <2>5. Written[o.op] \in Seq(Fields)
    BY <2>2, TablesAgree DEF Agree, Fits
  <2>6. ASSUME NEW k \in 1 .. Len(o.args) PROVE Writable(Written[o.op][k], o.args[k])
    <3>1. o.args[k] \in Nat
      BY <2>2
    <3>2. k \in DOMAIN Written[o.op]
      BY <2>4, <2>5
    <3> QED BY <2>4, <3>1, <3>2 DEF Writable
  <2> QED BY <2>1, <2>2, <2>4, <2>6 DEF WellFormed
<1> QED BY <1>1, <1>2

\* The bytes of an opcode: its number, and its operands.
LEMMA OpBytesParts ==
  ASSUME NEW o, WellFormed(o)
  PROVE  \E s, f : /\ \A k \in 1 .. Len(o.args) :
                         s[k] = FieldBytes(Written[o.op][k], o.args[k])
                   /\ InParts(f, s, Len(o.args), Byte)
                   /\ OpBytes(o) = Bytes(Number[o.op] - 1, 1) \o f[Len(o.args)]
<1>1. PICK ws : ws = Written[o.op]
  OBVIOUS
<1>2. PICK n \in Nat : n = Len(o.args) /\ DOMAIN o.args = 1 .. n
  BY DEF WellFormed
<1>3. ws \in Seq(Fields) /\ Len(ws) = n
  BY <1>1, <1>2, TablesAgree DEF WellFormed, Agree, Fits
<1>4. PICK s : s = [k \in 1 .. n |-> FieldBytes(ws[k], o.args[k])]
  OBVIOUS
<1>5. \A k \in 1 .. n : FieldBytes(ws[k], o.args[k]) \in Seq(Byte)
  <2> TAKE k \in 1 .. n
  <2>1. ws[k] \in Fields /\ Writable(ws[k], o.args[k])
    BY <1>1, <1>2, <1>3 DEF WellFormed
  <2> QED BY <2>1, FieldBytesType
<1>6. s \in Seq(Seq(Byte)) /\ Len(s) = n
  <2> DEFINE B == Seq(Byte)
  <2>1. \A k \in 1 .. n : s[k] \in B
    BY <1>4, <1>5
  <2> HIDE DEF B
  <2>2. s \in Seq(B) /\ Len(s) = n
    BY <1>4, <2>1
  <2> QED BY <2>2 DEF B
<1>7. PICK f \in [0 .. n -> Seq(Byte)] :
          /\ f[0] = <<>>
          /\ \A k \in 1 .. n : f[k] = f[k - 1] \o s[k]
          /\ FlattenSeq(s) = f[n]
  BY <1>6, FlattenedInParts
<1>8. InParts(f, s, n, Byte)
  BY <1>4, <1>5, <1>7 DEF InParts
<1>9. OpBytes(o) = Bytes(Number[o.op] - 1, 1) \o FlattenSeq(s)
  BY <1>1, <1>2, <1>4 DEF OpBytes
<1> QED BY <1>1, <1>2, <1>4, <1>7, <1>8, <1>9

\* An opcode is known by its number, which is written first.
LEMMA OpNumber ==
  ASSUME NEW o, WellFormed(o)
  PROVE  /\ Number[o.op] - 1 \in Nat /\ Number[o.op] \in DOMAIN OpCodes
         /\ OpCodes[Number[o.op]] = o.op
         /\ Bytes(Number[o.op] - 1, 1) \in Seq(Byte)
         /\ Len(Bytes(Number[o.op] - 1, 1)) = 1
         /\ Value(Bytes(Number[o.op] - 1, 1)) = Number[o.op] - 1
<1>1. /\ Number[o.op] - 1 \in Nat /\ Number[o.op] \in DOMAIN OpCodes
      /\ OpCodes[Number[o.op]] = o.op
  <2>1. Number[o.op] \in 1 .. 137 /\ OpCodes[Number[o.op]] = o.op
    BY NumberOf DEF WellFormed
  <2>2. DOMAIN OpCodes = 1 .. 137
    BY OpCodeAt
  <2>3. \A i \in 1 .. 137 : i - 1 \in Nat
    OBVIOUS
  <2> QED BY <2>1, <2>2, <2>3
<1>2. PICK v \in Nat : v = Number[o.op] - 1
  BY <1>1
<1>3. 1 \in Nat /\ 1 \in Nat \ {0}
  OBVIOUS
<1>4. /\ Bytes(v, 1) \in Seq(Byte) /\ Len(Bytes(v, 1)) = 1 /\ Value(Bytes(v, 1)) = v
  BY <1>3, BytesAre, ValueOfBytes
<1> QED BY <1>1, <1>2, <1>4

\* What is written for an opcode is bytes, one at least.
LEMMA OpBytesType ==
  ASSUME NEW o, WellFormed(o)
  PROVE  OpBytes(o) \in Seq(Byte) /\ Len(OpBytes(o)) \in Nat \ {0}
<1>1. PICK s, f : /\ InParts(f, s, Len(o.args), Byte)
                  /\ OpBytes(o) = Bytes(Number[o.op] - 1, 1) \o f[Len(o.args)]
  BY OpBytesParts
<1>2. PICK x \in Seq(Byte) : x = Bytes(Number[o.op] - 1, 1) /\ Len(x) = 1
  BY OpNumber
<1>3. PICK y \in Seq(Byte) : y = f[Len(o.args)]
  <2>1. Len(o.args) \in 0 .. Len(o.args)
    BY DEF WellFormed
  <2> QED BY <1>1, <2>1 DEF InParts
<1>4. x \o y \in Seq(Byte) /\ Len(x \o y) = Len(x) + Len(y) /\ Len(y) \in Nat
  <2>1. x \in Seq(Byte) /\ y \in Seq(Byte)
    OBVIOUS
  <2> HIDE <1>1, <1>2, <1>3
  <2> QED BY <2>1, Concatenation
<1>5. Len(x \o y) \in Nat \ {0}
  <2>1. PICK m \in Nat : m = Len(y)
    BY <1>4
  <2>2. Len(x \o y) = 1 + m /\ 1 + m \in Nat \ {0}
    <3>1. PICK l : l = Len(x \o y)
      OBVIOUS
    <3>2. l = Len(x) + m
      BY <1>4, <2>1, <3>1, Zenon
    <3>3. l = 1 + m
      BY <1>2, <3>2, Zenon
    <3>4. 1 + m \in Nat \ {0}
      OBVIOUS
    <3> QED BY <3>1, <3>3, <3>4, Zenon
  <2> QED BY <2>2, Zenon
<1> QED BY <1>1, <1>2, <1>3, <1>4, <1>5

\* An opcode is read as it was written.
LEMMA OpRead ==
  ASSUME NEW o, WellFormed(o), NEW length \in Nat,
         file.bytes \in Seq(Byte), pos \in Nat, crc_checksum \in Seq(Byte),
         At(file.bytes, pos, OpBytes(o))
  PROVE  LET first == read_raw(Reader(length), 1)
             number == Value(first.raw)
             op == OpCodes[number + 1]
             r == ReadFields(first, ReadOperands[op])
         IN  /\ first.eof = FALSE /\ number + 1 \in DOMAIN OpCodes /\ op = o.op
             /\ Exact(r, pos + Len(OpBytes(o)), o.args)
<1>1. PICK s, f : /\ \A k \in 1 .. Len(o.args) :
                         s[k] = FieldBytes(Written[o.op][k], o.args[k])
                  /\ InParts(f, s, Len(o.args), Byte)
                  /\ OpBytes(o) = Bytes(Number[o.op] - 1, 1) \o f[Len(o.args)]
  BY OpBytesParts
<1>2. PICK x \in Seq(Byte) : x = Bytes(Number[o.op] - 1, 1) /\ Len(x) = 1
                             /\ Value(x) = Number[o.op] - 1
  BY OpNumber
<1>3. PICK y \in Seq(Byte) : y = f[Len(o.args)]
  <2>1. Len(o.args) \in 0 .. Len(o.args)
    BY DEF WellFormed
  <2> QED BY <1>1, <2>1 DEF InParts
<1>4. OpBytes(o) = x \o y
  BY <1>1, <1>2, <1>3
<1>5. At(file.bytes, pos, x) /\ At(file.bytes, pos + 1, y)
  <2>1. x \in Seq(Byte) /\ y \in Seq(Byte) /\ At(file.bytes, pos, x \o y)
    BY <1>4
  <2>2. At(file.bytes, pos, x) /\ At(file.bytes, pos + Len(x), y)
    BY <2>1, AtConcatenation
  <2> QED BY <1>2, <2>2
<1>6. Exact(Reader(length), pos, <<>>)
  <2>1. <<>> \in Seq(Byte) /\ <<>> \in Seq(Int)
    BY EmptySeq
  <2> QED BY <2>1 DEF Reader, Exact, ReaderState
<1>7. PICK first : first = read_raw(Reader(length), 1)
  OBVIOUS
<1>8. Exact(first, pos + 1, <<>>) /\ first.raw = x
  BY <1>2, <1>5, <1>6, <1>7, ReadRawExact
<1>9. PICK number : number = Value(first.raw)
  OBVIOUS
<1>10. /\ number + 1 = Number[o.op] /\ number + 1 \in DOMAIN OpCodes
       /\ OpCodes[number + 1] = o.op
  <2>1. PICK m \in 1 .. 137 : m = Number[o.op]
    BY NumberOf DEF WellFormed
  <2>2. number = m - 1
    BY <1>2, <1>8, <1>9, <2>1
  <2>3. number + 1 = m
    BY <2>2
  <2> QED BY <2>1, <2>3, OpNumber
<1>11. PICK fs : fs = ReadOperands[o.op]
  OBVIOUS
<1>12. PICK ws : ws = Written[o.op]
  OBVIOUS
<1>13. Fits(ws, fs) /\ Len(ws) = Len(o.args)
  BY <1>11, <1>12, TablesAgree DEF WellFormed, Agree
<1>14. PICK args \in Seq(Nat) : args = o.args
  BY DEF WellFormed
<1>15. PICK r : r = ReadFields(first, fs)
  OBVIOUS
<1>16. Exact(r, pos + 1 + Len(y), args)
  <2>1. /\ Len(args) = Len(ws)
        /\ \A k \in 1 .. Len(ws) : Writable(ws[k], args[k])
        /\ \A k \in 1 .. Len(ws) : s[k] = FieldBytes(ws[k], args[k])
        /\ InParts(f, s, Len(ws), Byte)
        /\ At(file.bytes, pos + 1, f[Len(ws)])
        /\ f[Len(ws)] = y
    BY <1>1, <1>3, <1>5, <1>12, <1>13, <1>14 DEF WellFormed
  <2> QED BY <1>8, <1>13, <1>15, <2>1, ReadFieldsExact
<1>17. Len(OpBytes(o)) = 1 + Len(y) /\ Len(y) \in Nat
  <2>1. x \in Seq(Byte) /\ y \in Seq(Byte)
    OBVIOUS
  <2>2. Len(x \o y) = Len(x) + Len(y) /\ Len(y) \in Nat
    BY <2>1, Concatenation
  <2> QED BY <1>2, <1>4, <2>2
<1>18. pos + Len(OpBytes(o)) = pos + 1 + Len(y)
  BY <1>17
<1>19. first.eof = FALSE
  BY <1>8 DEF Exact
<1> QED BY <1>7, <1>9, <1>10, <1>11, <1>14, <1>15, <1>16, <1>18, <1>19

-----------------------------------------------------------------------------
(* The inductive invariant.                                                *)

\* An opcode the reader may make.
Op == [op : Range(OpCodes), args : Seq(Int), anonymous : BOOLEAN]

\* Every variable has its type.
Types ==
    /\ code \in Codes
    /\ written \in 0 .. Len(code)
    /\ file.checksum \in Seq(Byte) /\ file.bytes \in Seq(Byte)
    /\ pos \in 0 .. Len(file.bytes)
    /\ crc_checksum \in Seq(Byte)
    /\ ops \in Seq(Op)
    /\ mode \in {"write", "read", "verify", "accepted", "rejected", "crashed"}
    /\ whole \in BOOLEAN
    /\ file = [checksum |-> file.checksum, bytes |-> file.bytes]

\* The writer has written the opcodes, and nothing else.
Writing ==
    mode = "write" =>
        /\ file.checksum = <<>> /\ file.bytes = BytesOf(code)[written]
        /\ crc_checksum = file.bytes /\ pos = 0 /\ ops = <<>> /\ whole = FALSE

\* The reader's checksum is that of the first bytes of the file: of all it has
\* read, and of something if it has an opcode.
Reading ==
    mode # "write" =>
        /\ Len(crc_checksum) <= Len(file.bytes)
        /\ \A k \in 1 .. Len(crc_checksum) : crc_checksum[k] = file.bytes[k]
        /\ mode = "read" => Len(crc_checksum) = pos
        /\ crc_checksum = <<>> =>
             /\ ops = <<>>
             /\ mode \in {"verify", "accepted"} => file.bytes = <<>>

\* What is read of a whole file is what was written, up to an opcode's end.
Whole ==
    whole =>
        /\ mode \in {"read", "verify", "accepted"}
        /\ file.checksum = file.bytes
        /\ file.bytes = BytesOf(code)[Len(code)]
        /\ Len(ops) <= Len(code)
        /\ \A i \in 1 .. Len(ops) : ops[i] = code[i]
        /\ mode = "read" => pos = Len(BytesOf(code)[Len(ops)])
        /\ mode # "read" => Len(ops) = Len(code) /\ crc_checksum = file.bytes

\* Another file has no checksum, or that of other bytes, as many.
Broken ==
    whole = FALSE /\ mode # "write" =>
        \/ file.checksum = <<>>
        \/ /\ Len(file.checksum) = Len(file.bytes)
           /\ file.checksum # file.bytes

\* A file is accepted for its checksum.
Accepted == mode = "accepted" => crc_checksum = file.checksum

\* The inductive invariant.
FileInv == Types /\ Writing /\ Reading /\ Whole /\ Broken /\ Accepted

-----------------------------------------------------------------------------

\* The bytes of a code are those of its opcodes, one after the other.
LEMMA BytesOfCode ==
  ASSUME NEW c \in Codes
  PROVE  InParts(BytesOf(c), [k \in 1 .. Len(c) |-> OpBytes(c[k])], Len(c), Byte)
<1>1. Len(c) \in Nat /\ \A k \in 1 .. Len(c) : OpBytes(c[k]) \in Seq(Byte)
  BY CodesWellFormed, OpBytesType
<1> QED BY <1>1, BytesInParts

\* What the writer adds to the file, opcode by opcode.
LEMMA WrittenBytes ==
  ASSUME NEW c \in Codes
  PROVE  /\ Len(c) \in Nat
         /\ BytesOf(c)[0] = <<>>
         /\ \A k \in 0 .. Len(c) : BytesOf(c)[k] \in Seq(Byte)
         /\ \A k \in 1 .. Len(c) : /\ OpBytes(c[k]) \in Seq(Byte)
                                   /\ BytesOf(c)[k] = BytesOf(c)[k - 1] \o OpBytes(c[k])
<1>1. PICK n \in Nat : n = Len(c)
  BY CodesWellFormed
<1>2. PICK f, s : f = BytesOf(c) /\ s = [k \in 1 .. n |-> OpBytes(c[k])]
  OBVIOUS
<1>3. InParts(f, s, n, Byte)
  BY <1>1, <1>2, BytesOfCode
<1>4. f[0] = <<>> /\ \A k \in 0 .. n : f[k] \in Seq(Byte)
  BY <1>3 DEF InParts
<1>5. \A k \in 1 .. n : s[k] \in Seq(Byte) /\ f[k] = f[k - 1] \o s[k]
  BY <1>3 DEF InParts
<1>6. \A k \in 1 .. n : s[k] = OpBytes(c[k])
  BY <1>2
<1> QED BY <1>1, <1>2, <1>4, <1>5, <1>6

\* Where the k-th opcode is in a whole file.
LEMMA OpAt ==
  ASSUME NEW c \in Codes, NEW k \in 1 .. Len(c)
  PROVE  /\ At(BytesOf(c)[Len(c)], Len(BytesOf(c)[k - 1]), OpBytes(c[k]))
         /\ Len(BytesOf(c)[k - 1]) \in Nat
         /\ Len(OpBytes(c[k])) \in Nat \ {0}
         /\ Len(BytesOf(c)[k]) = Len(BytesOf(c)[k - 1]) + Len(OpBytes(c[k]))
<1>1. PICK n \in Nat : n = Len(c)
  BY CodesWellFormed
<1>2. PICK f, s : f = BytesOf(c) /\ s = [i \in 1 .. n |-> OpBytes(c[i])]
  OBVIOUS
<1>3. InParts(f, s, n, Byte)
  BY <1>1, <1>2, BytesOfCode
<1>4. PICK b \in Seq(Byte) : b = f[n]
  <2>1. n \in 0 .. n
    OBVIOUS
  <2> QED BY <1>3, <2>1 DEF InParts
<1>5. At(b, 0, b) /\ 0 \in Nat /\ k \in 1 .. n
  BY <1>1 DEF At
<1>6. Follows(b, 0, f, s, k)
  BY <1>3, <1>4, <1>5, PartAt, Zenon
<1>7. s[k] = OpBytes(c[k]) /\ Len(s[k]) \in Nat \ {0}
  BY <1>1, <1>2, CodesWellFormed, OpBytesType
<1>8. PICK p \in Nat : p = Len(f[k - 1])
  BY <1>6 DEF Follows
<1>9. At(b, p, s[k]) /\ Len(f[k]) = p + Len(s[k])
  <2>1. 0 + p = p
    OBVIOUS
  <2> QED BY <1>6, <1>8, <2>1, Zenon DEF Follows
<1> QED BY <1>1, <1>2, <1>4, <1>7, <1>8, <1>9

-----------------------------------------------------------------------------

\* The invariant holds in the beginning.
LEMMA InvInit == Init => FileInv
<1> SUFFICES ASSUME Init PROVE FileInv
  OBVIOUS
<1>1. code \in Codes /\ Len(code) \in Nat /\ BytesOf(code)[0] = <<>>
  BY WrittenBytes DEF Init
<1>2. /\ file = [checksum |-> <<>>, bytes |-> <<>>]
      /\ written = 0 /\ crc_checksum = <<>> /\ pos = 0 /\ ops = <<>>
      /\ mode = "write" /\ whole = FALSE
  BY DEF Init, Unpatched
<1>3. <<>> \in Seq(Byte) /\ <<>> \in Seq(Op) /\ 0 \in 0 .. Len(<<>>) /\ 0 \in 0 .. Len(code)
  BY <1>1, EmptySeq
<1>4. Types
  BY <1>1, <1>2, <1>3 DEF Types
<1> QED BY <1>1, <1>2, <1>4 DEF FileInv, Writing, Reading, Whole, Broken, Accepted

\* The writer writes an opcode.
LEMMA WriteStep == FileInv /\ WriteOp => FileInv'
<1> SUFFICES ASSUME FileInv, WriteOp PROVE FileInv'
  OBVIOUS
<1>1. /\ code \in Codes /\ written \in 0 .. Len(code) /\ mode = "write"
      /\ Len(code) \in Nat /\ written < Len(code)
  BY WrittenBytes DEF FileInv, Types, WriteOp
<1>2. PICK y \in Seq(Byte) : y = file.bytes
  BY DEF FileInv, Types
<1>3. /\ y = BytesOf(code)[written] /\ file = [checksum |-> <<>>, bytes |-> y]
      /\ crc_checksum = y /\ pos = 0 /\ ops = <<>> /\ whole = FALSE
  BY <1>1, <1>2 DEF FileInv, Types, Writing
<1>4. PICK k \in 1 .. Len(code) : k = written + 1
  BY <1>1
<1>5. PICK x \in Seq(Byte) : x = OpBytes(code[k])
  BY <1>1, WrittenBytes
<1>6. PICK z \in Seq(Byte) : z = y \o x
  <2>1. y \in Seq(Byte) /\ x \in Seq(Byte)
    OBVIOUS
  <2> QED BY <2>1, Concatenation
<1>7. BytesOf(code)[k] = z
  <2>1. k - 1 = written
    BY <1>1, <1>4
  <2>2. BytesOf(code)[k] = BytesOf(code)[k - 1] \o OpBytes(code[k])
    BY <1>1, WrittenBytes
  <2> QED BY <1>3, <1>5, <1>6, <2>1, <2>2
<1>8. /\ file' = [checksum |-> <<>>, bytes |-> z] /\ crc_checksum' = z
      /\ written' = k /\ code' = code /\ pos' = 0 /\ ops' = <<>>
      /\ mode' = "write" /\ whole' = FALSE
  <2>1. file' = [file EXCEPT !.bytes = @ \o x]
    BY <1>4, <1>5 DEF WriteOp
  <2>2. crc_checksum' = z
    BY <1>3, <1>4, <1>5, <1>6 DEF WriteOp
  <2>3. file' = [checksum |-> <<>>, bytes |-> z]
    BY <1>3, <1>6, <2>1
  <2> QED BY <1>1, <1>3, <1>4, <2>2, <2>3 DEF WriteOp
<1>9. Types'
  <2>1. <<>> \in Seq(Byte) /\ <<>> \in Seq(Op) /\ 0 \in 0 .. Len(z) /\ k \in 0 .. Len(code)
    BY <1>1, EmptySeq
  <2> QED BY <1>1, <1>8, <2>1 DEF Types
<1>10. Writing'
  BY <1>7, <1>8 DEF Writing
<1> QED BY <1>8, <1>9, <1>10 DEF FileInv, Reading, Whole, Broken, Accepted

\* The writer completes the file.
LEMMA PatchStep == FileInv /\ PatchChecksum => FileInv'
<1> SUFFICES ASSUME FileInv, PatchChecksum PROVE FileInv'
  OBVIOUS
<1>1. /\ code \in Codes /\ written = Len(code) /\ mode = "write" /\ Len(code) \in Nat
  BY WrittenBytes DEF FileInv, Types, PatchChecksum
<1>2. PICK y \in Seq(Byte) : y = file.bytes
  BY DEF FileInv, Types
<1>3. /\ y = BytesOf(code)[Len(code)] /\ file = [checksum |-> <<>>, bytes |-> y]
      /\ crc_checksum = y /\ pos = 0 /\ ops = <<>> /\ whole = FALSE
  BY <1>1, <1>2 DEF FileInv, Types, Writing
<1>4. /\ file' = [checksum |-> y, bytes |-> y] /\ crc_checksum' = <<>>
      /\ written' = Len(code) /\ code' = code /\ pos' = 0 /\ ops' = <<>>
      /\ mode' = "read" /\ whole' = TRUE
  <2>1. file' = [file EXCEPT !.checksum = y]
    BY <1>3 DEF PatchChecksum
  <2>2. file' = [checksum |-> y, bytes |-> y]
    BY <1>3, <2>1
  <2> QED BY <1>1, <1>3, <2>2 DEF PatchChecksum
<1>5. Types'
  <2>1. /\ <<>> \in Seq(Byte) /\ <<>> \in Seq(Op) /\ 0 \in 0 .. Len(y)
        /\ Len(code) \in 0 .. Len(code)
    BY <1>1, EmptySeq
  <2> QED BY <1>1, <1>4, <2>1 DEF Types
<1>6. Len(<<>>) = 0 /\ Len(y) \in Nat /\ 0 <= Len(y) /\ 0 <= Len(code)
  BY <1>1
<1>7. Reading'
  BY <1>4, <1>6 DEF Reading
<1>8. Whole'
  <2>1. BytesOf(code)[0] = <<>>
    BY <1>1, WrittenBytes
  <2> QED BY <1>3, <1>4, <1>6, <2>1 DEF Whole
<1> QED BY <1>4, <1>5, <1>7, <1>8 DEF FileInv, Writing, Broken, Accepted

\* The writer is cut off.
LEMMA CutOffStep == FileInv /\ CutOff => FileInv'
<1> SUFFICES ASSUME FileInv, CutOff PROVE FileInv'
  OBVIOUS
<1>1. /\ code \in Codes /\ written \in 0 .. Len(code) /\ mode = "write"
  BY DEF FileInv, Types, CutOff
<1>2. PICK y \in Seq(Byte) : y = file.bytes
  BY DEF FileInv, Types
<1>3. /\ file = [checksum |-> <<>>, bytes |-> y] /\ pos = 0 /\ ops = <<>> /\ whole = FALSE
  BY <1>1, <1>2 DEF FileInv, Types, Writing
<1>4. PICK n \in 0 .. Len(y) : file' = [file EXCEPT !.bytes = SubSeq(@, 1, n)]
  BY <1>2 DEF CutOff
<1>5. PICK z \in Seq(Byte) : z = SubSeq(y, 1, n)
  BY Prefix
<1>6. /\ file' = [checksum |-> <<>>, bytes |-> z] /\ crc_checksum' = <<>>
      /\ written' = written /\ code' = code /\ pos' = 0 /\ ops' = <<>>
      /\ mode' = "read" /\ whole' = FALSE
  <2>1. file' = [checksum |-> <<>>, bytes |-> z]
    BY <1>3, <1>4, <1>5
  <2> QED BY <1>3, <2>1 DEF CutOff
<1>7. Types'
  <2>1. <<>> \in Seq(Byte) /\ <<>> \in Seq(Op) /\ 0 \in 0 .. Len(z)
    BY EmptySeq
  <2> QED BY <1>1, <1>6, <2>1 DEF Types
<1>8. Len(<<>>) = 0 /\ 0 <= Len(z)
  OBVIOUS
<1>9. Reading'
  BY <1>6, <1>8 DEF Reading
<1> QED BY <1>6, <1>7, <1>9 DEF FileInv, Writing, Whole, Broken, Accepted

\* A byte of the file is damaged.
LEMMA DamageStep == FileInv /\ Damage => FileInv'
<1> SUFFICES ASSUME FileInv, Damage PROVE FileInv'
  OBVIOUS
<1>1. /\ code \in Codes /\ written \in 0 .. Len(code) /\ mode = "read" /\ whole = TRUE
      /\ pos = 0 /\ crc_checksum \in Seq(Byte) /\ Len(crc_checksum) = 0
  BY DEF FileInv, Types, Reading, Damage
<1>2. PICK y \in Seq(Byte) : y = file.bytes
  BY DEF FileInv, Types
<1>3. crc_checksum = <<>>
  BY <1>1, SequenceLen
<1>4. file = [checksum |-> y, bytes |-> y] /\ ops = <<>>
  BY <1>1, <1>2, <1>3 DEF FileInv, Types, Whole, Reading
<1>5. PICK i \in DOMAIN y, b \in OtherBytes : /\ b # y[i]
                                             /\ file' = [file EXCEPT !.bytes[i] = b]
  BY <1>2 DEF Damage
<1>6. PICK z \in Seq(Byte) : z = [y EXCEPT ![i] = b]
  <2>1. b \in Byte
    BY ByteAssumption DEF Byte
  <2>2. PICK z : z = [y EXCEPT ![i] = b]
    OBVIOUS
  <2>3. PICK n \in Nat : n = Len(y) /\ y \in [1 .. n -> Byte]
    OBVIOUS
  <2>4. z \in [1 .. n -> Byte]
    BY <2>1, <2>2, <2>3
  <2>5. z = [j \in 1 .. n |-> z[j]] /\ \A j \in 1 .. n : z[j] \in Byte
    BY <2>4
  <2>6. z \in Seq(Byte)
    BY <2>5, TupleIsSequence
  <2> QED BY <2>2, <2>6
<1>7. Len(z) = Len(y) /\ z # y
  <2>1. z[i] = b /\ Len(z) = Len(y)
    BY <1>6
  <2> QED BY <1>5, <2>1
<1>8. /\ file' = [checksum |-> y, bytes |-> z] /\ crc_checksum' = <<>>
      /\ written' = written /\ code' = code /\ pos' = 0 /\ ops' = <<>>
      /\ mode' = "read" /\ whole' = FALSE
  <2>1. file' = [checksum |-> y, bytes |-> z]
    BY <1>4, <1>5, <1>6
  <2> QED BY <1>1, <1>3, <1>4, <2>1 DEF Damage
<1>9. Types'
  <2>1. <<>> \in Seq(Byte) /\ <<>> \in Seq(Op) /\ 0 \in 0 .. Len(z)
    BY EmptySeq
  <2> QED BY <1>1, <1>8, <2>1 DEF Types
<1>10. Len(<<>>) = 0 /\ 0 <= Len(z)
  OBVIOUS
<1>11. Reading'
  BY <1>8, <1>10 DEF Reading
<1>12. Broken'
  BY <1>7, <1>8 DEF Broken
<1> QED BY <1>8, <1>9, <1>11, <1>12 DEF FileInv, Writing, Whole, Accepted

\* The reader compares the checksum.
LEMMA VerifyStep == FileInv /\ Verify => FileInv'
<1> SUFFICES ASSUME FileInv, Verify PROVE FileInv'
  OBVIOUS
<1>1. /\ UNCHANGED <<code, file, written, crc_checksum, pos, ops, whole>>
      /\ mode = "verify"
      /\ mode' = IF crc_checksum = file.checksum THEN "accepted" ELSE "rejected"
  BY DEF Verify
<1>2. Types'
  BY <1>1 DEF FileInv, Types
<1>3. Writing' /\ Reading'
  BY <1>1 DEF FileInv, Writing, Reading
<1>4. Whole'
  BY <1>1 DEF FileInv, Whole
<1>5. Broken' /\ Accepted'
  BY <1>1 DEF FileInv, Broken, Accepted
<1> QED BY <1>2, <1>3, <1>4, <1>5 DEF FileInv

-----------------------------------------------------------------------------

\* The reader before it reads an opcode.
LEMMA ReaderSound ==
  ASSUME FileInv, mode = "read", NEW length \in Nat
  PROVE  Sound(Reader(length), 0) /\ Exact(Reader(length), pos, <<>>)
<1>1. <<>> \in Seq(Byte) /\ <<>> \in Seq(Int)
  BY EmptySeq
<1>2. /\ pos \in Nat /\ pos <= Len(file.bytes) /\ crc_checksum \in Seq(Byte)
      /\ Len(crc_checksum) = pos /\ file.bytes \in Seq(Byte)
      /\ \A k \in 1 .. Len(crc_checksum) : crc_checksum[k] = file.bytes[k]
  BY DEF FileInv, Types, Reading
<1>3. PICK r : r = Reader(length)
  OBVIOUS
<1>4. /\ r \in ReaderState /\ r.pos = pos /\ r.crc = crc_checksum /\ r.args = <<>>
      /\ r.eof = FALSE /\ r.wild = FALSE
  BY <1>1, <1>2, <1>3 DEF Reader, ReaderState
<1>5. Sound(r, 0)
  BY <1>2, <1>4 DEF Sound
<1>6. Exact(r, pos, <<>>)
  BY <1>4 DEF Exact
<1> QED BY <1>3, <1>5, <1>6

\* It reads one byte, unless there is none.
LEMMA FirstByte ==
  ASSUME FileInv, mode = "read", NEW length \in Nat
  PROVE  LET first == read_raw(Reader(length), 1)
         IN  /\ first.raw \in Seq(Byte)
             /\ first.eof <=> pos = Len(file.bytes)
             /\ ~ first.eof => Sound(first, 1)
<1>1. PICK first : first = read_raw(Reader(length), 1)
  OBVIOUS
<1>2. PICK b \in Seq(Byte) : b = file.bytes
  BY DEF FileInv, Types
<1>3. 1 \in Nat /\ 0 \in Nat
  OBVIOUS
<1>4. Sound(first, 0)
  BY <1>1, <1>2, <1>3, ReaderSound, ReadRawSound
<1>5. PICK r : r = Reader(length) /\ r \in ReaderState /\ r.pos = pos /\ r.eof = FALSE
  BY ReaderSound DEF Exact
<1>6. /\ pos + 1 <= Len(b) => first.pos = pos + 1 /\ first.eof = FALSE
      /\ ~ (pos + 1 <= Len(b)) => first.eof = TRUE
  BY <1>1, <1>2, <1>3, <1>5, ReadRawFields
<1>7. pos \in 0 .. Len(b) /\ Len(b) \in Nat
  BY <1>2 DEF FileInv, Types
<1>8. first.eof <=> pos = Len(b)
  BY <1>6, <1>7
<1>9. ~ first.eof => Sound(first, 1)
  BY <1>2, <1>4, <1>6, <1>7, <1>8 DEF Sound
<1>10. first.raw \in Seq(Byte)
  BY <1>4 DEF Sound, ReaderState
<1> QED BY <1>1, <1>2, <1>8, <1>9, <1>10

\* An opcode that is read is one, and the reader's checksum is not that of nothing.
LEMMA OpSound ==
  ASSUME FileInv, mode = "read", NEW length \in Nat
  PROVE  LET first == read_raw(Reader(length), 1)
             number == Value(first.raw)
             op == OpCodes[number + 1]
             r == ReadFields(first, ReadOperands[op])
         IN  ~ first.eof /\ number + 1 \in DOMAIN OpCodes =>
               op \in Range(OpCodes) /\ Sound(r, 1)
<1>1. PICK first : first = read_raw(Reader(length), 1)
  OBVIOUS
<1>2. PICK number : number = Value(first.raw)
  OBVIOUS
<1>3. PICK op : op = OpCodes[number + 1]
  OBVIOUS
<1>4. PICK fields : fields = ReadOperands[op]
  OBVIOUS
<1>5. ASSUME ~ first.eof, number + 1 \in DOMAIN OpCodes
      PROVE  op \in Range(OpCodes) /\ Sound(ReadFields(first, fields), 1)
  <2>1. op \in Range(OpCodes)
    BY <1>3, <1>5 DEF Range
  <2>2. op \in DOMAIN ReadOperands
    BY <2>1, AllRead
  <2>3. fields \in Seq(Fields)
    BY <1>4, <2>2, TablesAgree DEF Agree, Fits
  <2>4. Sound(first, 1)
    BY <1>1, <1>5, FirstByte
  <2>5. file.bytes \in Seq(Byte) /\ 1 \in Nat
    BY DEF FileInv, Types
  <2> QED BY <2>1, <2>3, <2>4, <2>5, ReadFieldsSound
<1> QED BY <1>1, <1>2, <1>3, <1>4, <1>5

\* In a whole file the next opcode is the one that was written.
LEMMA WholeOp ==
  ASSUME FileInv, mode = "read", whole
  PROVE  /\ Len(code) \in Nat /\ Len(ops) \in 0 .. Len(code)
         /\ Len(ops) = Len(code) => pos = Len(file.bytes)
         /\ Len(ops) # Len(code) =>
              LET k == Len(ops) + 1
              IN  /\ k \in 1 .. Len(code) /\ WellFormed(code[k])
                  /\ At(file.bytes, pos, OpBytes(code[k]))
                  /\ pos # Len(file.bytes)
                  /\ pos + Len(OpBytes(code[k])) = Len(BytesOf(code)[k])
<1>1. /\ code \in Codes /\ ops \in Seq(Op) /\ file.bytes = BytesOf(code)[Len(code)]
      /\ Len(ops) <= Len(code) /\ pos = Len(BytesOf(code)[Len(ops)])
  BY DEF FileInv, Types, Whole
<1>2. PICK n \in Nat : n = Len(code)
  BY <1>1, CodesWellFormed
<1>3. PICK m \in 0 .. n : m = Len(ops)
  BY <1>1, <1>2
<1>4. m = n => pos = Len(file.bytes)
  BY <1>1, <1>2, <1>3
<1>5. ASSUME m # n
      PROVE  /\ m + 1 \in 1 .. n /\ WellFormed(code[m + 1])
             /\ At(file.bytes, pos, OpBytes(code[m + 1]))
             /\ pos # Len(file.bytes)
             /\ pos + Len(OpBytes(code[m + 1])) = Len(BytesOf(code)[m + 1])
  <2>1. PICK k \in 1 .. n : k = m + 1
    BY <1>5
  <2>2. k - 1 = m
    BY <2>1
  <2>3. /\ At(file.bytes, pos, OpBytes(code[k]))
        /\ pos \in Nat /\ Len(OpBytes(code[k])) \in Nat \ {0}
        /\ Len(BytesOf(code)[k]) = pos + Len(OpBytes(code[k]))
    BY <1>1, <1>2, <1>3, <2>2, OpAt
  <2>4. pos # Len(file.bytes)
    <3>1. PICK l \in Nat \ {0} : l = Len(OpBytes(code[k]))
      BY <2>3
    <3>2. pos + l <= Len(file.bytes)
      BY <2>3, <3>1 DEF At
    <3> QED BY <2>3, <3>2
  <2>5. WellFormed(code[k])
    BY <1>1, <1>2, CodesWellFormed
  <2> QED BY <2>1, <2>3, <2>4, <2>5
<1> QED BY <1>2, <1>3, <1>4, <1>5

\* What the reader makes of an opcode and its operands is an opcode.
LEMMA MadeType ==
  ASSUME NEW op \in Range(OpCodes), NEW args \in Seq(Int)
  PROVE  Made(op, args) \in Op
BY DEF Made, Op

\* At the end of the file the reader stops.
LEMMA ReadEnd ==
  ASSUME FileInv, mode = "read", pos = Len(file.bytes), mode' = "verify",
         UNCHANGED <<code, file, written, crc_checksum, pos, ops, whole>>
  PROVE  FileInv'
<1>1. PICK b \in Seq(Byte) : b = file.bytes
  BY DEF FileInv, Types
<1>2. PICK c \in Seq(Byte) : c = crc_checksum
  BY DEF FileInv, Types
<1>3. Len(c) = Len(b) /\ \A k \in 1 .. Len(c) : c[k] = b[k]
  BY <1>1, <1>2 DEF FileInv, Reading
<1>4. c = b
  BY <1>3, SeqEqual
<1>5. Types'
  BY DEF FileInv, Types
<1>6. Reading'
  BY <1>1, <1>2, <1>4 DEF FileInv, Reading
<1>7. Whole'
  <2>1. ASSUME whole PROVE Len(ops) = Len(code)
    BY <2>1, WholeOp
  <2> QED BY <1>1, <1>2, <1>4, <2>1 DEF FileInv, Whole
<1>8. Broken'
  BY DEF FileInv, Broken
<1> QED BY <1>5, <1>6, <1>7, <1>8 DEF FileInv, Writing, Accepted

\* A number is not an opcode's.
LEMMA ReadUnknown ==
  ASSUME FileInv, mode = "read", whole = FALSE, mode' = "rejected",
         UNCHANGED <<code, file, written, crc_checksum, pos, ops, whole>>
  PROVE  FileInv'
<1>1. Types'
  BY DEF FileInv, Types
<1>2. Reading'
  BY DEF FileInv, Reading
<1>3. Broken'
  BY DEF FileInv, Broken
<1> QED BY <1>1, <1>2, <1>3 DEF FileInv, Writing, Whole, Accepted

\* An opcode of a file that is not whole is read.
LEMMA ReadOther ==
  ASSUME FileInv, mode = "read", whole = FALSE, NEW r, Sound(r, 1),
         NEW o \in Op, pos' = r.pos, crc_checksum' = r.crc, ops' = Append(ops, o),
         mode' = (IF r.eof THEN "verify" ELSE mode) \/ mode' = "crashed",
         UNCHANGED <<code, file, written, whole>>
  PROVE  FileInv'
<1>1. PICK b \in Seq(Byte) : b = file.bytes
  BY DEF FileInv, Types
<1>2. PICK c \in Seq(Byte) : c = r.crc
  BY DEF Sound, ReaderState
<1>3. /\ r.pos \in Nat /\ r.pos <= Len(b) /\ 1 <= Len(c) /\ Len(c) <= r.pos
      /\ \A k \in 1 .. Len(c) : c[k] = b[k]
      /\ r.eof = FALSE => Len(c) = r.pos
      /\ r.eof \in BOOLEAN
  BY <1>1, <1>2 DEF Sound, ReaderState
<1>4. Len(c) \in Nat /\ Len(b) \in Nat
  OBVIOUS
<1>5. Types'
  <2>1. ops' \in Seq(Op)
    BY OneMore DEF FileInv, Types
  <2>2. pos' \in 0 .. Len(b) /\ crc_checksum' \in Seq(Byte)
    BY <1>2, <1>3, <1>4
  <2>3. mode' \in {"verify", "read", "crashed"}
    BY <1>3
  <2> QED BY <1>1, <2>1, <2>2, <2>3 DEF FileInv, Types
<1>6. Reading'
  <2>1. c # <<>>
    BY <1>3, <1>4, SequenceLen
  <2>2. Len(c) <= Len(b)
    BY <1>3, <1>4
  <2>3. mode' = "read" => Len(c) = pos'
    BY <1>3
  <2> QED BY <1>1, <1>2, <1>3, <2>1, <2>2, <2>3 DEF Reading
<1>7. Broken'
  BY DEF FileInv, Broken
<1>8. mode' # "write" /\ mode' # "accepted"
  BY <1>3
<1> QED BY <1>5, <1>6, <1>7, <1>8 DEF FileInv, Writing, Whole, Accepted

\* An opcode of a whole file is read.
LEMMA ReadWritten ==
  ASSUME FileInv, mode = "read", whole, NEW k \in 1 .. Len(code), k = Len(ops) + 1,
         NEW r, Sound(r, 1), Exact(r, Len(BytesOf(code)[k]), code[k].args),
         WellFormed(code[k]),
         pos' = r.pos, crc_checksum' = r.crc, ops' = Append(ops, code[k]),
         mode' = "read", UNCHANGED <<code, file, written, whole>>
  PROVE  FileInv'
<1>1. PICK b \in Seq(Byte) : b = file.bytes
  BY DEF FileInv, Types
<1>2. PICK c \in Seq(Byte) : c = r.crc
  BY DEF Sound, ReaderState
<1>3. /\ r.pos \in Nat /\ r.pos <= Len(b) /\ 1 <= Len(c) /\ Len(c) = r.pos
      /\ \A j \in 1 .. Len(c) : c[j] = b[j]
  BY <1>1, <1>2 DEF Sound, ReaderState, Exact
<1>4. Len(c) \in Nat /\ Len(b) \in Nat /\ c # <<>>
  BY <1>3
<1>5. ops \in Seq(Op)
  BY DEF FileInv, Types
<1>6. PICK o \in Op : o = code[k]
  <2>1. /\ code[k].op \in Range(OpCodes) /\ code[k].args \in Seq(Int)
        /\ code[k] = Made(code[k].op, code[k].args)
    BY DEF WellFormed, Exact, ReaderState
  <2> QED BY <2>1, MadeType
<1>7. PICK more \in Seq(Op) : more = ops' /\ more = Append(ops, o)
  BY <1>5, <1>6, OneMore
<1>8. /\ Len(more) = k /\ more[k] = code[k]
      /\ \A i \in 1 .. Len(ops) : more[i] = ops[i]
  <2>1. /\ Len(more) = Len(ops) + 1 /\ more[Len(ops) + 1] = o
        /\ \A i \in 1 .. Len(ops) : more[i] = ops[i]
    BY <1>5, <1>7, OneMore
  <2> QED BY <1>6, <2>1
<1>9. Types'
  <2>1. pos' \in 0 .. Len(b)
    BY <1>3, <1>4
  <2> QED BY <1>1, <1>2, <1>7, <2>1 DEF FileInv, Types
<1>10. Reading'
  BY <1>1, <1>2, <1>3, <1>4 DEF Reading
<1>11. Whole'
  <2>1. Len(code) \in Nat
    BY WholeOp
  <2>2. \A i \in 1 .. Len(ops) : ops[i] = code[i]
    BY DEF FileInv, Whole
  <2>3. Len(more) <= Len(code)
    BY <1>8, <2>1
  <2>4. \A i \in 1 .. Len(more) : more[i] = code[i]
    <3> TAKE i \in 1 .. Len(more)
    <3>1. CASE i = k
      BY <1>8, <3>1
    <3>2. CASE i # k
      <4>1. i \in 1 .. Len(ops)
        BY <1>5, <1>8, <3>2
      <4> QED BY <1>8, <2>2, <4>1
    <3> QED BY <3>1, <3>2
  <2>5. pos' = Len(BytesOf(code)[Len(more)])
    BY <1>8 DEF Exact
  <2>6. file.checksum = file.bytes /\ file.bytes = BytesOf(code)[Len(code)]
    BY DEF FileInv, Whole
  <2> QED BY <1>7, <2>3, <2>4, <2>5, <2>6 DEF Whole
<1> QED BY <1>9, <1>10, <1>11 DEF FileInv, Writing, Broken, Accepted

\* One turn of the reader's loop.
LEMMA ReadStep == FileInv /\ ReadOp => FileInv'
<1> SUFFICES ASSUME FileInv, ReadOp PROVE FileInv'
  OBVIOUS
<1>1. mode = "read" /\ UNCHANGED <<code, file, written, whole>>
  BY DEF ReadOp
<1>2. PICK length \in Nat :
        LET first == read_raw(Reader(length), 1)
            number == Value(first.raw)
            op == OpCodes[number + 1]
            r == ReadFields(first, ReadOperands[op])
        IN  IF first.eof
            THEN /\ mode' = "verify"
                 /\ UNCHANGED <<pos, crc_checksum, ops>>
            ELSE IF number + 1 \notin DOMAIN OpCodes
            THEN mode' = "rejected" /\ UNCHANGED <<pos, crc_checksum, ops>>
            ELSE /\ pos' = r.pos
                 /\ crc_checksum' = r.crc
                 /\ ops' = Append(ops, Made(op, r.args))
                 /\ \/ mode' = IF r.eof THEN "verify" ELSE mode
                    \/ r.wild /\ mode' = "crashed"
  BY StringAssumption DEF ReadOp
<1>3. PICK first : first = read_raw(Reader(length), 1)
  OBVIOUS
<1>4. PICK number : number = Value(first.raw)
  OBVIOUS
<1>5. PICK op : op = OpCodes[number + 1]
  OBVIOUS
<1>6. PICK r : r = ReadFields(first, ReadOperands[op])
  OBVIOUS
<1>7. IF first.eof
      THEN /\ mode' = "verify"
           /\ UNCHANGED <<pos, crc_checksum, ops>>
      ELSE IF number + 1 \notin DOMAIN OpCodes
      THEN mode' = "rejected" /\ UNCHANGED <<pos, crc_checksum, ops>>
      ELSE /\ pos' = r.pos
           /\ crc_checksum' = r.crc
           /\ ops' = Append(ops, Made(op, r.args))
           /\ \/ mode' = IF r.eof THEN "verify" ELSE mode
              \/ r.wild /\ mode' = "crashed"
  BY <1>2, <1>3, <1>4, <1>5, <1>6, Zenon
<1>8. first.eof <=> pos = Len(file.bytes)
  BY <1>1, <1>3, FirstByte
<1>9. ~ first.eof /\ number + 1 \in DOMAIN OpCodes =>
        op \in Range(OpCodes) /\ Sound(r, 1)
  BY <1>1, <1>3, <1>4, <1>5, <1>6, OpSound
<1>10. ASSUME whole, ~ first.eof
       PROVE  LET k == Len(ops) + 1
              IN  /\ k \in 1 .. Len(code) /\ WellFormed(code[k])
                  /\ number + 1 \in DOMAIN OpCodes /\ op = code[k].op
                  /\ Exact(r, Len(BytesOf(code)[k]), code[k].args)
  <2>1. PICK k : k = Len(ops) + 1
    OBVIOUS
  <2>2. PICK o : o = code[k]
    OBVIOUS
  <2>3. /\ k \in 1 .. Len(code) /\ WellFormed(o)
        /\ At(file.bytes, pos, OpBytes(o))
        /\ pos + Len(OpBytes(o)) = Len(BytesOf(code)[k])
    BY <1>1, <1>8, <1>10, <2>1, <2>2, WholeOp
  <2>4. file.bytes \in Seq(Byte) /\ pos \in Nat /\ crc_checksum \in Seq(Byte)
    BY DEF FileInv, Types
  <2>5. /\ number + 1 \in DOMAIN OpCodes /\ op = o.op
        /\ Exact(r, pos + Len(OpBytes(o)), o.args)
    BY <1>3, <1>4, <1>5, <1>6, <2>3, <2>4, OpRead
  <2> QED BY <2>1, <2>2, <2>3, <2>5
<1>11. CASE first.eof
  <2>1. mode' = "verify" /\ UNCHANGED <<pos, crc_checksum, ops>>
    BY <1>7, <1>11
  <2> QED BY <1>1, <1>8, <1>11, <2>1, ReadEnd
<1>12. CASE ~ first.eof /\ number + 1 \notin DOMAIN OpCodes
  <2>1. mode' = "rejected" /\ UNCHANGED <<pos, crc_checksum, ops>>
    BY <1>7, <1>12
  <2>2. whole = FALSE
    BY <1>10, <1>12 DEF FileInv, Types
  <2> QED BY <1>1, <2>1, <2>2, ReadUnknown
<1>13. CASE ~ first.eof /\ number + 1 \in DOMAIN OpCodes
  <2>1. /\ pos' = r.pos /\ crc_checksum' = r.crc
        /\ ops' = Append(ops, Made(op, r.args))
        /\ \/ mode' = IF r.eof THEN "verify" ELSE mode
           \/ r.wild /\ mode' = "crashed"
    BY <1>7, <1>13
  <2>2. op \in Range(OpCodes) /\ Sound(r, 1)
    BY <1>9, <1>13
  <2>3. CASE whole
    <3>1. PICK k : k = Len(ops) + 1
      OBVIOUS
    <3>2. /\ k \in 1 .. Len(code) /\ WellFormed(code[k]) /\ op = code[k].op
          /\ Exact(r, Len(BytesOf(code)[k]), code[k].args)
      BY <1>10, <1>13, <2>3, <3>1
    <3>3. Made(op, r.args) = code[k]
      BY <3>2 DEF WellFormed, Exact
    <3>4. mode' = "read" /\ ops' = Append(ops, code[k])
      BY <1>1, <2>1, <3>2, <3>3 DEF Exact
    <3> QED BY <1>1, <2>1, <2>2, <2>3, <3>1, <3>2, <3>4, ReadWritten
  <2>4. CASE whole = FALSE
    <3>1. r.args \in Seq(Int)
      BY <2>2 DEF Sound, ReaderState
    <3>2. PICK o \in Op : o = Made(op, r.args)
      BY <2>2, <3>1, MadeType
    <3>3. ops' = Append(ops, o)
      BY <2>1, <3>2
    <3>4. mode' = (IF r.eof THEN "verify" ELSE mode) \/ mode' = "crashed"
      BY <2>1
    <3> QED BY <1>1, <2>1, <2>2, <2>4, <3>3, <3>4, ReadOther
  <2>5. whole \in BOOLEAN
    BY DEF FileInv, Types
  <2> QED BY <2>3, <2>4, <2>5
<1> QED BY <1>11, <1>12, <1>13

-----------------------------------------------------------------------------

\* Every step keeps the invariant.
LEMMA InvNext == FileInv /\ [Next]_vars => FileInv'
<1> SUFFICES ASSUME FileInv, [Next]_vars PROVE FileInv'
  OBVIOUS
<1>1. CASE WriteOp
  BY <1>1, WriteStep
<1>2. CASE PatchChecksum
  BY <1>2, PatchStep
<1>3. CASE CutOff
  BY <1>3, CutOffStep
<1>4. CASE Damage
  BY <1>4, DamageStep
<1>5. CASE ReadOp
  BY <1>5, ReadStep
<1>6. CASE Verify
  BY <1>6, VerifyStep
<1>7. CASE UNCHANGED vars
  <2>1. Types' /\ Writing' /\ Reading'
    BY <1>7 DEF vars, FileInv, Types, Writing, Reading
  <2>2. Whole' /\ Broken' /\ Accepted'
    BY <1>7 DEF vars, FileInv, Whole, Broken, Accepted
  <2> QED BY <2>1, <2>2 DEF FileInv
<1> QED BY <1>1, <1>2, <1>3, <1>4, <1>5, <1>6, <1>7 DEF Next, Finished

\* The invariant always holds.
LEMMA InvAlways == Spec => []FileInv
BY InvInit, InvNext, PTL DEF Spec

\* Every variable keeps its type, and the reader stays within the file, whatever
\* the bytes of the file are (BytecodeReader::read_raw).
THEOREM TypesHold == Spec => []TypeOK
<1>1. FileInv => TypeOK
  <2> SUFFICES ASSUME FileInv PROVE TypeOK
    OBVIOUS
  <2>1. Types
    BY DEF FileInv
  <2>2. \A i \in DOMAIN ops : ops[i].op \in Range(OpCodes)
    <3>1. ops \in Seq(Op)
      BY <2>1 DEF Types
    <3>2. \A i \in DOMAIN ops : ops[i] \in Op
      BY <3>1
    <3> QED BY <3>2 DEF Op
  <2>3. Len(crc_checksum) <= Len(file.bytes) \/ mode = "write"
    BY DEF FileInv, Reading
  <2> QED BY <2>1, <2>2, <2>3 DEF Types, TypeOK
<1> QED BY <1>1, InvAlways, PTL

\* A file the writer completed is never rejected, and its reader never crashes: it
\* takes as many bytes as were written for each opcode.
THEOREM AcceptsComplete == Spec => []CompleteIsAccepted
<1>1. FileInv => CompleteIsAccepted
  BY DEF FileInv, Whole, CompleteIsAccepted
<1> QED BY <1>1, InvAlways, PTL

\* What a reader accepts is the code that was written, opcode by opcode, unless the
\* file is only a header that was never patched.
THEOREM AcceptsOnlyWritten == Spec => []AcceptedIsWritten
<1>1. FileInv => AcceptedIsWritten
  <2> SUFFICES ASSUME FileInv, mode = "accepted"
               PROVE  \/ Len(ops) = Len(code) /\ \A i \in DOMAIN ops : Same(ops[i], code[i])
                      \/ ops = <<>> /\ file.bytes = <<>>
    BY DEF AcceptedIsWritten
  <2>1. CASE whole
    <3>1. Len(ops) = Len(code) /\ \A i \in 1 .. Len(ops) : ops[i] = code[i]
      BY <2>1 DEF FileInv, Whole
    <3>2. DOMAIN ops = 1 .. Len(ops)
      BY DEF FileInv, Types
    <3> QED BY <3>1, <3>2 DEF Same
  <2>2. CASE whole = FALSE
    <3>1. PICK b \in Seq(Byte), c \in Seq(Byte) : b = file.bytes /\ c = crc_checksum
      BY DEF FileInv, Types
    <3>2. c = file.checksum /\ \A k \in 1 .. Len(c) : c[k] = b[k]
      BY <3>1 DEF FileInv, Accepted, Reading
    <3>3. ~ (Len(c) = Len(b) /\ c # b)
      BY <3>2, SeqEqual
    <3>4. c = <<>>
      BY <2>2, <3>1, <3>2, <3>3 DEF FileInv, Broken
    <3> QED BY <3>1, <3>4 DEF FileInv, Reading
  <2>3. whole \in BOOLEAN
    BY DEF FileInv, Types
  <2> QED BY <2>1, <2>2, <2>3
<1> QED BY <1>1, InvAlways, PTL
=============================================================================
