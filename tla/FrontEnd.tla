------------------------------ MODULE FrontEnd ------------------------------
(***************************************************************************)
(* The two loops around the parser, on the same text: parse() reads a file *)
(* and parse_line() is called by the REPL for each line.  Each appends the *)
(* declarations it gets to decls.                                          *)
(***************************************************************************)
EXTENDS Parser, Grammar

CONSTANTS
  Texts,      \* texts to parse, each the sequence of its lines of tokens
  Trees       \* expressions that are written as texts of one line

VARIABLES
  program,    \* the text and the tree it was written from, or None
  file,       \* the parser of the file, its declarations, whether it is done
  repl        \* that of the REPL; open: parse_line() has a line

vars == <<program, file, repl>>

SyntaxError == [k |-> "SyntaxError"]

Reader(p) == [p |-> p, decls |-> <<>>, open |-> FALSE, done |-> FALSE]

Stopped(r, p) == [r EXCEPT !.p = p, !.done = TRUE]

\* parse() pushes the module and looks for its doc string.
OpenFile(lines) ==
    LET p == bind_docstring(Push(Parser(lines, FALSE), "Module"))
    IN  IF Ok(p) THEN Reader(p)
        ELSE [Stopped(Reader(p), p) EXCEPT !.decls = <<SyntaxError>>]

Given(lines, tree) == program = [lines |-> lines, tree |-> tree]

Init ==
    /\ \/ \E lines \in Texts : Given(lines, None)
       \/ \E t \in Trees : Given(<<Append(Written(t, 1), NL)>>, t)
    /\ file = OpenFile(program.lines)
    /\ repl = Reader(Parser(program.lines, TRUE))

\* The source of a declaration as a note before it, once that is switched on.
check_code_output(p, decl) ==
    IF /\ p.code_output
       /\ ~Is(decl, "Note")
       /\ Is(decl, "Annotation") => decl.name # "enable_code_output"
    THEN <<NoteOf("md", "code")>> ELSE <<>>

\* What parse() does with the parser after a declaration.
FileAfter(p) ==
    IF Ok(p)
    THEN [file EXCEPT !.p = [p EXCEPT !.parents[1].empty = FALSE],
                      !.decls = @ \o check_code_output(p, p.node) \o <<p.node>>]
    ELSE [Stopped(file, p) EXCEPT !.decls = <<SyntaxError>>]

FileDeclaration ==
    /\ ~file.done /\ ~Check(file.p, {EOF})
    /\ file' = FileAfter(Parse("declaration", file.p))
    /\ UNCHANGED <<program, repl>>

FileEnd ==
    /\ ~file.done /\ Check(file.p, {EOF})
    /\ file' = [Stopped(file, file.p) EXCEPT !.decls =
                  IF @ # <<>> /\ Is(Last(@), "EndOfFile") THEN @
                  ELSE Append(@, EndOfFile)]
    /\ UNCHANGED <<program, repl>>

\* parse_line() starts with the tokens of one line.
ScanLine ==
    /\ ~repl.done /\ ~repl.open
    /\ repl' = [repl EXCEPT !.open = TRUE,
                            !.p = scan_line([@ EXCEPT !.toks = <<>>, !.pos = 1])]
    /\ UNCHANGED <<program, file>>

AtEndOfLine == Check(repl.p, {NL, End})

\* An error ends the line; the parser is used on for the next one.
LineAfter(p) ==
    CASE p.err \in Aborts -> Stopped(repl, p)
      [] p.err = "syntax" -> [repl EXCEPT !.p = [p EXCEPT !.err = ""], !.open = FALSE,
                                          !.decls = Append(@, SyntaxError)]
      [] OTHER -> [repl EXCEPT !.p = p, !.decls = Append(@, p.node),
                               !.done = Is(p.node, "EndOfFile")]

LineDeclaration ==
    /\ repl.open /\ ~repl.done /\ ~AtEndOfLine
    /\ repl' = LineAfter(Parse("declaration", repl.p))
    /\ UNCHANGED <<program, file>>

EndLine ==
    /\ repl.open /\ ~repl.done /\ AtEndOfLine
    /\ repl' = [repl EXCEPT !.open = FALSE]
    /\ UNCHANGED <<program, file>>

FileStep == FileDeclaration \/ FileEnd
ReplStep == ScanLine \/ LineDeclaration \/ EndLine

\* The readers share nothing: the file goes first.
Next == FileStep \/ (file.done /\ ReplStep)

Spec == Init /\ [][Next]_vars /\ WF_vars(Next)

-----------------------------------------------------------------------------
(* Properties *)

Tokens == FlattenSeq(program.lines)
Rejected(r) == SyntaxError \in ToSet(r.decls)
Accepted(r) == r.done /\ Ok(r.p) /\ ~Rejected(r)

AtToken(r) == r.p.pos \in DOMAIN r.p.toks \/ (r.p.toks = <<>> /\ ~r.open)

\* What the parser asserts or takes for granted of itself: the counter of multi-
\* line constructs is not below 0, what is no declaration is an error (declaration),
\* and there is a token at the position that peek and check read without looking
\* (Parser::check, Parser::advance).
AssertionsHold ==
    /\ {file.p.err, repl.p.err} \intersect {"nothing", "multi-line"} = {}
    /\ AtToken(file) /\ AtToken(repl)

\* An expression is parsed as the tree that it was written from, with the
\* parentheses that the documented table of operators asks for: except where
\* one of the operators known to be misread is next to another (whose text is an
\* error, or another tree).
ParsedAsWritten ==
    (file.done /\ program.tree # None) =>
        (Misread(program.tree) <=> file.decls # <<program.tree, EndOfFile>>)

\* Every name and number of a text that is accepted is in the tree, as often
\* as it was written.
NothingLost ==
    (Accepted(file) /\ file.p.annots = <<>>) =>
        \A n \in (Id \ {"d", "r"}) \union Int_ :
            Occurrences(n, WordsOf(file.decls)) = Occurrences(n, Tokens)

\* What is for the module can only be in a file.
ForModule == {"@!", "d"} \intersect ToSet(Tokens) # {}

\* Between a body and its else, catch or finally the REPL takes one new line only.
EmptyLine == \E i \in DOMAIN program.lines : program.lines[i] = <<NL>>

\* The REPL gets from the lines of a text what the file has in it.
LinesAgree ==
    (Accepted(file) /\ repl.done /\ ~ForModule /\ ~EmptyLine) => file.decls = repl.decls
=============================================================================
