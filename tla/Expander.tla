------------------------------ MODULE Expander ------------------------------
(***************************************************************************)
(* The include expander (src/parser/expander.rs).  It replaces every       *)
(* include of a program by the statements of the file it names, depth      *)
(* first, and renames what a file declares when the include has an alias.  *)
(*                                                                         *)
(* An include names the file it resolves to (the search through the        *)
(* directory of the includer and the include paths is not modelled), or    *)
(* NoFile.  A file's text is what the parser makes of it.  A name is a     *)
(* sequence of identifiers: <<"m", "f">> is the identifier m.f.            *)
(*                                                                         *)
(* Statements have a kind k:                                               *)
(*   include  file, alias                                                  *)
(*   func     name, params, body   FunctionDef, FiberDef; a body is a      *)
(*                                 sequence of the statements below        *)
(*   var      name, e              VarDecl                                 *)
(*   set      name, e              Assign and the other statements that    *)
(*                                 write or call a variable by its name    *)
(*   bind     name, e              JsonBind                                *)
(*   fiber    name, e              FiberDecl; e calls the fiber            *)
(*   do       e                    statements that only have expressions;  *)
(*                                 blocks are flattened                    *)
(* An expression is an identifier and the members taken of it, the last of *)
(* them called or not; `inside` is the literal it is an element of, if the *)
(* expander treats it otherwise: "braces" (ArrayOrSetLiteral), "choice"    *)
(* (RandomChoice) or "opaque" (maps, tables, net calls).  `means` and      *)
(* `origin` tag uses and declarations for the properties.                  *)
(***************************************************************************)
EXTENDS Integers, Sequences, FiniteSets

CONSTANTS File, Main,    \* the files; the one that is run
          NoFile,        \* what an include names that finds nothing
          Alias, None,   \* aliases; an include without one
          Texts,         \* the contents of the files looked at
          Protected,     \* names that are never prefixed
          Constant       \* PI, E and the others that any alias is tried on

Name == Seq(STRING) \ {<<>>}
Origin == [file : File, name : STRING]
Parameter == [file |-> None, name |-> None]     \* what a parameter's uses mean
Meaning == Origin \cup {Parameter, None}

Expression == [name : Name, rest : Seq(STRING), called : BOOLEAN,
               inside : {"nothing", "braces", "choice", "opaque"}, means : Meaning]
Simple == [k : {"var"}, name : Name, e : Expression, origin : Origin]
          \cup [k : {"set"}, name : Name, means : Meaning, e : Expression]
          \cup [k : {"bind", "fiber"}, name : Name, e : Expression]
          \cup [k : {"do"}, e : Expression]
Function == [k : {"func"}, name : Name, params : SUBSET Name, body : Seq(Simple), origin : Origin]
Include == [k : {"include"}, file : File \cup {NoFile}, alias : Alias \cup {None}]
Statement == Simple \cup Function \cup Include

ASSUME ExpanderAssumption ==
    /\ Main \in File /\ NoFile \notin File /\ None \notin Alias /\ Alias \subseteq STRING
    /\ Texts \subseteq [File -> Seq(Statement)]

VARIABLES text,      \* what each file holds
          stack,     \* the activations of expand(): file, next statement, alias
          outs,      \* the statements each activation has collected
          visiting,  \* visiting_files
          included,  \* included_files
          aliases,   \* the keys of aliases; each is its own value
          first,     \* the alias that iterating over aliases begins with
          status,    \* expanding, done, or the error expand() returned
          finished,  \* history: files expanded to their end, in that order
          place,     \* history: where a file was expanded without an alias
          astray     \* history: files skipped elsewhere than there

walk == <<stack, outs>>
maps == <<aliases, first>>
history == <<place, astray>>
vars == <<text, walk, visiting, included, maps, status, finished, history>>

-----------------------------------------------------------------------------
(* expand_expr_inplace                                                     *)

Method(e) == e.called /\ e.rest # <<>>
Members(e) == IF Method(e) THEN SubSeq(e.rest, 1, Len(e.rest) - 1) ELSE e.rest

\* Each member is merged into what it is taken of, from left to right, if
\* that is an alias or begins with one.
Merged(e) ==
    IF e.name[1] \notin aliases THEN e
    ELSE [e EXCEPT !.name = @ \o Members(e),
                   !.rest = SubSeq(@, Len(Members(e)) + 1, Len(@))]

\* A method called on an alias alone is a function of the file.
CallRewritten(e) ==
    IF Method(e) /\ Len(e.rest) = 1 /\ Len(e.name) = 1 /\ e.name[1] \in aliases
    THEN [e EXCEPT !.name = @ \o e.rest, !.rest = <<>>]
    ELSE e

\* A constant gets the first alias there is, whatever file it is used in.
Named(e) ==
    IF e.name \in Constant /\ (e.called => Method(e)) /\ aliases # {}
    THEN [e EXCEPT !.name = <<first>> \o @]
    ELSE e

ExpandExpr(e) ==
    IF e.inside \in {"choice", "opaque"} THEN e ELSE CallRewritten(Merged(Named(e)))

\* expand_stmt_inplace.  The fiber a declaration starts is not looked up.
ExpandSimple(s) == IF s.k = "fiber" THEN s ELSE [s EXCEPT !.e = ExpandExpr(@)]
ExpandStmt(s) ==
    IF s.k = "func"
    THEN [s EXCEPT !.body = [i \in DOMAIN @ |-> ExpandSimple(@[i])]]
    ELSE ExpandSimple(s)

-----------------------------------------------------------------------------
(* prefix_program                                                          *)

Declares(s) == s.k \in {"var", "func"}
TopLevelNames(stmts) == {stmts[i].name : i \in {i \in DOMAIN stmts : Declares(stmts[i])}}

\* prefix_id, for a name that is in top_level_names.
Prefixed(name, a) ==
    IF name \in Protected \/ (name[1] = a /\ Len(name) > 1) THEN name ELSE <<a>> \o name
Rename(name, a, tops) == IF name \in tops THEN Prefixed(name, a) ELSE name

PrefixExpr(e, a, tops) ==
    IF e.inside \in {"braces", "opaque"} THEN e ELSE [e EXCEPT !.name = Rename(@, a, tops)]

\* Parameters, the target of a bind and the variable a fiber declaration
\* declares keep their names.
\* Mutant: the fiber that a declaration starts keeps its name.
PrefixSimpleNotFibers(s, a, tops) ==
    CASE s.k \in {"var", "set"} -> [s EXCEPT !.name = Rename(@, a, tops),
                                            !.e = PrefixExpr(@, a, tops)]
      [] s.k \in {"bind", "do"} -> [s EXCEPT !.e = PrefixExpr(@, a, tops)]
      [] s.k = "fiber" -> s

PrefixSimple(s, a, tops) ==
    CASE s.k \in {"var", "set"} -> [s EXCEPT !.name = Rename(@, a, tops),
                                            !.e = PrefixExpr(@, a, tops)]
      [] s.k \in {"bind", "fiber", "do"} -> [s EXCEPT !.e = PrefixExpr(@, a, tops)]

PrefixStmt(s, a, tops) ==
    IF s.k = "func"
    THEN [s EXCEPT !.name = Rename(@, a, tops),
                   !.body = [i \in DOMAIN @ |-> PrefixSimple(@[i], a, tops)]]
    ELSE PrefixSimple(s, a, tops)

prefix_program(stmts, a) ==
    [i \in DOMAIN stmts |-> PrefixStmt(stmts[i], a, TopLevelNames(stmts))]

-----------------------------------------------------------------------------
(* expand                                                                  *)

Closed == -1   \* the place of a file: no activation that is still there
Activation(f, a) == [file |-> f, at |-> 1, alias |-> a]

Init ==
    /\ text \in Texts
    /\ stack = <<Activation(Main, None)>> /\ outs = <<<<>>>>
    /\ visiting = {} /\ included = {} /\ aliases = {} /\ first = None
    /\ status = "expanding" /\ finished = <<>>
    /\ place = [f \in File |-> Closed] /\ astray = {}

Depth == Len(stack)
Top == stack[Depth]
AtEnd == Top.at > Len(text[Top.file])
Stmt == text[Top.file][Top.at]
Advanced == [stack EXCEPT ![Depth].at = @ + 1]
Including == status = "expanding" /\ ~AtEnd /\ Stmt.k = "include"

\* The innermost activation that will prefix what is included here, or 0.
Aliased == {i \in 1 .. Depth : stack[i].alias # None}
Around == IF Aliased = {} THEN 0 ELSE CHOOSE i \in Aliased : \A j \in Aliased : j <= i

\* An error unwinds every activation.
Fail(error) == status' = error
               /\ UNCHANGED <<text, walk, visiting, included, maps, finished, history>>

FileNotFound == Including /\ Stmt.file = NoFile /\ Fail("missing")
Circular == Including /\ Stmt.file \in visiting /\ Fail("circular")

\* The file cannot be read, or is not UTF-8.
Unreadable == /\ Including /\ Stmt.file \in File \ visiting
              /\ Stmt.alias = None => Stmt.file \notin included
              /\ Fail("unreadable")

\* Mutant: the check for a cycle comes after the one for a repetition.
SkipFirst ==
    /\ Including
    /\ Stmt.file \in File
    /\ Stmt.alias = None /\ Stmt.file \in included
    /\ stack' = Advanced
    /\ astray' = IF place[Stmt.file] = Around THEN astray ELSE astray \cup {Stmt.file}
    /\ UNCHANGED <<text, outs, visiting, included, maps, status, finished, place>>

\* Mutant: the include is looked at again.
SkipInPlace ==
    /\ Including
    /\ Stmt.file \in File \ visiting
    /\ Stmt.alias = None /\ Stmt.file \in included
    /\ UNCHANGED vars

\* `continue`: a file that was expanded without an alias is not expanded
\* without one again.
Skip ==
    /\ Including
    /\ Stmt.file \in File \ visiting
    /\ Stmt.alias = None /\ Stmt.file \in included
    /\ stack' = Advanced
    /\ astray' = IF place[Stmt.file] = Around THEN astray ELSE astray \cup {Stmt.file}
    /\ UNCHANGED <<text, outs, visiting, included, maps, status, finished, place>>

\* Mutant: the alias is inserted when its file has been expanded.
NoteAliasLate(a) ==
    IF a = None \/ a \in aliases THEN UNCHANGED maps
    ELSE UNCHANGED aliases /\ first' = a

\* The alias is known from here on, in every file.
NoteAlias(a) ==
    IF a = None \/ a \in aliases THEN UNCHANGED maps
    ELSE aliases' = aliases \cup {a} /\ first' \in aliases'

\* Mutant: only the files included without an alias are being visited.
NotedPlain(s) == IF s.alias = None THEN visiting \cup {s.file} ELSE visiting
Noted(s) == visiting \cup {s.file}

Enter ==
    /\ Including
    /\ Stmt.file \in File \ visiting
    /\ Stmt.alias = None => Stmt.file \notin included
    /\ included' = IF Stmt.alias = None THEN included \cup {Stmt.file} ELSE included
    /\ visiting' = Noted(Stmt)
    /\ NoteAlias(Stmt.alias)
    /\ stack' = Append(Advanced, Activation(Stmt.file, Stmt.alias))
    /\ outs' = Append(outs, <<>>)
    /\ place' = IF Stmt.alias = None THEN [place EXCEPT ![Stmt.file] = Around] ELSE place
    /\ UNCHANGED <<text, status, finished, astray>>

Collect ==
    /\ status = "expanding" /\ ~AtEnd /\ Stmt.k # "include"
    /\ stack' = Advanced
    /\ outs' = [outs EXCEPT ![Depth] = Append(@, ExpandStmt(Stmt))]
    /\ UNCHANGED <<text, visiting, included, maps, status, finished, history>>

\* What the innermost activation returns, prefixed by its caller.
Returned == IF Top.alias = None THEN outs[Depth] ELSE prefix_program(outs[Depth], Top.alias)
Finish(f) == IF \E i \in DOMAIN finished : finished[i] = f THEN finished ELSE Append(finished, f)

\* Mutant: a file is never taken out of visiting_files.
LeftThere == visiting
Left == visiting \ {Top.file}

Leave ==
    /\ status = "expanding" /\ AtEnd /\ Depth > 1
    /\ visiting' = Left
    /\ stack' = SubSeq(stack, 1, Depth - 1)
    /\ outs' = [SubSeq(outs, 1, Depth - 1) EXCEPT ![Depth - 1] = @ \o Returned]
    /\ finished' = Finish(Top.file)
    /\ place' = [f \in File |-> IF place[f] = Depth THEN Closed ELSE place[f]]
    /\ UNCHANGED <<text, included, maps, status, astray>>

Done ==
    /\ status = "expanding" /\ AtEnd /\ Depth = 1
    /\ status' = "done"
    /\ UNCHANGED <<text, walk, visiting, included, maps, finished, history>>

Next == FileNotFound \/ Circular \/ Unreadable \/ Skip \/ Enter \/ Collect \/ Leave \/ Done
Spec == Init /\ [][Next]_vars /\ WF_vars(Next)

-----------------------------------------------------------------------------
(* Properties                                                              *)

TypeOK ==
    /\ stack \in Seq([file : File, at : Nat \ {0}, alias : Alias \cup {None}])
    /\ Len(outs) = Len(stack)
    /\ visiting \subseteq File /\ included \subseteq File /\ astray \subseteq File
    /\ aliases \subseteq Alias
    /\ first \in IF aliases = {} THEN {None} ELSE aliases
    /\ status \in {"expanding", "done", "missing", "circular", "unreadable"}
    /\ finished \in Seq(File)
    /\ place \in [File -> Int]

IncludesOf(f) == {text[f][i].file : i \in {i \in DOMAIN text[f] : text[f][i].k = "include"}}

\* Every file finishes after all the files it includes, whether they were
\* expanded for it or skipped: the order in which files finish is a
\* topological order of the includes, so that a program that is expanded to
\* its end has no cycle (library_modules.md:117, "cyclic dependencies are
\* detected and rejected").
After(f, n) == \A g \in IncludesOf(f) : \E j \in 1 .. n : finished[j] = g
IncludesFirst ==
    /\ \A i \in DOMAIN finished : After(finished[i], i - 1)
    /\ status = "done" => After(Main, Len(finished))

\* A program is rejected as circular only for a cycle: the file the include
\* names is on the chain of includes that led to it.
Includes(f, g) == g \in IncludesOf(f)
RejectedForCycle ==
    status = "circular" =>
        \E i \in 2 .. Depth :
            /\ Includes(Top.file, stack[i].file)
            /\ \A j \in i .. Depth - 1 : Includes(stack[j].file, stack[j + 1].file)

\* However the includes are chained, no file is being expanded twice at a
\* time: the nesting of expand() is bounded by the number of files.  (The
\* first activation is not noted in visiting_files: the program's own file
\* may be entered once more.)
NoFileTwice ==
    \A i, j \in 2 .. Depth : stack[i].file = stack[j].file => i = j

\* The expansion comes to an end for every graph of includes.
Terminates == <>(status # "expanding")

\* The expanded program.
program == outs[1]
Declared(n, i) == Declares(program[i]) /\ program[i].name = n
\* A use in a scope with these parameters refers to what it means: the name
\* is declared, by that declaration or copies of it only, and before
\* statement `before`.
RefersTo(e, params, before) ==
    IF e.name \in params THEN e.means = Parameter
    ELSE /\ \E i \in 1 .. before : i \in DOMAIN program /\ Declared(e.name, i)
         /\ \A i \in DOMAIN program : Declared(e.name, i) => program[i].origin = e.means

UseResolves(e, params, before) == e.means = None \/ RefersTo(e, params, before)
UsesOf(s) == {s.e} \cup (IF s.k = "set" THEN {[name |-> s.name, means |-> s.means]} ELSE {})
Uses(s) == IF s.k = "func" THEN UNION {UsesOf(s.body[i]) : i \in DOMAIN s.body} ELSE UsesOf(s)
Scope(s) == IF s.k = "func" THEN s.params ELSE {}
\* Functions are known everywhere (pre_scan_stmts), and run after the whole
\* program has been checked; the other statements see what is before them.
Bound(i) == IF program[i].k = "func" THEN Len(program) ELSE i - 1

\* The files astray and those they include, whose names come with theirs.
WithIncludes(S) == \A f \in S : IncludesOf(f) \cap File \subseteq S
WithAstray == {f \in File : \A S \in SUBSET File : astray \subseteq S /\ WithIncludes(S) => f \in S}

\* When a program has been expanded every name in it refers to the declaration
\* it referred to in its own file, with or without aliases and through any
\* chain of includes.  Excepted are names of files that were skipped (or came
\* with one that was) where other aliases apply than where their statements are.
NamesResolve ==
    status = "done" =>
        \A i \in DOMAIN program : \A e \in Uses(program[i]) :
            \/ UseResolves(e, Scope(program[i]), Bound(i))
            \/ e.means.file \in WithAstray

\* When names do: the text t, if these are the namespaces of its files and
\* the parameters of the functions in them.
\*
\* A namespace is a function from names to what they mean.  It has what the
\* file declares and, under the alias, what is in the namespaces of the files
\* it includes, and no name has two meanings.  Nothing that a file declares
\* begins with an alias, and no parameter in it has a name of its namespace.
Into(name, a) == IF a = None THEN name ELSE Prefixed(name, a)
Gives(s, names) ==
    IF s.k = "include"
    THEN {Into(q, s.alias) : q \in IF s.file \in File THEN DOMAIN names[s.file] ELSE {}}
    ELSE IF Declares(s) THEN {s.name} ELSE {}
GivenBefore(q, stmts, k, names) == \E i \in 1 .. k - 1 : q \in Gives(stmts[i], names)

HasNames(f, t, names, params) ==
    /\ DOMAIN names[f] \subseteq Name /\ DOMAIN names[f] \cap params[f] = {}
    /\ \A q \in DOMAIN names[f] : GivenBefore(q, t[f], Len(t[f]) + 1, names)
    /\ \A k \in DOMAIN t[f] : LET s == t[f][k] IN
          /\ s.k = "include" /\ s.file \in File =>
                /\ \A q \in DOMAIN names[s.file] :
                      /\ Into(q, s.alias) \in DOMAIN names[f]
                      /\ names[f][Into(q, s.alias)] = names[s.file][q]
                /\ params[s.file] \subseteq params[f]
          /\ Declares(s) => /\ s.name \in DOMAIN names[f] /\ s.name[1] \notin Alias
                            /\ names[f][s.name] = s.origin /\ s.origin.file = f
          /\ s.k = "func" => s.params \subseteq params[f]

\* The name that an expression uses, as its file's namespace has it: an alias
\* is written with a member.
Whole(e) ==
    IF e.inside = "choice" \/ e.name[1] \notin Alias THEN e.name
    ELSE IF Method(e) /\ Len(e.rest) = 1 /\ Len(e.name) = 1 THEN e.name \o e.rest
    ELSE e.name \o Members(e)

\* What a statement of f uses is a parameter of its function or in the
\* namespace of f, given by a statement before it; functions may use what
\* comes later, but not under an alias.  It is not in a literal that the
\* expander does not look into.
Uses1(s) == {[name |-> IF s.k = "fiber" THEN s.e.name ELSE Whole(s.e), means |-> s.e.means]}
            \cup (IF s.k = "set" THEN {[name |-> s.name, means |-> s.means]} ELSE {})
MeansThat(u, f, k, t, names) ==
    \/ u.means = None
    \/ /\ u.means = Parameter /\ t[f][k].k = "func" /\ u.name \in t[f][k].params
       /\ u.name[1] \notin Alias
    \/ /\ u.name \in DOMAIN names[f] /\ names[f][u.name] = u.means
       /\ \/ GivenBefore(u.name, t[f], k, names)
          \/ t[f][k].k = "func" /\ u.name[1] \notin Alias
Simples(s) == IF s.k = "func" THEN {s.body[i] : i \in DOMAIN s.body} ELSE {s}
UsesNames(f, t, names) ==
    \A k \in {k \in DOMAIN t[f] : t[f][k].k # "include"} : \A s \in Simples(t[f][k]) :
        /\ \A u \in Uses1(s) : MeansThat(u, f, k, t, names)
        /\ s.e.means # None => /\ s.e.inside \notin {"braces", "opaque"}
                               /\ s.e.name \notin Constant

WellNamed(t, names, params) ==
    \A f \in File : HasNames(f, t, names, params) /\ UsesNames(f, t, names)

PlainlyIncludes(f) ==
    {text[f][i].file :
        i \in {i \in DOMAIN text[f] : text[f][i].k = "include" /\ text[f][i].alias = None}}

\* library_modules.md:118, "Without an alias -- all symbols are available
\* directly in the current namespace": what a file declares that the program
\* itself includes without an alias has its own name in the expanded program.
SymbolsAvailable ==
    status = "done" =>
        \A f \in PlainlyIncludes(Main) : \A s \in {text[f][i] : i \in DOMAIN text[f]} :
            Declares(s) => \E i \in DOMAIN program : /\ Declared(s.name, i)
                                                     /\ program[i].origin = s.origin
=============================================================================
