--------------------------- MODULE ExpanderProofs ---------------------------
(***************************************************************************)
(* Proofs about Expander, for every set of files and aliases and every     *)
(* contents of the files: types, the nesting of files, and that the        *)
(* cycle check rejects every cycle and nothing else, and that names go on  *)
(* referring to what they did.                                             *)
(*                                                                         *)
(* WalkInv describes the stack: visiting_files is the set of files above   *)
(* the first activation, none of them twice, and each was pushed by the    *)
(* include its caller has just gone past.  OrderInv describes what has     *)
(* been dealt with: the file of every include that an activation has gone  *)
(* past is finished, but for the one it waits for; a file in               *)
(* included_files is finished or being expanded.                           *)
(*                                                                         *)
(* NamesInv, in the second half, says what the names in the statements     *)
(* collected so far refer to while they are on their way to the program:   *)
(* each has, at every moment, the name it has in the namespace of the file *)
(* whose activation holds it.                                              *)
(***************************************************************************)
EXTENDS Expander, SequenceTheorems, WellFoundedInduction, TLAPS

Act == [file : File, at : Nat \ {0}, alias : Alias \cup {None}]

IncludeAt(f, k) == k \in DOMAIN text[f] /\ text[f][k].k = "include"
Finished(f) == \E j \in DOMAIN finished : finished[j] = f

WalkInv ==
    /\ text \in Texts
    /\ stack \in Seq(Act) /\ Len(stack) >= 1
    /\ stack[1].file = Main
    /\ visiting = {stack[i].file : i \in 2 .. Depth}
    /\ NoFileTwice
    /\ \A i \in 1 .. Depth - 1 :
          /\ IncludeAt(stack[i].file, stack[i].at - 1)
          /\ text[stack[i].file][stack[i].at - 1].file = stack[i + 1].file

Passed == \A i \in 1 .. Depth : \A k \in 1 .. stack[i].at - 1 :
             IncludeAt(stack[i].file, k) =>
                \/ Finished(text[stack[i].file][k].file)
                \/ i < Depth /\ k = stack[i].at - 1

OrderInv ==
    /\ finished \in Seq(File)
    /\ \A f \in included : Finished(f) \/ f \in visiting
    /\ Passed
    /\ IncludesFirst

IsSeq(s) == \E S : s \in Seq(S)

RestInv ==
    /\ IsSeq(outs) /\ Len(outs) = Len(stack)
    /\ included \subseteq File /\ astray \subseteq File
    /\ aliases \subseteq Alias
    /\ first \in IF aliases = {} THEN {None} ELSE aliases
    /\ status \in {"expanding", "done", "missing", "circular", "unreadable"}
    /\ place \in [File -> Int]

IInv == WalkInv /\ OrderInv /\ RestInv /\ RejectedForCycle

-----------------------------------------------------------------------------
(* The text, and the stack after a statement.                              *)

\* What WalkInv says of the types of the text, the stack and an include.
LEMMA TextFacts ==
  ASSUME WalkInv
  PROVE  /\ \A f \in File : text[f] \in Seq(Statement)
         /\ \A i \in 1 .. Depth : stack[i] \in Act
         /\ Depth \in Nat \ {0}
         /\ Top \in Act
         /\ \A f \in File, k \in Nat : IncludeAt(f, k) =>
               /\ text[f][k].file \in File \cup {NoFile}
               /\ text[f][k].alias \in Alias \cup {None}
  <1>1. text \in [File -> Seq(Statement)]
    BY ExpanderAssumption DEF WalkInv
  <1>2. \A i \in 1 .. Depth : stack[i] \in Act
    BY DEF WalkInv, Depth
  <1>3. Depth \in Nat \ {0} /\ Top \in Act
    BY <1>2 DEF WalkInv, Depth, Top
  <1>4. ASSUME NEW f \in File, NEW k \in Nat, IncludeAt(f, k)
        PROVE  /\ text[f][k].file \in File \cup {NoFile}
               /\ text[f][k].alias \in Alias \cup {None}
    <2>1. text[f][k] \in Statement
      BY <1>1, <1>4 DEF IncludeAt
    <2> QED
      BY <2>1, <1>4 DEF IncludeAt, Statement, Simple, Function, Include
  <1> QED
    BY <1>1, <1>2, <1>3, <1>4

\* Going past a statement changes nothing of the stack but the place of the
\* innermost activation.
LEMMA AdvancedFacts ==
  ASSUME WalkInv
  PROVE  /\ Advanced \in Seq(Act) /\ Len(Advanced) = Depth
         /\ \A i \in 1 .. Depth : Advanced[i].file = stack[i].file
         /\ \A i \in 1 .. Depth : Advanced[i].at = IF i = Depth THEN stack[i].at + 1
                                                               ELSE stack[i].at
  <1>1. \A i \in 1 .. Depth : stack[i] \in Act
    BY TextFacts
  <1>2. Depth \in 1 .. Depth /\ DOMAIN stack = 1 .. Depth
    BY TextFacts DEF WalkInv, Depth
  <1>3. [stack[Depth] EXCEPT !.at = @ + 1] \in Act
    BY <1>1, <1>2 DEF Act
  <1>4. Advanced = [stack EXCEPT ![Depth] = [stack[Depth] EXCEPT !.at = @ + 1]]
    BY DEF Advanced
  <1>5. Advanced \in Seq(Act) /\ Len(Advanced) = Depth
    BY <1>2, <1>3, <1>4 DEF WalkInv, Depth
  <1>6. ASSUME NEW i \in 1 .. Depth
        PROVE  /\ Advanced[i].file = stack[i].file
               /\ Advanced[i].at = IF i = Depth THEN stack[i].at + 1 ELSE stack[i].at
    BY <1>1, <1>2, <1>4 DEF Act
  <1> QED
    BY <1>5, <1>6

-----------------------------------------------------------------------------
(* The three things a step does to the stack.                              *)

Places == \A i \in 1 .. Depth :
             /\ stack'[i].file = stack[i].file
             /\ stack'[i].at = IF i = Depth THEN stack[i].at + 1 ELSE stack[i].at
Moves == stack' \in Seq(Act) /\ Len(stack') = Depth /\ Places
Pushes(f) == /\ stack' \in Seq(Act) /\ Len(stack') = Depth + 1 /\ Places
             /\ stack'[Depth + 1].file = f /\ stack'[Depth + 1].at = 1
Pops == /\ stack' \in Seq(Act) /\ Len(stack') = Depth - 1
        /\ \A i \in 1 .. Depth - 1 : stack'[i] = stack[i]

\* Skip and Collect move on.
LEMMA AdvanceMoves ==
  ASSUME WalkInv, stack' = Advanced
  PROVE  Moves
  BY AdvancedFacts DEF Moves, Places

\* Enter pushes the file of the include.
LEMMA EnterPushes ==
  ASSUME WalkInv, NEW f \in File, NEW a \in Alias \cup {None},
         stack' = Append(Advanced, Activation(f, a))
  PROVE  Pushes(f)
  <1>1. Activation(f, a) \in Act /\ Activation(f, a).file = f /\ Activation(f, a).at = 1
    BY DEF Activation, Act
  <1>2. Advanced \in Seq(Act) /\ Len(Advanced) = Depth /\ Depth \in Nat
    BY AdvancedFacts, TextFacts
  <1>3. /\ stack' \in Seq(Act) /\ Len(stack') = Depth + 1
        /\ \A i \in 1 .. Depth : stack'[i] = Advanced[i]
        /\ stack'[Depth + 1] = Activation(f, a)
    BY <1>1, <1>2, AppendProperties
  <1> QED
    BY <1>1, <1>3, AdvancedFacts DEF Pushes, Places

\* Leave pops.
LEMMA LeavePops ==
  ASSUME WalkInv, Depth > 1, stack' = SubSeq(stack, 1, Depth - 1)
  PROVE  Pops
  <1>1. stack \in Seq(Act) /\ Depth \in Nat /\ Depth - 1 \in 1 .. Len(stack)
    BY TextFacts DEF WalkInv, Depth
  <1>2. /\ stack' \in Seq(Act) /\ Len(stack') = Depth - 1
        /\ \A i \in 1 .. Depth - 1 : stack'[i] = stack[i]
    BY <1>1, SubSeqProperties DEF Depth
  <1> QED
    BY <1>2 DEF Pops

-----------------------------------------------------------------------------
(* WalkInv                                                                 *)

\* A statement that is gone past leaves the files of the stack as they are.
LEMMA WalkMoves ==
  ASSUME WalkInv, Moves, UNCHANGED <<text, visiting>>
  PROVE  WalkInv'
  <1>1. Depth' = Depth /\ Depth \in Nat \ {0}
    BY TextFacts DEF Moves, Depth
  <1>2. stack' \in Seq(Act) /\ Len(stack') >= 1 /\ stack'[1].file = Main
    BY <1>1 DEF Moves, Places, WalkInv, Depth
  <1>3. visiting' = {stack'[i].file : i \in 2 .. Depth'}
    <2>1. \A i \in 2 .. Depth : stack'[i].file = stack[i].file
      BY <1>1 DEF Moves, Places
    <2>2. visiting' = {stack[i].file : i \in 2 .. Depth}
      BY DEF WalkInv
    <2> QED
      BY <1>1, <2>1, <2>2
  <1>4. NoFileTwice'
    BY <1>1 DEF Moves, Places, WalkInv, NoFileTwice
  <1>5. ASSUME NEW i \in 1 .. Depth' - 1
        PROVE  /\ IncludeAt(stack[i].file, stack[i].at - 1)'
               /\ text'[stack'[i].file][stack'[i].at - 1].file = stack'[i + 1].file
    <2>1. i \in 1 .. Depth - 1 /\ i \in 1 .. Depth /\ i + 1 \in 1 .. Depth /\ i # Depth
      BY <1>1
    <2>2. /\ stack'[i].file = stack[i].file /\ stack'[i].at = stack[i].at
          /\ stack'[i + 1].file = stack[i + 1].file
      BY <2>1 DEF Moves, Places
    <2> QED
      BY <2>1, <2>2 DEF WalkInv, IncludeAt
  <1> QED
    BY <1>2, <1>3, <1>4, <1>5 DEF WalkInv

\* A file that is pushed is not there yet, and was named by its caller.
LEMMA WalkPushes ==
  ASSUME WalkInv, NEW f \in File \ visiting, Pushes(f),
         IncludeAt(Top.file, Top.at), Stmt.file = f,
         text' = text, visiting' = visiting \cup {f}
  PROVE  WalkInv'
  <1>1. Depth' = Depth + 1 /\ Depth \in Nat \ {0}
    BY TextFacts DEF Pushes, Depth
  <1>2. stack' \in Seq(Act) /\ Len(stack') >= 1 /\ stack'[1].file = Main
    BY <1>1 DEF Pushes, Places, WalkInv, Depth
  <1>3. \A i \in 2 .. Depth : stack'[i].file = stack[i].file /\ stack[i].file \in visiting
    <2>1. \A i \in 2 .. Depth : stack'[i].file = stack[i].file
      BY <1>1 DEF Pushes, Places
    <2>2. visiting = {stack[i].file : i \in 2 .. Depth}
      BY DEF WalkInv
    <2> QED
      BY <2>1, <2>2
  <1>4. stack'[Depth + 1].file = f
    BY DEF Pushes
  <1>5. 2 .. Depth' = (2 .. Depth) \cup {Depth + 1}
    BY <1>1
  <1>6. visiting' = {stack'[i].file : i \in 2 .. Depth'}
    <2>1. visiting = {stack[i].file : i \in 2 .. Depth}
      BY DEF WalkInv
    <2> QED
      BY <1>3, <1>4, <1>5, <2>1
  <1>7. NoFileTwice'
    <2> SUFFICES ASSUME NEW i \in 2 .. Depth', NEW j \in 2 .. Depth',
                        stack'[i].file = stack'[j].file
                 PROVE  i = j
      BY DEF NoFileTwice
    <2>1. CASE i \in 2 .. Depth /\ j \in 2 .. Depth
      BY <1>3, <2>1 DEF WalkInv, NoFileTwice
    <2>2. CASE i = Depth + 1 \/ j = Depth + 1
      BY <1>3, <1>4, <1>5, <2>2
    <2> QED
      BY <1>5, <2>1, <2>2
  <1>8. ASSUME NEW i \in 1 .. Depth' - 1
        PROVE  /\ IncludeAt(stack[i].file, stack[i].at - 1)'
               /\ text'[stack'[i].file][stack'[i].at - 1].file = stack'[i + 1].file
    <2>1. i \in 1 .. Depth
      BY <1>1
    <2>2. CASE i = Depth
      <3>1. stack'[i].file = Top.file /\ stack'[i].at - 1 = Top.at
        <4>1. Top = stack[i] /\ Top.at \in Nat
          BY <2>2, TextFacts DEF Top, Act
        <4>2. stack'[i].file = stack[i].file /\ stack'[i].at = stack[i].at + 1
          BY <2>1, <2>2 DEF Pushes, Places
        <4> QED
          BY <4>1, <4>2
      <3> QED
        BY <2>2, <3>1, <1>4 DEF IncludeAt, Stmt
    <2>3. CASE i # Depth
      <3>1. i \in 1 .. Depth - 1 /\ i + 1 \in 1 .. Depth
        BY <1>1, <2>1, <2>3
      <3>2. /\ stack'[i].file = stack[i].file /\ stack'[i].at = stack[i].at
            /\ stack'[i + 1].file = stack[i + 1].file
        BY <2>1, <2>3, <3>1 DEF Pushes, Places
      <3> QED
        BY <3>1, <3>2 DEF WalkInv, IncludeAt
    <2> QED
      BY <2>2, <2>3
  <1> QED
    BY <1>2, <1>6, <1>7, <1>8 DEF WalkInv

\* The file that is popped was there once only.
LEMMA WalkPops ==
  ASSUME WalkInv, Depth > 1, Pops, text' = text, visiting' = visiting \ {Top.file}
  PROVE  WalkInv'
  <1>1. Depth' = Depth - 1 /\ Depth \in Nat \ {0}
    BY TextFacts DEF Pops, Depth
  <1>2. stack' \in Seq(Act) /\ Len(stack') >= 1 /\ stack'[1].file = Main
    BY <1>1 DEF Pops, WalkInv, Depth
  <1>3. visiting' = {stack'[i].file : i \in 2 .. Depth'}
    <2>1. visiting = {stack[i].file : i \in 2 .. Depth}
      BY DEF WalkInv
    <2>2. \A i \in 2 .. Depth - 1 : stack'[i] = stack[i] /\ stack[i].file # Top.file
      BY <1>1 DEF Pops, WalkInv, NoFileTwice, Top
    <2>3. 2 .. Depth = (2 .. Depth - 1) \cup {Depth} /\ stack[Depth].file = Top.file
      BY <1>1 DEF Top
    <2> QED
      BY <1>1, <2>1, <2>2, <2>3
  <1>4. NoFileTwice'
    BY <1>1 DEF Pops, WalkInv, NoFileTwice
  <1>5. ASSUME NEW i \in 1 .. Depth' - 1
        PROVE  /\ IncludeAt(stack[i].file, stack[i].at - 1)'
               /\ text'[stack'[i].file][stack'[i].at - 1].file = stack'[i + 1].file
    <2>1. i \in 1 .. Depth - 1 /\ i + 1 \in 1 .. Depth - 1
      BY <1>1
    <2>2. stack'[i] = stack[i] /\ stack'[i + 1] = stack[i + 1]
      BY <2>1 DEF Pops
    <2> QED
      BY <2>1, <2>2 DEF WalkInv, IncludeAt
  <1> QED
    BY <1>2, <1>3, <1>4, <1>5 DEF WalkInv

-----------------------------------------------------------------------------
(* OrderInv                                                                *)

\* An activation that has gone past all its statements has only finished
\* files behind it.
LEMMA AllPassed ==
  ASSUME WalkInv, OrderInv, AtEnd
  PROVE  After(Top.file, Len(finished))
  <1>1. /\ Depth \in Nat \ {0} /\ Top \in Act /\ Top = stack[Depth]
        /\ text[Top.file] \in Seq(Statement)
    BY TextFacts DEF Top, Act
  <1> SUFFICES ASSUME NEW g \in IncludesOf(Top.file)
               PROVE  \E j \in 1 .. Len(finished) : finished[j] = g
    BY DEF After
  <1>2. PICK k \in DOMAIN text[Top.file] : /\ text[Top.file][k].k = "include"
                                           /\ text[Top.file][k].file = g
    BY DEF IncludesOf
  <1>3. k \in 1 .. Top.at - 1 /\ IncludeAt(Top.file, k)
    BY <1>1, <1>2 DEF AtEnd, IncludeAt, Act
  <1>4. Finished(g)
    BY <1>1, <1>2, <1>3 DEF OrderInv, Passed
  <1> QED
    BY <1>4 DEF Finished, OrderInv

\* The order in which files finish is as good as it was.
LEMMA FirstKept ==
  ASSUME IncludesFirst, UNCHANGED <<text, finished>>,
         status' = "done" => After(Main, Len(finished))
  PROVE  IncludesFirst'
  <1>1. ASSUME NEW i \in DOMAIN finished PROVE After(finished[i], i - 1)'
    <2>1. finished' = finished /\ text' = text
      OBVIOUS
    <2>2. After(finished[i], i - 1)
      BY DEF IncludesFirst
    <2> QED
      BY <2>1, <2>2 DEF After, IncludesOf
  <1>2. status' = "done" => After(Main, Len(finished))'
    <2>1. Len(finished)' = Len(finished) /\ IncludesOf(Main)' = IncludesOf(Main)
      BY DEF IncludesOf
    <2> QED
      BY <2>1 DEF After
  <1> QED
    BY <1>1, <1>2 DEF IncludesFirst

\* A step that finishes nothing keeps that order.
LEMMA FirstUnchanged ==
  ASSUME IncludesFirst, UNCHANGED <<text, finished, status>>
  PROVE  IncludesFirst'
  BY DEF IncludesFirst, After, IncludesOf

\* A file that finishes after all it includes is put last, unless it is there.
LEMMA FirstExtended ==
  ASSUME IncludesFirst, finished \in Seq(File), text' = text, status' = "expanding",
         NEW g \in File, After(g, Len(finished)), finished' = Append(finished, g)
  PROVE  IncludesFirst'
  <1>1. /\ DOMAIN finished = 1 .. Len(finished) /\ Len(finished) \in Nat
        /\ DOMAIN finished' = 1 .. Len(finished) + 1
        /\ \A i \in 1 .. Len(finished) : finished'[i] = finished[i]
        /\ finished'[Len(finished) + 1] = g
    BY AppendProperties
  <1>2. ASSUME NEW i \in DOMAIN finished', NEW k \in DOMAIN text[finished'[i]],
               text[finished'[i]][k].k = "include"
        PROVE  \E j \in 1 .. i - 1 : finished'[j] = text[finished'[i]][k].file
    <2> DEFINE h == text[finished'[i]][k].file
    <2>1. h \in IncludesOf(finished'[i])
      BY <1>2 DEF IncludesOf
    <2>2. CASE i \in 1 .. Len(finished)
      <3>1. PICK j \in 1 .. i - 1 : finished[j] = h
        BY <1>1, <2>1, <2>2 DEF IncludesFirst, After
      <3> QED
        BY <1>1, <2>2, <3>1
    <2>3. CASE i = Len(finished) + 1
      <3>1. PICK j \in 1 .. Len(finished) : finished[j] = h
        BY <1>1, <2>1, <2>3 DEF After
      <3> QED
        BY <1>1, <2>3, <3>1
    <2> QED
      BY <1>1, <2>2, <2>3
  <1> QED
    BY <1>2 DEF IncludesFirst, After, IncludesOf

\* A statement that is gone past is no include, or one of a finished file.
LEMMA OrderMoves ==
  ASSUME WalkInv, OrderInv, Moves, UNCHANGED <<text, visiting, included, finished, status>>,
         IncludeAt(Top.file, Top.at) => Finished(Stmt.file)
  PROVE  OrderInv'
  <1>1. Depth' = Depth /\ Depth \in Nat \ {0}
    BY TextFacts DEF Moves, Depth
  <1>2. ASSUME NEW i \in 1 .. Depth', NEW k \in 1 .. stack'[i].at - 1,
               IncludeAt(stack[i].file, k)'
        PROVE  Finished(text[stack[i].file][k].file)' \/ (i < Depth' /\ k = stack'[i].at - 1)
    <2>1. /\ i \in 1 .. Depth /\ stack[i] \in Act /\ stack'[i].file = stack[i].file
          /\ stack'[i].at = IF i = Depth THEN stack[i].at + 1 ELSE stack[i].at
      BY <1>1, TextFacts DEF Moves, Places
    <2>2. stack[i].at \in Nat /\ IncludeAt(stack[i].file, k)
      BY <1>2, <2>1 DEF Act, IncludeAt
    <2>3. CASE k \in 1 .. stack[i].at - 1
      <3>1. Finished(text[stack[i].file][k].file) \/ (i < Depth /\ k = stack[i].at - 1)
        BY <2>1, <2>2, <2>3 DEF OrderInv, Passed
      <3> QED
        BY <1>1, <2>1, <3>1 DEF Finished
    <2>4. CASE i = Depth /\ k = stack[i].at
      BY <2>1, <2>2, <2>4 DEF Top, Stmt, Finished
    <2> QED
      BY <2>1, <2>2, <2>3, <2>4
  <1>3. Passed'
    BY <1>2 DEF Passed
  <1>4. IncludesFirst'
    BY FirstUnchanged DEF OrderInv
  <1> QED
    BY <1>3, <1>4 DEF OrderInv, Finished

\* The include that pushes a file is the one its activation waits for.
LEMMA OrderPushes ==
  ASSUME WalkInv, OrderInv, NEW f \in File \ visiting, Pushes(f),
         UNCHANGED <<text, finished, status>>, visiting' = visiting \cup {f},
         included' \subseteq included \cup {f}
  PROVE  OrderInv'
  <1>1. Depth' = Depth + 1 /\ Depth \in Nat \ {0}
    BY TextFacts DEF Pushes, Depth
  <1>2. ASSUME NEW i \in 1 .. Depth', NEW k \in 1 .. stack'[i].at - 1,
               IncludeAt(stack[i].file, k)'
        PROVE  Finished(text[stack[i].file][k].file)' \/ (i < Depth' /\ k = stack'[i].at - 1)
    <2>1. CASE i = Depth + 1
      BY <2>1 DEF Pushes
    <2>2. CASE i \in 1 .. Depth
      <3>1. /\ stack[i] \in Act /\ stack'[i].file = stack[i].file
            /\ stack'[i].at = IF i = Depth THEN stack[i].at + 1 ELSE stack[i].at
        BY <2>2, TextFacts DEF Pushes, Places
      <3>2. stack[i].at \in Nat /\ IncludeAt(stack[i].file, k)
        BY <1>2, <3>1 DEF Act, IncludeAt
      <3>3. CASE k \in 1 .. stack[i].at - 1
        <4>1. Finished(text[stack[i].file][k].file) \/ (i < Depth /\ k = stack[i].at - 1)
          BY <2>2, <3>2, <3>3 DEF OrderInv, Passed
        <4> QED
          BY <1>1, <3>1, <4>1 DEF Finished
      <3>4. CASE i = Depth /\ k = stack[i].at
        BY <1>1, <3>1, <3>2, <3>4
      <3> QED
        BY <3>1, <3>2, <3>3, <3>4
    <2> QED
      BY <1>1, <2>1, <2>2
  <1>3. Passed'
    BY <1>2 DEF Passed
  <1>4. IncludesFirst'
    BY FirstUnchanged DEF OrderInv
  <1> QED
    BY <1>3, <1>4 DEF OrderInv, Finished

\* A file that finishes does so after all it includes.
LEMMA OrderPops ==
  ASSUME WalkInv, OrderInv, Depth > 1, AtEnd, Pops, UNCHANGED <<text, included>>,
         status = "expanding", status' = status,
         visiting' = visiting \ {Top.file}, finished' = Finish(Top.file)
  PROVE  OrderInv'
  <1>1. Depth' = Depth - 1 /\ Depth \in Nat \ {0} /\ Top \in Act /\ Top.file \in File
    BY TextFacts DEF Pops, Depth, Act
  <1>2. finished \in Seq(File)
    BY DEF OrderInv
  <1>3. PICK g \in File : g = Top.file
    BY <1>1
  <1>4. /\ finished' \in Seq(File)
        /\ \A j \in DOMAIN finished : j \in DOMAIN finished' /\ finished'[j] = finished[j]
        /\ Finished(g)'
        /\ finished' = finished \/ finished' = Append(finished, g)
    <2>1. CASE Finished(g)
      BY <1>2, <1>3, <2>1 DEF Finish, Finished
    <2>2. CASE ~Finished(g)
      <3>1. finished' = Append(finished, g)
        BY <1>3, <2>2 DEF Finish, Finished
      <3>2. /\ finished' \in Seq(File) /\ DOMAIN finished' = 1 .. Len(finished) + 1
            /\ \A j \in 1 .. Len(finished) : finished'[j] = finished[j]
            /\ finished'[Len(finished) + 1] = g
            /\ DOMAIN finished = 1 .. Len(finished) /\ Len(finished) \in Nat
        BY <1>2, <3>1, AppendProperties
      <3>3. Finished(g)'
        BY <3>2 DEF Finished
      <3> QED
        BY <3>1, <3>2, <3>3
    <2> QED
      BY <2>1, <2>2
  <1>5. \A f : Finished(f) => Finished(f)'
    BY <1>4 DEF Finished
  <1>6. ASSUME NEW f \in included'
        PROVE  Finished(f)' \/ f \in visiting'
    <2>1. Finished(f) \/ f \in visiting
      BY DEF OrderInv
    <2> QED
      BY <1>3, <1>4, <1>5, <2>1
  <1>7. ASSUME NEW i \in 1 .. Depth', NEW k \in 1 .. stack'[i].at - 1,
               IncludeAt(stack[i].file, k)'
        PROVE  Finished(text[stack[i].file][k].file)' \/ (i < Depth' /\ k = stack'[i].at - 1)
    <2>1. i \in 1 .. Depth - 1 /\ i \in 1 .. Depth /\ stack'[i] = stack[i]
      BY <1>1 DEF Pops
    <2>2. IncludeAt(stack[i].file, k) /\ k \in 1 .. stack[i].at - 1
      BY <1>7, <2>1 DEF IncludeAt
    <2>3. Finished(text[stack[i].file][k].file) \/ k = stack[i].at - 1
      BY <2>1, <2>2 DEF OrderInv, Passed
    <2>4. CASE Finished(text[stack[i].file][k].file)
      BY <1>5, <2>1, <2>4
    <2>5. CASE k = stack[i].at - 1 /\ i = Depth - 1
      <3>1. text'[stack'[i].file][k].file = g
        BY <1>1, <1>3, <2>1, <2>5 DEF WalkInv, Top
      <3> QED
        BY <1>4, <3>1 DEF Finished
    <2>6. CASE k = stack[i].at - 1 /\ i < Depth - 1
      BY <1>1, <2>1, <2>6
    <2>7. i = Depth - 1 \/ i < Depth - 1
      BY <1>1, <2>1
    <2> QED
      BY <2>3, <2>4, <2>5, <2>6, <2>7
  <1>8. Passed'
    BY <1>7 DEF Passed
  <1>9. IncludesFirst'
    <2>1. CASE finished' = finished
      BY <2>1, FirstUnchanged DEF OrderInv
    <2>2. CASE finished' = Append(finished, g)
      <3>1. After(g, Len(finished))
        BY <1>3, AllPassed
      <3> QED
        BY <1>2, <2>2, <3>1, FirstExtended DEF OrderInv
    <2> QED
      BY <1>4, <2>1, <2>2
  <1> QED
    BY <1>4, <1>6, <1>8, <1>9 DEF OrderInv

-----------------------------------------------------------------------------
(* RestInv                                                                 *)

\* The innermost activation with an alias, if there is one.
LEMMA AroundFacts ==
  ASSUME WalkInv
  PROVE  /\ Around \in 0 .. Depth /\ (Around # 0 => stack[Around].alias # None)
         /\ \A x \in Around + 1 .. Depth : stack[x].alias = None
  <1>1. Depth \in Nat
    BY TextFacts
  <1>2. CASE Aliased = {}
    <2>1. Around = 0 /\ \A x \in 1 .. Depth : stack[x].alias = None
      BY <1>2 DEF Around, Aliased
    <2> QED
      BY <1>1, <2>1
  <1>3. CASE Aliased # {}
    <2> DEFINE Outer == {Depth - i : i \in Aliased}
    <2>1. Outer # {} /\ Outer \subseteq Nat
      BY <1>1, <1>3 DEF Aliased
    <2>2. PICK m \in Outer : \A n \in Outer : ~(<<n, m>> \in OpToRel(<, Nat))
      <3> HIDE DEF Outer
      <3> QED
        BY <2>1, NatLessThanWellFounded, WFMin
    <2>3. PICK i \in Aliased : m = Depth - i
      BY <2>2
    <2>4. \A j \in Aliased : j <= i
      <3> SUFFICES ASSUME NEW j \in Aliased, ~(j <= i) PROVE FALSE
        OBVIOUS
      <3>1. i \in 1 .. Depth /\ j \in 1 .. Depth /\ Depth - j \in Outer
        BY <2>3 DEF Aliased
      <3>2. Depth - j < m /\ Depth - j \in Nat /\ m \in Nat
        BY <1>1, <2>3, <3>1
      <3> QED
        BY <2>2, <3>1, <3>2 DEF OpToRel
    <2>5. Around \in Aliased /\ \A j \in Aliased : j <= Around
      BY <1>3, <2>4 DEF Around
    <2>6. PICK n \in Aliased : n = Around /\ \A j \in Aliased : j <= n
      BY <2>5
    <2>7. n \in 1 .. Depth /\ stack[n].alias # None
      BY <2>6 DEF Aliased
    <2>8. ASSUME NEW x \in n + 1 .. Depth PROVE stack[x].alias = None
      BY <1>1, <2>6, <2>7 DEF Aliased
    <2> QED
      BY <1>1, <2>6, <2>7, <2>8
  <1> QED
    BY <1>2, <1>3

\* What the three kinds of steps do to a sequence, whatever it holds.
LEMMA SeqSteps ==
  ASSUME NEW s, IsSeq(s), NEW x
  PROVE  /\ IsSeq(Append(s, x)) /\ Len(Append(s, x)) = Len(s) + 1
         /\ \A n \in 1 .. Len(s) : IsSeq([s EXCEPT ![n] = x]) /\ Len([s EXCEPT ![n] = x]) = Len(s)
         /\ \A n \in 1 .. Len(s) : IsSeq(SubSeq(s, 1, n)) /\ Len(SubSeq(s, 1, n)) = n
  <1>1. PICK S : s \in Seq(S)
    BY DEF IsSeq
  <1> DEFINE T == S \cup {x}
  <1>2. s \in Seq(T) /\ x \in T
    <2>1. \A n \in 1 .. Len(s) : s[n] \in T
      BY <1>1
    <2> QED
      BY <1>1, <2>1, SeqDef
  <1> HIDE DEF T
  <1>3. Append(s, x) \in Seq(T) /\ Len(Append(s, x)) = Len(s) + 1
    BY <1>2, AppendProperties
  <1>4. ASSUME NEW n \in 1 .. Len(s)
        PROVE  [s EXCEPT ![n] = x] \in Seq(T) /\ Len([s EXCEPT ![n] = x]) = Len(s)
    BY <1>2, ExceptSeq
  <1>5. ASSUME NEW n \in 1 .. Len(s)
        PROVE  SubSeq(s, 1, n) \in Seq(T) /\ Len(SubSeq(s, 1, n)) = n
    BY <1>2, SubSeqProperties
  <1> QED
    BY <1>3, <1>4, <1>5 DEF IsSeq

-----------------------------------------------------------------------------
(* The steps                                                               *)

\* An error leaves everything but the status as it is.
LEMMA FailKeeps ==
  ASSUME IInv, NEW error \in {"missing", "circular", "unreadable"}, Fail(error),
         error = "circular" => RejectedForCycle'
  PROVE  IInv'
  <1>1. UNCHANGED <<text, stack, outs, visiting, included, aliases, first, finished, place, astray>>
        /\ status' = error
    BY DEF Fail, walk, maps, history
  <1>2. Depth' = Depth /\ Top' = Top
    BY <1>1 DEF Depth, Top
  <1>3. WalkInv'
    <2>1. NoFileTwice'
      BY <1>1, <1>2 DEF IInv, WalkInv, NoFileTwice
    <2> QED
      BY <1>1, <1>2, <2>1 DEF IInv, WalkInv, IncludeAt
  <1>4. OrderInv'
    <2>1. Passed'
      BY <1>1, <1>2 DEF IInv, OrderInv, Passed, IncludeAt, Finished
    <2>2. IncludesFirst'
      BY <1>1, FirstKept DEF IInv, OrderInv
    <2> QED
      BY <1>1, <2>1, <2>2 DEF IInv, OrderInv, Finished
  <1>5. RestInv'
    BY <1>1 DEF IInv, RestInv
  <1>6. RejectedForCycle'
    BY <1>1 DEF RejectedForCycle
  <1> QED
    BY <1>3, <1>4, <1>5, <1>6 DEF IInv

\* A file that is being visited is on the chain of includes to this one.
LEMMA CircularKeeps ==
  ASSUME IInv, Circular
  PROVE  IInv'
  <1>1. PICK i \in 2 .. Depth : stack[i].file = Stmt.file
    BY DEF IInv, WalkInv, Circular
  <1>2. Depth \in Nat \ {0} /\ Top \in Act /\ Top.at \in Nat \ {0} /\ Top.file \in File
        /\ text[Top.file] \in Seq(Statement)
    BY TextFacts DEF IInv, Act
  <1>3. Stmt.file \in IncludesOf(Top.file)
    BY <1>2 DEF Circular, Including, AtEnd, Stmt, IncludesOf
  <1>4. ASSUME NEW j \in i .. Depth - 1
        PROVE  stack[j + 1].file \in IncludesOf(stack[j].file)
    <2>1. j \in 1 .. Depth - 1
      BY <1>2
    <2> QED
      BY <2>1 DEF IInv, WalkInv, IncludeAt, IncludesOf
  <1>5. UNCHANGED <<text, stack>> /\ status' = "circular"
    BY DEF Circular, Fail, walk
  <1>6. RejectedForCycle'
    <2>1. Depth' = Depth /\ Top'.file = Top.file /\ stack' = stack /\ text' = text
      BY <1>5 DEF Depth, Top
    <2>2. stack[i].file \in IncludesOf(Top.file)
      BY <1>1, <1>3
    <2>3. Includes(Top.file, stack[i].file)'
      BY <2>1, <2>2 DEF Includes, IncludesOf
    <2>4. \A j \in i .. Depth - 1 : Includes(stack[j].file, stack[j + 1].file)'
      BY <1>4, <2>1 DEF Includes, IncludesOf
    <2> QED
      BY <2>1, <2>3, <2>4 DEF RejectedForCycle
  <1> QED
    BY <1>6, FailKeeps DEF Circular

\* An include that is skipped: its file is in included_files, and not being
\* expanded, so it is finished.
LEMMA SkipKeeps ==
  ASSUME IInv, Skip
  PROVE  IInv'
  <1>1. /\ UNCHANGED <<text, outs, visiting, included, aliases, first, status, finished, place>>
        /\ status = "expanding" /\ stack' = Advanced
    BY DEF Skip, Including, maps
  <1>2. Moves
    BY <1>1, AdvanceMoves DEF IInv
  <1>3. WalkInv'
    BY <1>1, <1>2, WalkMoves DEF IInv
  <1>4. Finished(Stmt.file)
    BY DEF Skip, IInv, OrderInv
  <1>5. OrderInv'
    BY <1>1, <1>2, <1>4, OrderMoves DEF IInv
  <1>6. RestInv'
    <2>1. Len(stack') = Len(stack)
      BY <1>2 DEF Moves, Depth
    <2>2. astray' \subseteq File
      BY DEF Skip, IInv, RestInv
    <2> QED
      BY <1>1, <2>1, <2>2 DEF IInv, RestInv
  <1>7. RejectedForCycle'
    BY <1>1 DEF RejectedForCycle
  <1> QED
    BY <1>3, <1>5, <1>6, <1>7 DEF IInv

\* A statement that is collected is no include.
LEMMA CollectKeeps ==
  ASSUME IInv, Collect
  PROVE  IInv'
  <1>1. /\ UNCHANGED <<text, visiting, included, aliases, first, status, finished, place, astray>>
        /\ status = "expanding" /\ stack' = Advanced
        /\ outs' = [outs EXCEPT ![Depth] = Append(@, ExpandStmt(Stmt))]
    BY DEF Collect, maps, history
  <1>2. Moves
    BY <1>1, AdvanceMoves DEF IInv
  <1>3. WalkInv'
    BY <1>1, <1>2, WalkMoves DEF IInv
  <1>4. ~IncludeAt(Top.file, Top.at)
    BY DEF Collect, IncludeAt, Stmt
  <1>5. OrderInv'
    BY <1>1, <1>2, <1>4, OrderMoves DEF IInv
  <1>6. RestInv'
    <2>1. Len(stack') = Len(stack)
      BY <1>2 DEF Moves, Depth
    <2>2. IsSeq(outs') /\ Len(outs') = Len(outs)
      <3> DEFINE x == Append(outs[Depth], ExpandStmt(Stmt))
      <3>1. IsSeq(outs) /\ Depth \in 1 .. Len(outs)
        BY TextFacts DEF IInv, RestInv, Depth
      <3>2. outs' = [outs EXCEPT ![Depth] = x]
        BY <1>1
      <3> HIDE DEF x
      <3> QED
        BY <3>1, <3>2, SeqSteps
    <2> QED
      BY <1>1, <2>1, <2>2 DEF IInv, RestInv
  <1>7. RejectedForCycle'
    BY <1>1 DEF RejectedForCycle
  <1> QED
    BY <1>3, <1>5, <1>6, <1>7 DEF IInv

\* A file that is entered is not being visited.
LEMMA EnterKeeps ==
  ASSUME IInv, Enter
  PROVE  IInv'
  <1>1. /\ UNCHANGED <<text, status, finished, astray>> /\ status = "expanding"
        /\ visiting' = visiting \cup {Stmt.file} /\ Stmt.file \in File \ visiting
        /\ stack' = Append(Advanced, Activation(Stmt.file, Stmt.alias))
    BY DEF Enter, Including, Noted
  <1>2. IncludeAt(Top.file, Top.at)
    <2>1. Top \in Act /\ text[Top.file] \in Seq(Statement)
      BY TextFacts DEF IInv, Act
    <2> QED
      BY <2>1 DEF Enter, Including, AtEnd, Stmt, IncludeAt, Act
  <1>3. PICK f \in File \ visiting, a \in Alias \cup {None} : f = Stmt.file /\ a = Stmt.alias
    <2>1. Top.file \in File /\ Top.at \in Nat
      BY TextFacts DEF IInv, Act
    <2> QED
      BY <1>1, <1>2, <2>1, TextFacts DEF IInv, Stmt
  <1>4. Pushes(f)
    BY <1>1, <1>3, EnterPushes DEF IInv
  <1>5. WalkInv'
    BY <1>1, <1>2, <1>3, <1>4, WalkPushes DEF IInv
  <1>6. included' \subseteq included \cup {f}
    BY <1>3 DEF Enter
  <1>7. OrderInv'
    BY <1>1, <1>3, <1>4, <1>6, OrderPushes DEF IInv
  <1>8. RestInv'
    <2>1. Len(stack') = Len(stack) + 1
      BY <1>4 DEF Pushes, Depth
    <2>2. IsSeq(outs') /\ Len(outs') = Len(outs) + 1
      BY SeqSteps DEF Enter, IInv, RestInv
    <2>3. /\ aliases' \subseteq Alias
          /\ first' \in IF aliases' = {} THEN {None} ELSE aliases'
      <3>1. NoteAlias(a)
        BY <1>3 DEF Enter
      <3> QED
        BY <3>1 DEF NoteAlias, maps, IInv, RestInv
    <2>4. place' \in [File -> Int]
      BY <1>3, AroundFacts DEF Enter, IInv, RestInv
    <2> QED
      BY <1>1, <1>3, <1>6, <2>1, <2>2, <2>3, <2>4 DEF IInv, RestInv
  <1>9. RejectedForCycle'
    BY <1>1 DEF RejectedForCycle
  <1> QED
    BY <1>5, <1>7, <1>8, <1>9 DEF IInv

\* A file that is left has been expanded to its end.
LEMMA LeaveKeeps ==
  ASSUME IInv, Leave
  PROVE  IInv'
  <1>1. /\ UNCHANGED <<text, included, aliases, first, status, astray>> /\ status = "expanding"
        /\ AtEnd /\ Depth > 1 /\ visiting' = visiting \ {Top.file}
        /\ stack' = SubSeq(stack, 1, Depth - 1) /\ finished' = Finish(Top.file)
    BY DEF Leave, Left, maps
  <1>2. Pops
    BY <1>1, LeavePops DEF IInv
  <1>3. WalkInv'
    BY <1>1, <1>2, WalkPops DEF IInv
  <1>4. OrderInv'
    BY <1>1, <1>2, OrderPops DEF IInv
  <1>5. RestInv'
    <2>1. Len(stack') = Depth - 1
      BY <1>2 DEF Pops
    <2>2. IsSeq(outs') /\ Len(outs') = Depth - 1
      <3> DEFINE o == SubSeq(outs, 1, Depth - 1)
                 x == o[Depth - 1] \o Returned
      <3>1. IsSeq(outs) /\ Len(outs) = Depth /\ Depth - 1 \in 1 .. Depth
            /\ Depth - 1 \in 1 .. Depth - 1
        BY <1>1, TextFacts DEF IInv, RestInv, Depth
      <3>2. IsSeq(o) /\ Len(o) = Depth - 1
        BY <3>1, SeqSteps
      <3>3. outs' = [o EXCEPT ![Depth - 1] = x]
        BY DEF Leave
      <3> HIDE DEF o, x
      <3> QED
        BY <3>1, <3>2, <3>3, SeqSteps
    <2>3. place' \in [File -> Int]
      BY DEF Leave, IInv, RestInv, Closed
    <2> QED
      BY <1>1, <2>1, <2>2, <2>3 DEF IInv, RestInv
  <1>6. RejectedForCycle'
    BY <1>1 DEF RejectedForCycle
  <1> QED
    BY <1>3, <1>4, <1>5, <1>6 DEF IInv

\* The program ends when all its files have.
LEMMA DoneKeeps ==
  ASSUME IInv, Done
  PROVE  IInv'
  <1>1. /\ UNCHANGED <<text, stack, outs, visiting, included, aliases, first, finished,
                        place, astray>>
        /\ status' = "done" /\ AtEnd /\ Depth = 1
    BY DEF Done, walk, maps, history
  <1>2. Depth' = Depth
    BY <1>1 DEF Depth
  <1>3. WalkInv'
    <2>1. NoFileTwice'
      BY <1>1, <1>2 DEF IInv, WalkInv, NoFileTwice
    <2> QED
      BY <1>1, <1>2, <2>1 DEF IInv, WalkInv, IncludeAt
  <1>4. OrderInv'
    <2>1. Passed'
      BY <1>1, <1>2 DEF IInv, OrderInv, Passed, IncludeAt, Finished
    <2>2. IncludesFirst'
      <3>1. After(Main, Len(finished))
        BY <1>1, AllPassed DEF IInv, WalkInv, Top
      <3> QED
        BY <1>1, <3>1, FirstKept DEF IInv, OrderInv
    <2> QED
      BY <1>1, <2>1, <2>2 DEF IInv, OrderInv, Finished
  <1>5. RestInv'
    BY <1>1 DEF IInv, RestInv
  <1>6. RejectedForCycle'
    BY <1>1 DEF RejectedForCycle
  <1> QED
    BY <1>3, <1>4, <1>5, <1>6 DEF IInv

\* A step that changes nothing keeps everything.
LEMMA StutterKeeps ==
  ASSUME IInv, UNCHANGED vars
  PROVE  IInv'
  <1>1. UNCHANGED <<text, stack, outs, visiting, included, aliases, first, status, finished,
                    place, astray>>
    BY DEF vars, walk, maps, history
  <1>2. Depth' = Depth /\ Top' = Top
    BY <1>1 DEF Depth, Top
  <1>3. WalkInv'
    <2>1. NoFileTwice'
      BY <1>1, <1>2 DEF IInv, WalkInv, NoFileTwice
    <2> QED
      BY <1>1, <1>2, <2>1 DEF IInv, WalkInv, IncludeAt
  <1>4. OrderInv'
    <2>1. Passed'
      BY <1>1, <1>2 DEF IInv, OrderInv, Passed, IncludeAt, Finished
    <2>2. IncludesFirst'
      BY <1>1, FirstUnchanged DEF IInv, OrderInv
    <2> QED
      BY <1>1, <2>1, <2>2 DEF IInv, OrderInv, Finished
  <1>5. RestInv'
    BY <1>1 DEF IInv, RestInv
  <1>6. RejectedForCycle'
    <2>1. RejectedForCycle /\ text' = text /\ stack' = stack /\ status' = status
      BY <1>1 DEF IInv
    <2> QED
      BY <1>2, <2>1 DEF RejectedForCycle, Includes, IncludesOf
  <1> QED
    BY <1>3, <1>4, <1>5, <1>6 DEF IInv

\* The invariant holds before the first statement of the program.
LEMMA IInvInit ==
  ASSUME Init
  PROVE  IInv
  <1>1. /\ text \in Texts /\ stack = <<Activation(Main, None)>> /\ outs = <<<<>>>>
        /\ visiting = {} /\ included = {} /\ aliases = {} /\ first = None /\ astray = {}
        /\ status = "expanding" /\ finished = <<>> /\ place = [f \in File |-> Closed]
    BY DEF Init
  <1>2. /\ Activation(Main, None) \in Act /\ Activation(Main, None).file = Main
        /\ Activation(Main, None).at = 1
    BY ExpanderAssumption DEF Activation, Act
  <1>3. stack \in Seq(Act) /\ Len(stack) = 1 /\ Depth = 1 /\ stack[1].file = Main /\ stack[1].at = 1
    BY <1>1, <1>2 DEF Depth
  <1>4. WalkInv
    BY <1>1, <1>3 DEF WalkInv, NoFileTwice
  <1>5. OrderInv
    BY <1>1, <1>3 DEF OrderInv, Passed, IncludesFirst
  <1>6. RestInv
    <2>1. outs \in Seq({<<>>}) /\ Len(outs) = 1
      BY <1>1
    <2>2. IsSeq(outs)
      BY <2>1 DEF IsSeq
    <2> QED
      BY <1>1, <1>3, <2>1, <2>2 DEF RestInv, Closed
  <1>7. RejectedForCycle
    BY <1>1 DEF RejectedForCycle
  <1> QED
    BY <1>4, <1>5, <1>6, <1>7 DEF IInv

\* Every step keeps the invariant.
LEMMA IInvStep ==
  ASSUME IInv, [Next]_vars
  PROVE  IInv'
  <1>1. ASSUME FileNotFound PROVE IInv'
    BY <1>1, FailKeeps DEF FileNotFound
  <1>2. ASSUME Unreadable PROVE IInv'
    BY <1>2, FailKeeps DEF Unreadable
  <1> QED
    BY <1>1, <1>2, CircularKeeps, SkipKeeps, EnterKeeps, CollectKeeps, LeaveKeeps, DoneKeeps,
       StutterKeeps DEF Next

-----------------------------------------------------------------------------
(* The theorems                                                            *)

\* The invariant holds in every reachable state.
THEOREM Invariant == Spec => []IInv
  <1>1. Init => IInv
    BY IInvInit
  <1>2. IInv /\ [Next]_vars => IInv'
    BY IInvStep
  <1> QED
    BY <1>1, <1>2, PTL DEF Spec

\* Types: the stack holds files and positive places, visiting_files and
\* included_files hold files, and the alias that iteration begins with is a
\* key of aliases whenever there is one.
THEOREM TypeCorrect == Spec => []TypeOK
  <1>1. ASSUME IInv PROVE TypeOK
    <2>1. visiting \subseteq File
      BY <1>1, TextFacts DEF IInv, WalkInv, Act
    <2>2. stack \in Seq([file : File, at : Nat \ {0}, alias : Alias \cup {None}])
      BY <1>1 DEF IInv, WalkInv, Act
    <2> QED
      BY <1>1, <2>1, <2>2 DEF IInv, OrderInv, RestInv, TypeOK
  <1> QED
    BY <1>1, Invariant, PTL

\* For every graph of includes, no file is being expanded twice at a time.
THEOREM NeverTwice == Spec => []NoFileTwice
  <1>1. IInv => NoFileTwice
    BY DEF IInv, WalkInv
  <1> QED
    BY <1>1, Invariant, PTL

\* For every graph of includes, files finish in a topological order of it: a
\* program with a cycle is never expanded to its end.
THEOREM CyclesRejected == Spec => []IncludesFirst
  <1>1. IInv => IncludesFirst
    BY DEF IInv, OrderInv
  <1> QED
    BY <1>1, Invariant, PTL

\* "Circular dependency" is only reported for a cycle of includes.
THEOREM OnlyCyclesRejected == Spec => []RejectedForCycle
  <1>1. IInv => RejectedForCycle
    BY DEF IInv
  <1> QED
    BY <1>1, Invariant, PTL

-----------------------------------------------------------------------------
(* Renaming                                                                *)

LEMMA InFront ==
  ASSUME NEW S, NEW a \in S, NEW n \in Seq(S)
  PROVE  /\ Len(<<a>> \o n) = Len(n) + 1 /\ Len(n) \in Nat
         /\ \A i \in 1 .. Len(n) : (<<a>> \o n)[i + 1] = n[i]
  <1>1. <<a>> \in Seq(S) /\ Len(<<a>>) = 1
    OBVIOUS
  <1> QED
    BY <1>1, ConcatProperties

\* What stands behind the same alias is the same.
LEMMA InFrontOfTheSame ==
  ASSUME NEW S, NEW a \in S, NEW n \in Seq(S), NEW m \in Seq(S), <<a>> \o n = <<a>> \o m
  PROVE  n = m
  <1>1. Len(n) = Len(m) /\ Len(n) \in Nat
    BY InFront
  <1>2. \A i \in 1 .. Len(n) : n[i] = m[i]
    BY <1>1, InFront
  <1> QED
    BY <1>1, <1>2, SeqEqual

\* prefix_program, whatever a file declares and however often it has been
\* renamed before: a name that its statements use, where the expander looks
\* for names, refers to a declaration after the renaming if and only if it
\* did before.  It must not be the name of another declaration but for the
\* alias in front: a file that declares f and includes another f under the
\* alias it is included with itself ends up with one name for both.
THEOREM RenamingKeepsReferences ==
  ASSUME NEW Names, NEW a \in Names, NEW stmts, NEW j \in DOMAIN stmts,
         NEW name \in Seq(Names), NEW e, "name" \in DOMAIN e, e.name = name,
         e.inside \notin {"braces", "opaque"},
         Declares(stmts[j]), "name" \in DOMAIN stmts[j], stmts[j].name \in Seq(Names),
         name # <<a>> \o stmts[j].name, stmts[j].name # <<a>> \o name
  PROVE  PrefixExpr(e, a, TopLevelNames(stmts)).name = prefix_program(stmts, a)[j].name
           <=> name = stmts[j].name
  <1> DEFINE tops == TopLevelNames(stmts)
             d    == stmts[j].name
  <1>1. d \in tops
    BY DEF TopLevelNames
  <1>2. PrefixExpr(e, a, tops).name = Rename(name, a, tops)
    BY DEF PrefixExpr
  <1>3. prefix_program(stmts, a)[j].name = Prefixed(d, a)
    <2>1. prefix_program(stmts, a)[j] = PrefixStmt(stmts[j], a, tops)
      BY DEF prefix_program
    <2>2. Rename(d, a, tops) = Prefixed(d, a)
      BY <1>1 DEF Rename
    <2>3. CASE stmts[j].k = "func"
      BY <2>1, <2>2, <2>3 DEF PrefixStmt
    <2>4. CASE stmts[j].k = "var"
      BY <2>1, <2>2, <2>4 DEF PrefixStmt, PrefixSimple
    <2> QED
      BY <2>3, <2>4 DEF Declares
  <1>4. Prefixed(d, a) \in {d, <<a>> \o d} /\ Rename(name, a, tops) \in {name, <<a>> \o name}
    BY DEF Prefixed, Rename
  <1>5. <<a>> \o name = <<a>> \o d => name = d
    BY InFrontOfTheSame
  <1>6. name = d => Rename(name, a, tops) = Prefixed(d, a)
    BY <1>1 DEF Rename
  <1>7. Rename(name, a, tops) = Prefixed(d, a) => name = d
    BY <1>4, <1>5
  <1> QED
    BY <1>2, <1>3, <1>6, <1>7

-----------------------------------------------------------------------------
(* What names refer to.                                                    *)
(*                                                                         *)
(* For any text and any namespaces N and parameters P that show it to be   *)
(* WellNamed.  Activations share a namespace from one with an alias, or    *)
(* the first, up to the next with an alias: their statements are put       *)
(* together in that order, and renamed together when it is left.  A name   *)
(* is known to an activation if it is declared in its namespace, by itself *)
(* or an activation below.                                                 *)

SameSpace(i, j) == i <= j /\ \A x \in i + 1 .. j : stack[x].alias = None
DeclaredAt(j, y, q) == y \in DOMAIN outs[j] /\ Declares(outs[j][y]) /\ outs[j][y].name = q
DeclaredIn(j, q) == \E y \in DOMAIN outs[j] : DeclaredAt(j, y, q)
Known(j, q) == \E i \in 1 .. j : SameSpace(i, j) /\ DeclaredIn(i, q)
Earlier(j, x, q) == \/ \E i \in 1 .. j - 1 : SameSpace(i, j) /\ DeclaredIn(i, q)
                    \/ \E y \in 1 .. x - 1 : DeclaredAt(j, y, q)
Excused(o) == o.file \in WithAstray

\* An activation has the alias of the include that pushed it.
Linked == \A i \in 1 .. Depth - 1 :
             text[stack[i].file][stack[i].at - 1].alias = stack[i + 1].alias

Collected == Simple \cup Function
OutsTyped == outs \in Seq(Seq(Collected)) /\ Len(outs) = Depth

\* What is declared has the name it has in the activation's namespace.
DeclFine(j, x, N, P) ==
    /\ Declares(outs[j][x]) => /\ outs[j][x].name \in DOMAIN N[stack[j].file]
                               /\ N[stack[j].file][outs[j][x].name] = outs[j][x].origin
    /\ outs[j][x].k = "func" => outs[j][x].params \subseteq P[stack[j].file]
DeclInv(N, P) == \A j \in 1 .. Depth : \A x \in DOMAIN outs[j] : DeclFine(j, x, N, P)

\* So has what is used; and it is declared before, but for functions.
UseFine(u, j, x, N) ==
    \/ u.means = None
    \/ u.means = Parameter /\ u.name \in Scope(outs[j][x])
    \/ Excused(u.means)
    \/ /\ u.name \in DOMAIN N[stack[j].file] /\ N[stack[j].file][u.name] = u.means
       /\ outs[j][x].k = "func" \/ Earlier(j, x, u.name)
UsesFine(j, x, N) ==
    \A s \in Simples(outs[j][x]) :
        /\ \A u \in UsesOf(s) : UseFine(u, j, x, N)
        /\ s.e.means # None => s.e.inside \notin {"braces", "opaque"}
UseInv(N) == \A j \in 1 .. Depth : \A x \in DOMAIN outs[j] : UsesFine(j, x, N)

\* What an activation has gone past is known, but for the file it waits for.
Waits(j, k) == j < Depth /\ k = stack[j].at - 1
Arrived(j, s, N) == \A q \in DOMAIN N[s.file] : Known(j, Into(q, s.alias)) \/ Excused(N[s.file][q])
Dealt(j, k, N) ==
    LET s == text[stack[j].file][k] IN
    /\ Declares(s) => DeclaredIn(j, s.name)
    /\ s.k = "include" => /\ s.alias # None => s.alias \in aliases
                          /\ ~Waits(j, k) => Arrived(j, s, N)
DealtInv(N) == \A j \in 1 .. Depth : \A k \in 1 .. stack[j].at - 1 : Dealt(j, k, N)

\* The namespace of a finished file: its aliases are known, and what it
\* means is in files that it leads to.
Settled(g, N) ==
    \A q \in DOMAIN N[g] :
        /\ q[1] \in Alias => q[1] \in aliases
        /\ \A S \in SUBSET File : g \in S /\ WithIncludes(S) => N[g][q].file \in S
SettledInv(N) == \A g \in File : Finished(g) => Settled(g, N)

\* `place` is where a file's names are known as they are.
IsAround(a, j) == /\ a \in 0 .. j /\ (a # 0 => stack[a].alias # None)
                  /\ \A x \in a + 1 .. j : stack[x].alias = None
Running(g) == \E j \in 2 .. Depth : stack[j].file = g /\ stack[j].alias = None
Placed(g, N) == \A q \in DOMAIN N[g] :
                   \/ \E i \in 1 .. Depth : IsAround(place[g], i) /\ DeclaredIn(i, q)
                   \/ Excused(N[g][q])
PlaceInv(N) ==
    /\ \A j \in 2 .. Depth : stack[j].alias = None => IsAround(place[stack[j].file], j)
    /\ \A g \in File : place[g] # Closed /\ ~Running(g) => Placed(g, N)

NamesInv(N, P) ==
    /\ Linked /\ OutsTyped /\ DeclInv(N, P) /\ UseInv(N)
    /\ DealtInv(N) /\ SettledInv(N) /\ PlaceInv(N)
    /\ status = "done" => AtEnd /\ Depth = 1

-----------------------------------------------------------------------------
(* Names, and what expanding and prefixing make of statements.             *)

LEMMA Longer ==
  ASSUME NEW n \in Name, NEW m \in Seq(STRING)
  PROVE  n \o m \in Name /\ (n \o m)[1] = n[1] /\ Len(n \o m) = Len(n) + Len(m)
  <1>1. n \in Seq(STRING) /\ Len(n) \in Nat \ {0}
    BY EmptySeq, LenProperties DEF Name
  <1>2. n \o m \in Seq(STRING) /\ Len(n \o m) = Len(n) + Len(m) /\ (n \o m)[1] = n[1]
    BY <1>1, ConcatProperties
  <1> QED
    BY <1>1, <1>2 DEF Name

LEMMA Single ==
  ASSUME NEW S, NEW a \in S
  PROVE  <<a>> \in Seq(S) /\ Len(<<a>>) = 1 /\ <<a>>[1] = a
  OBVIOUS

LEMMA Fronted ==
  ASSUME NEW a \in STRING, NEW n \in Name
  PROVE  <<a>> \o n \in Name /\ (<<a>> \o n)[1] = a
  <1>1. <<a>> \in Name /\ <<a>>[1] = a /\ n \in Seq(STRING)
    <2>1. <<a>> \in Seq(STRING) /\ Len(<<a>>) = 1 /\ <<a>>[1] = a
      BY Single
    <2>2. <<a>> # <<>>
      BY <2>1, EmptySeq
    <2> QED
      BY <2>1, <2>2 DEF Name
  <1> QED
    BY <1>1, Longer

LEMMA PrefixedName ==
  ASSUME NEW a \in Alias, NEW n \in Name
  PROVE  Prefixed(n, a) \in Name /\ Prefixed(n, a)[1] \in {a, n[1]}
  BY Fronted, ExpanderAssumption DEF Prefixed

LEMMA RenamedName ==
  ASSUME NEW a \in Alias, NEW n \in Name, NEW tops
  PROVE  Rename(n, a, tops) \in Name
  BY PrefixedName DEF Rename

\* The members that are merged into a name, and those that are left.
LEMMA MembersFacts ==
  ASSUME NEW e \in Expression
  PROVE  LET rest == SubSeq(e.rest, Len(Members(e)) + 1, Len(e.rest)) IN
         /\ Members(e) \in Seq(STRING) /\ rest \in Seq(STRING)
         /\ Method(e) => /\ Len(Members(e)) = Len(e.rest) - 1 /\ Len(rest) = 1
                         /\ Len(e.rest) \in Nat \ {0}
         /\ ~Method(e) => Members(e) = e.rest /\ rest = <<>>
         /\ Method(e) /\ Len(e.rest) = 1 => Members(e) = <<>> /\ rest = e.rest
  <1>1. e.rest \in Seq(STRING) /\ Len(e.rest) \in Nat
    BY DEF Expression
  <1>2. CASE Method(e)
    <2>1. Len(e.rest) # 0
      BY <1>1, <1>2 DEF Method
    <2>2. Members(e) = SubSeq(e.rest, 1, Len(e.rest) - 1)
      BY <1>2 DEF Members
    <2>3. Members(e) \in Seq(STRING) /\ Len(Members(e)) = Len(e.rest) - 1
      BY <1>1, <2>1, <2>2, SubSeqProperties
    <2>4. SubSeq(e.rest, Len(e.rest), Len(e.rest)) \in Seq(STRING)
          /\ Len(SubSeq(e.rest, Len(e.rest), Len(e.rest))) = 1
      BY <1>1, <2>1, SubSeqProperties
    <2>5. Len(e.rest) = 1 => Members(e) = <<>> /\ SubSeq(e.rest, 1, 1) = e.rest
      BY <1>1, <2>2
    <2> QED
      BY <1>1, <1>2, <2>1, <2>3, <2>4, <2>5
  <1>3. CASE ~Method(e)
    <2>1. Members(e) = e.rest
      BY <1>3 DEF Members
    <2>2. SubSeq(e.rest, Len(e.rest) + 1, Len(e.rest)) = <<>>
      BY <1>1
    <2> QED
      BY <1>1, <1>3, <2>1, <2>2
  <1> QED
    BY <1>2, <1>3

LEMMA MergedFacts ==
  ASSUME NEW e \in Expression
  PROVE  /\ Merged(e) \in Expression
         /\ Merged(e).means = e.means /\ Merged(e).inside = e.inside
         /\ Merged(e).called = e.called
  <1>1. e.name \o Members(e) \in Name
    BY MembersFacts, Longer DEF Expression
  <1>2. SubSeq(e.rest, Len(Members(e)) + 1, Len(e.rest)) \in Seq(STRING)
    BY MembersFacts
  <1> QED
    BY <1>1, <1>2 DEF Merged, Expression

\* Expanding an expression changes its name and members only.
LEMMA ExpandedType ==
  ASSUME RestInv, NEW e \in Expression
  PROVE  /\ ExpandExpr(e) \in Expression
         /\ ExpandExpr(e).means = e.means /\ ExpandExpr(e).inside = e.inside
  <1>1. /\ Named(e) \in Expression /\ Named(e).means = e.means /\ Named(e).inside = e.inside
    <2>1. CASE aliases = {} \/ Named(e) = e
      BY <2>1 DEF Named
    <2>2. CASE aliases # {} /\ Named(e) # e
      <3>1. first \in STRING
        BY <2>2, ExpanderAssumption DEF RestInv
      <3>2. <<first>> \o e.name \in Name
        BY <3>1, Fronted DEF Expression
      <3>3. Named(e) = [e EXCEPT !.name = <<first>> \o e.name]
        BY <2>2 DEF Named
      <3> QED
        BY <3>2, <3>3 DEF Expression
    <2> QED
      BY <2>1, <2>2
  <1>2. ASSUME NEW d \in Expression
        PROVE  /\ CallRewritten(d) \in Expression /\ CallRewritten(d).means = d.means
               /\ CallRewritten(d).inside = d.inside
    <2>1. d.name \o d.rest \in Name /\ <<>> \in Seq(STRING)
      BY Longer DEF Expression
    <2> QED
      BY <2>1 DEF CallRewritten, Expression
  <1>3. /\ Merged(Named(e)) \in Expression /\ Merged(Named(e)).means = e.means
        /\ Merged(Named(e)).inside = e.inside
    BY <1>1, MergedFacts
  <1> QED
    BY <1>2, <1>3 DEF ExpandExpr

\* What it makes of a name, if the alias it begins with is known.
LEMMA ExpandedName ==
  ASSUME RestInv, NEW e \in Expression, e.name \notin Constant, e.inside # "opaque",
         e.name[1] \in Alias => e.name[1] \in aliases \/ e.inside = "choice"
  PROVE  ExpandExpr(e).name = Whole(e)
  <1>1. CASE e.inside = "choice"
    BY <1>1 DEF ExpandExpr, Whole
  <1>2. CASE e.inside # "choice" /\ e.name[1] \notin aliases
    <2>1. Named(e) = e /\ Merged(e) = e
      BY <1>2 DEF Named, Merged
    <2>2. CallRewritten(e) = e
      BY <1>2 DEF CallRewritten
    <2> QED
      BY <1>2, <2>1, <2>2 DEF ExpandExpr, Whole
  <1>3. CASE e.inside # "choice" /\ e.name[1] \in aliases
    <2> DEFINE rest == SubSeq(e.rest, Len(Members(e)) + 1, Len(e.rest))
               m    == [e EXCEPT !.name = e.name \o Members(e), !.rest = rest]
    <2>1. ExpandExpr(e) = CallRewritten(m)
      BY <1>3 DEF ExpandExpr, Named, Merged
    <2>2. /\ m.name = e.name \o Members(e) /\ m.rest = rest /\ m.called = e.called
          /\ e.name \in Name /\ e.name[1] \in Alias /\ e.rest \in Seq(STRING)
          /\ e.name \in Seq(STRING) /\ Len(e.name) \in Nat \ {0}
      BY <1>3 DEF Expression, RestInv, Name
    <2>3. CASE ~Method(e)
      <3>1. Members(e) = e.rest /\ rest = <<>>
        BY <2>3, MembersFacts
      <3>2. CallRewritten(m) = m
        BY <2>2, <3>1 DEF CallRewritten, Method
      <3> QED
        BY <1>3, <2>1, <2>2, <2>3, <3>2 DEF Whole
    <2>4. CASE Method(e) /\ Len(e.rest) # 1
      <3>1. Members(e) \in Seq(STRING) /\ Len(Members(e)) \in Nat \ {0}
        <4>1. Members(e) \in Seq(STRING) /\ Len(Members(e)) = Len(e.rest) - 1
          BY <2>4, MembersFacts
        <4>2. Len(e.rest) \in Nat \ {0}
          BY <2>4, MembersFacts
        <4> QED
          BY <2>4, <4>1, <4>2
      <3>2. Len(m.name) # 1
        BY <2>2, <3>1, Longer
      <3>3. CallRewritten(m) = m
        BY <3>2 DEF CallRewritten
      <3> QED
        BY <1>3, <2>1, <2>2, <2>4, <3>3 DEF Whole
    <2>5. CASE Method(e) /\ Len(e.rest) = 1
      <3>1. Members(e) = <<>> /\ rest = e.rest
        BY <2>5, MembersFacts
      <3>2. m.name = e.name
        BY <2>2, <3>1
      <3>3. Method(m) /\ Len(m.rest) = 1
        BY <2>2, <2>5, <3>1 DEF Method
      <3>4. CASE Len(e.name) = 1
        <4>1. CallRewritten(m) = [m EXCEPT !.name = @ \o m.rest, !.rest = <<>>]
          BY <1>3, <3>2, <3>3, <3>4 DEF CallRewritten
        <4>2. CallRewritten(m).name = e.name \o e.rest
          BY <2>2, <3>1, <3>2, <4>1 DEF Expression
        <4> QED
          BY <1>3, <2>1, <2>2, <2>5, <3>4, <4>2 DEF Whole
      <3>5. CASE Len(e.name) # 1
        <4>1. CallRewritten(m) = m
          BY <3>2, <3>5 DEF CallRewritten
        <4> QED
          BY <1>3, <2>1, <2>2, <2>5, <3>5, <4>1 DEF Whole
      <3> QED
        BY <3>4, <3>5
    <2> QED
      BY <2>3, <2>4, <2>5
  <1> QED
    BY <1>1, <1>2, <1>3

\* A name begins as it is written.
LEMMA WholeBegins ==
  ASSUME NEW e \in Expression
  PROVE  Whole(e) \in Name /\ Whole(e)[1] = e.name[1]
  <1>1. e.name \in Name /\ e.rest \in Seq(STRING) /\ Members(e) \in Seq(STRING)
    BY MembersFacts DEF Expression
  <1>2. /\ e.name \o e.rest \in Name /\ (e.name \o e.rest)[1] = e.name[1]
        /\ e.name \o Members(e) \in Name /\ (e.name \o Members(e))[1] = e.name[1]
    BY <1>1, Longer
  <1> QED
    BY <1>1, <1>2 DEF Whole

-----------------------------------------------------------------------------
(* Statements                                                              *)

\* Expanding a statement changes its expressions only.
LEMMA ExpandedSimple ==
  ASSUME RestInv, NEW s \in Simple
  PROVE  /\ ExpandSimple(s) \in Simple
         /\ ExpandSimple(s).k = s.k
         /\ s.k \in {"var", "set"} => ExpandSimple(s).name = s.name
         /\ s.k = "var" => ExpandSimple(s).origin = s.origin
         /\ s.k = "set" => ExpandSimple(s).means = s.means
         /\ ExpandSimple(s).e.means = s.e.means /\ ExpandSimple(s).e.inside = s.e.inside
         /\ ExpandSimple(s).e = IF s.k = "fiber" THEN s.e ELSE ExpandExpr(s.e)
  <1>1. s.e \in Expression
    BY DEF Simple
  <1>2. /\ ExpandExpr(s.e) \in Expression
        /\ ExpandExpr(s.e).means = s.e.means /\ ExpandExpr(s.e).inside = s.e.inside
    BY <1>1, ExpandedType
  <1>3. CASE s.k = "fiber"
    BY <1>3 DEF ExpandSimple
  <1>4. CASE s.k # "fiber"
    <2>1. ExpandSimple(s) = [s EXCEPT !.e = ExpandExpr(s.e)]
      BY <1>4 DEF ExpandSimple
    <2> QED
      BY <1>2, <1>4, <2>1 DEF Simple
  <1> QED
    BY <1>3, <1>4

\* So does prefixing, and it renames.
LEMMA PrefixedSimple ==
  ASSUME NEW a \in Alias, NEW tops, NEW s \in Simple
  PROVE  LET p == PrefixSimple(s, a, tops) IN
         /\ p \in Simple /\ p.k = s.k
         /\ s.k \in {"var", "set"} => p.name = Rename(s.name, a, tops)
         /\ s.k = "var" => p.origin = s.origin
         /\ s.k = "set" => p.means = s.means
         /\ p.e.means = s.e.means /\ p.e.inside = s.e.inside
         /\ s.e.inside \notin {"braces", "opaque"} => p.e.name = Rename(s.e.name, a, tops)
  <1>1. s.e \in Expression
    BY DEF Simple
  <1>2. /\ PrefixExpr(s.e, a, tops) \in Expression
        /\ PrefixExpr(s.e, a, tops).means = s.e.means
        /\ PrefixExpr(s.e, a, tops).inside = s.e.inside
        /\ s.e.inside \notin {"braces", "opaque"} =>
              PrefixExpr(s.e, a, tops).name = Rename(s.e.name, a, tops)
    <2>1. Rename(s.e.name, a, tops) \in Name
      BY <1>1, RenamedName DEF Expression
    <2> QED
      BY <1>1, <2>1 DEF PrefixExpr, Expression
  <1>3. CASE s.k \in {"var", "set"}
    <2>1. s.name \in Name
      BY <1>3 DEF Simple
    <2>2. Rename(s.name, a, tops) \in Name
      BY <2>1, RenamedName
    <2>3. PrefixSimple(s, a, tops) = [s EXCEPT !.name = Rename(s.name, a, tops),
                                              !.e = PrefixExpr(s.e, a, tops)]
      BY <1>3 DEF PrefixSimple
    <2>4. CASE s.k = "var"
      <3>1. s \in [k : {"var"}, name : Name, e : Expression, origin : Origin]
        BY <2>4 DEF Simple
      <3> QED
        BY <1>2, <2>2, <2>3, <2>4, <3>1 DEF Simple
    <2>5. CASE s.k = "set"
      <3>1. s \in [k : {"set"}, name : Name, means : Meaning, e : Expression]
        BY <2>5 DEF Simple
      <3> QED
        BY <1>2, <2>2, <2>3, <2>5, <3>1 DEF Simple
    <2> QED
      BY <1>3, <2>4, <2>5
  <1>4. CASE s.k \in {"bind", "fiber", "do"}
    <2>1. PrefixSimple(s, a, tops) = [s EXCEPT !.e = PrefixExpr(s.e, a, tops)]
      BY <1>4 DEF PrefixSimple
    <2> QED
      BY <1>2, <1>4, <2>1 DEF Simple
  <1> QED
    BY <1>3, <1>4 DEF Simple

\* Statements and the simple ones they are made of.
LEMMA SimplesTyped ==
  ASSUME NEW s \in Collected
  PROVE  /\ Simples(s) \subseteq Simple
         /\ s.k = "func" => s \in Function
         /\ s.k # "func" => s \in Simple
         /\ s.k # "include"
         /\ Declares(s) => s.name \in Name
         /\ s.k = "func" => s.params \subseteq Name
  BY DEF Collected, Simple, Function, Simples, Declares

LEMMA ExpandedStmt ==
  ASSUME RestInv, NEW s \in Collected
  PROVE  /\ ExpandStmt(s) \in Collected /\ ExpandStmt(s).k = s.k
         /\ Declares(s) => ExpandStmt(s).name = s.name /\ ExpandStmt(s).origin = s.origin
         /\ s.k = "func" => ExpandStmt(s).params = s.params
         /\ \A d \in Simples(ExpandStmt(s)) : \E c \in Simples(s) : d = ExpandSimple(c)
  <1>1. CASE s.k = "func"
    <2> DEFINE body == [i \in DOMAIN s.body |-> ExpandSimple(s.body[i])]
    <2>1. s \in Function /\ s.body \in Seq(Simple)
      BY <1>1, SimplesTyped DEF Function
    <2>2. \A i \in DOMAIN s.body : s.body[i] \in Simple /\ ExpandSimple(s.body[i]) \in Simple
      BY <2>1, ExpandedSimple
    <2>3. body \in Seq(Simple)
      BY <2>1, <2>2
    <2>4. ExpandStmt(s) = [s EXCEPT !.body = body]
      BY <1>1 DEF ExpandStmt
    <2>5. ExpandStmt(s) \in Function /\ ExpandStmt(s).k = "func" /\ ExpandStmt(s).body = body
          /\ ExpandStmt(s).name = s.name /\ ExpandStmt(s).origin = s.origin
          /\ ExpandStmt(s).params = s.params
      <3> HIDE DEF body
      <3> QED
        BY <2>1, <2>3, <2>4 DEF Function
    <2>6. ASSUME NEW d \in Simples(ExpandStmt(s))
          PROVE  \E c \in Simples(s) : d = ExpandSimple(c)
      <3>1. PICK i \in DOMAIN body : d = body[i]
        BY <2>5 DEF Simples
      <3>2. s.body[i] \in Simples(s)
        BY <1>1, <3>1 DEF Simples
      <3> QED
        BY <3>1, <3>2
    <2> QED
      BY <1>1, <2>5, <2>6 DEF Collected
  <1>2. CASE s.k # "func"
    <2>1. ExpandStmt(s) = ExpandSimple(s) /\ s \in Simple
      BY <1>2, SimplesTyped DEF ExpandStmt
    <2> QED
      BY <1>2, <2>1, ExpandedSimple DEF Collected, Simples, Declares
  <1> QED
    BY <1>1, <1>2

LEMMA PrefixedStmt ==
  ASSUME NEW a \in Alias, NEW tops, NEW s \in Collected
  PROVE  LET p == PrefixStmt(s, a, tops) IN
         /\ p \in Collected /\ p.k = s.k
         /\ Declares(s) => p.name = Rename(s.name, a, tops) /\ p.origin = s.origin
         /\ s.k = "func" => p.params = s.params
         /\ \A d \in Simples(p) : \E c \in Simples(s) : d = PrefixSimple(c, a, tops)
  <1> DEFINE p == PrefixStmt(s, a, tops)
  <1>1. CASE s.k = "func"
    <2> DEFINE body == [i \in DOMAIN s.body |-> PrefixSimple(s.body[i], a, tops)]
    <2>1. s \in Function /\ s.body \in Seq(Simple) /\ s.name \in Name
      BY <1>1, SimplesTyped DEF Function
    <2>2. \A i \in DOMAIN s.body : /\ s.body[i] \in Simple
                                  /\ PrefixSimple(s.body[i], a, tops) \in Simple
      BY <2>1, PrefixedSimple
    <2>3. body \in Seq(Simple) /\ Rename(s.name, a, tops) \in Name
      BY <2>1, <2>2, RenamedName
    <2>4. p = [s EXCEPT !.name = Rename(s.name, a, tops), !.body = body]
      BY <1>1 DEF PrefixStmt
    <2>5. p \in Function /\ p.k = "func" /\ p.body = body
          /\ p.name = Rename(s.name, a, tops) /\ p.origin = s.origin /\ p.params = s.params
      <3> HIDE DEF body, p
      <3> QED
        BY <2>1, <2>3, <2>4 DEF Function
    <2>6. ASSUME NEW d \in Simples(p)
          PROVE  \E c \in Simples(s) : d = PrefixSimple(c, a, tops)
      <3>1. PICK i \in DOMAIN body : d = body[i]
        <4> HIDE DEF body, p
        <4> QED
          BY <2>5 DEF Simples
      <3>2. s.body[i] \in Simples(s)
        BY <1>1, <3>1 DEF Simples
      <3> QED
        BY <3>1, <3>2
    <2> QED
      BY <1>1, <2>5, <2>6 DEF Collected
  <1>2. CASE s.k # "func"
    <2>1. p = PrefixSimple(s, a, tops) /\ s \in Simple
      BY <1>2, SimplesTyped DEF PrefixStmt
    <2> QED
      BY <1>2, <2>1, PrefixedSimple DEF Collected, Simples, Declares
  <1> QED
    BY <1>1, <1>2

\* What an expanded statement uses is what was written.
LEMMA ExpandedUses ==
  ASSUME RestInv, NEW c \in Simple,
         c.e.means # None => c.e.inside \notin {"braces", "opaque"} /\ c.e.name \notin Constant,
         c.e.means # None /\ c.k # "fiber" /\ c.e.name[1] \in Alias =>
            c.e.name[1] \in aliases \/ c.e.inside = "choice",
         NEW u \in UsesOf(ExpandSimple(c))
  PROVE  u.means = None \/ \E w \in Uses1(c) : w.name = u.name /\ w.means = u.means
  <1> DEFINE d == ExpandSimple(c)
             v == [name |-> IF c.k = "fiber" THEN c.e.name ELSE Whole(c.e), means |-> c.e.means]
  <1>1. /\ d.k = c.k /\ d.e.means = c.e.means /\ c.e \in Expression
        /\ c.k = "set" => d.name = c.name /\ d.means = c.means
        /\ d.e = IF c.k = "fiber" THEN c.e ELSE ExpandExpr(c.e)
    BY ExpandedSimple DEF Simple
  <1>2. CASE u = d.e /\ u.means # None
    <2>1. v \in Uses1(c)
      BY DEF Uses1
    <2>2. u.name = v.name
      <3>1. CASE c.k = "fiber"
        BY <1>1, <1>2, <3>1
      <3>2. CASE c.k # "fiber"
        <4>1. ExpandExpr(c.e).name = Whole(c.e)
          BY <1>1, <1>2, <3>2, ExpandedName
        <4> QED
          BY <1>1, <1>2, <3>2, <4>1
      <3> QED
        BY <3>1, <3>2
    <2>3. v.means = u.means
      BY <1>1, <1>2
    <2> QED
      BY <2>1, <2>2, <2>3
  <1>3. CASE c.k = "set" /\ u = [name |-> d.name, means |-> d.means]
    <2>1. [name |-> c.name, means |-> c.means] \in Uses1(c)
      BY <1>3 DEF Uses1
    <2> QED
      BY <1>1, <1>3, <2>1
  <1>4. u = d.e \/ (c.k = "set" /\ u = [name |-> d.name, means |-> d.means])
    BY <1>1 DEF UsesOf
  <1> QED
    BY <1>2, <1>3, <1>4

\* What a prefixed statement uses is what it used, renamed.
LEMMA PrefixedUses ==
  ASSUME NEW a \in Alias, NEW tops, NEW c \in Simple,
         c.e.means # None => c.e.inside \notin {"braces", "opaque"},
         NEW u \in UsesOf(PrefixSimple(c, a, tops))
  PROVE  \/ u.means = None
         \/ \E w \in UsesOf(c) : /\ w.means = u.means /\ w.name \in Name
                                 /\ u.name = Rename(w.name, a, tops)
  <1> DEFINE d == PrefixSimple(c, a, tops)
  <1>1. /\ d.k = c.k /\ d.e.means = c.e.means /\ c.e \in Expression
        /\ c.k = "set" => d.name = Rename(c.name, a, tops) /\ d.means = c.means /\ c.name \in Name
        /\ c.e.inside \notin {"braces", "opaque"} => d.e.name = Rename(c.e.name, a, tops)
    <2>1. c.e \in Expression /\ (c.k = "set" => c.name \in Name)
      BY DEF Simple
    <2> QED
      BY <2>1, PrefixedSimple
  <1>2. CASE u = d.e /\ u.means # None
    <2>1. c.e \in UsesOf(c) /\ c.e.name \in Name
      BY <1>1 DEF UsesOf, Expression
    <2> QED
      BY <1>1, <1>2, <2>1
  <1>3. CASE c.k = "set" /\ u = [name |-> d.name, means |-> d.means]
    <2>1. [name |-> c.name, means |-> c.means] \in UsesOf(c)
      BY <1>3 DEF UsesOf
    <2> QED
      BY <1>1, <1>3, <2>1
  <1>4. u = d.e \/ (c.k = "set" /\ u = [name |-> d.name, means |-> d.means])
    BY <1>1 DEF UsesOf
  <1> QED
    BY <1>2, <1>3, <1>4

-----------------------------------------------------------------------------
(* Where names are known                                                   *)

\* A step that leaves the first n activations there, and adds to what they
\* have collected.
Grows(n) ==
    /\ n \in Nat /\ n <= Depth /\ n <= Depth'
    /\ \A i \in 1 .. n : stack'[i].file = stack[i].file /\ stack'[i].alias = stack[i].alias
    /\ \A i \in 1 .. n : \A x \in DOMAIN outs[i] : x \in DOMAIN outs'[i] /\ outs'[i][x] = outs[i][x]
    /\ text' = text /\ astray \subseteq astray' /\ aliases \subseteq aliases'

\* More files are astray.
LEMMA ExcusedGrows ==
  ASSUME text' = text, astray \subseteq astray', NEW o, Excused(o)
  PROVE  Excused(o)'
  <1>1. \A S : WithIncludes(S)' <=> WithIncludes(S)
    BY DEF WithIncludes, IncludesOf
  <1> QED
    BY <1>1 DEF Excused, WithAstray

\* More is known.
LEMMA KnownGrows ==
  ASSUME NEW n, Grows(n), NEW j \in 1 .. n
  PROVE  /\ \A i \in 1 .. j : SameSpace(i, j)' = SameSpace(i, j)
         /\ \A a \in Int : IsAround(a, j)' = IsAround(a, j)
         /\ \A q : DeclaredIn(j, q) => DeclaredIn(j, q)'
         /\ \A q : Known(j, q) => Known(j, q)'
         /\ \A q : \A x \in DOMAIN outs[j] : x \in Nat /\ Earlier(j, x, q) => Earlier(j, x, q)'
  <1>1. n \in Nat /\ j \in Nat
    BY DEF Grows
  <1>2. ASSUME NEW i \in 1 .. j PROVE SameSpace(i, j)' = SameSpace(i, j)
    BY <1>1 DEF Grows, SameSpace
  <1>3. ASSUME NEW a \in Int PROVE IsAround(a, j)' = IsAround(a, j)
    BY <1>1 DEF Grows, IsAround
  <1>4. ASSUME NEW i \in 1 .. j, NEW q, NEW y, DeclaredAt(i, y, q)
        PROVE  DeclaredAt(i, y, q)'
    BY <1>1, <1>4 DEF Grows, DeclaredAt
  <1>5. ASSUME NEW i \in 1 .. j, NEW q, DeclaredIn(i, q)
        PROVE  DeclaredIn(i, q)'
    <2>1. PICK y \in DOMAIN outs[i] : DeclaredAt(i, y, q)
      BY <1>5 DEF DeclaredIn
    <2>2. DeclaredAt(i, y, q)'
      BY <1>4, <2>1
    <2> QED
      BY <2>2 DEF DeclaredIn, DeclaredAt
  <1>6. ASSUME NEW q, Known(j, q) PROVE Known(j, q)'
    <2>1. PICK i \in 1 .. j : SameSpace(i, j) /\ DeclaredIn(i, q)
      BY <1>6 DEF Known
    <2>2. SameSpace(i, j)' /\ DeclaredIn(i, q)'
      BY <1>2, <1>5, <2>1
    <2> QED
      BY <2>2 DEF Known
  <1>7. ASSUME NEW q, NEW x \in DOMAIN outs[j], x \in Nat, Earlier(j, x, q)
        PROVE  Earlier(j, x, q)'
    <2>1. CASE \E i \in 1 .. j - 1 : SameSpace(i, j) /\ DeclaredIn(i, q)
      <3>1. PICK i \in 1 .. j - 1 : SameSpace(i, j) /\ DeclaredIn(i, q)
        BY <2>1
      <3>2. i \in 1 .. j
        BY <1>1
      <3>3. SameSpace(i, j)' /\ DeclaredIn(i, q)'
        BY <1>2, <1>5, <3>1, <3>2
      <3> QED
        BY <3>3 DEF Earlier
    <2>2. CASE \E y \in 1 .. x - 1 : DeclaredAt(j, y, q)
      <3>1. PICK y \in 1 .. x - 1 : DeclaredAt(j, y, q)
        BY <2>2
      <3>2. j \in 1 .. j
        BY <1>1
      <3>3. DeclaredAt(j, y, q)'
        BY <1>4, <3>1, <3>2
      <3> QED
        BY <3>3 DEF Earlier
    <2> QED
      BY <1>7, <2>1, <2>2 DEF Earlier
  <1>8. j \in 1 .. j
    BY <1>1
  <1> QED
    BY <1>2, <1>3, <1>5, <1>6, <1>7, <1>8

\* What held of what has been collected, and of what has been gone past,
\* still does.
LEMMA FineGrows ==
  ASSUME OutsTyped, NEW n, Grows(n), NEW j \in 1 .. n, NEW N, NEW P
  PROVE  /\ \A x \in DOMAIN outs[j] : DeclFine(j, x, N, P) => DeclFine(j, x, N, P)'
         /\ \A x \in DOMAIN outs[j] : UsesFine(j, x, N) => UsesFine(j, x, N)'
         /\ \A s : Arrived(j, s, N) => Arrived(j, s, N)'
         /\ \A k : Dealt(j, k, N) /\ (Waits(j, k) => Waits(j, k)') => Dealt(j, k, N)'
  <1>1. n \in Nat /\ j \in Nat /\ j \in 1 .. Depth
    BY LenProperties DEF Grows, OutsTyped
  <1>2. /\ \A i \in 1 .. j : SameSpace(i, j)' = SameSpace(i, j)
        /\ \A q : DeclaredIn(j, q) => DeclaredIn(j, q)'
        /\ \A q : Known(j, q) => Known(j, q)'
        /\ \A q : \A x \in DOMAIN outs[j] : x \in Nat /\ Earlier(j, x, q) => Earlier(j, x, q)'
    BY KnownGrows
  <1>3. \A o : Excused(o) => Excused(o)'
    BY ExcusedGrows DEF Grows
  <1>4. /\ stack'[j].file = stack[j].file /\ text' = text /\ aliases \subseteq aliases'
        /\ \A x \in DOMAIN outs[j] : x \in DOMAIN outs'[j] /\ outs'[j][x] = outs[j][x]
    BY DEF Grows
  <1>5. outs[j] \in Seq(Collected) /\ \A x \in DOMAIN outs[j] : x \in Nat
    BY <1>1 DEF OutsTyped
  <1>6. ASSUME NEW x \in DOMAIN outs[j], DeclFine(j, x, N, P)
        PROVE  DeclFine(j, x, N, P)'
    BY <1>4, <1>6 DEF DeclFine
  <1>7. ASSUME NEW x \in DOMAIN outs[j], UsesFine(j, x, N)
        PROVE  UsesFine(j, x, N)'
    <2>1. ASSUME NEW u, UseFine(u, j, x, N) PROVE UseFine(u, j, x, N)'
      <3>1. Earlier(j, x, u.name) => Earlier(j, x, u.name)'
        BY <1>2, <1>5
      <3>2. Excused(u.means) => Excused(u.means)'
        BY <1>3
      <3> QED
        BY <1>4, <2>1, <3>1, <3>2 DEF UseFine
    <2> QED
      BY <1>4, <1>7, <2>1 DEF UsesFine
  <1>8. ASSUME NEW s, Arrived(j, s, N) PROVE Arrived(j, s, N)'
    BY <1>2, <1>3, <1>8 DEF Arrived
  <1>9. ASSUME NEW k, Dealt(j, k, N), Waits(j, k) => Waits(j, k)'
        PROVE  Dealt(j, k, N)'
    <2>1. PICK s : s = text[stack[j].file][k]
      OBVIOUS
    <2>2. text'[stack'[j].file][k] = s
      BY <1>4, <2>1
    <2>3. Declares(s) => DeclaredIn(j, s.name)'
      BY <1>2, <1>9, <2>1 DEF Dealt
    <2>4. s.k = "include" => /\ s.alias # None => s.alias \in aliases'
                             /\ ~Waits(j, k)' => Arrived(j, s, N)'
      <3>1. Arrived(j, s, N) => Arrived(j, s, N)'
        BY <1>8
      <3> QED
        BY <1>4, <1>9, <2>1, <3>1 DEF Dealt
    <2> QED
      BY <2>2, <2>3, <2>4 DEF Dealt
  <1> QED
    BY <1>6, <1>7, <1>8, <1>9

-----------------------------------------------------------------------------
(* What the innermost activation has gone past                             *)

\* Every name of its namespace that a statement has given it so far.
LEMMA GivenKnown ==
  ASSUME IInv, NEW N, NEW P, WellNamed(text, N, P), DealtInv(N), SettledInv(N),
         NEW k \in Nat, k <= Top.at, k <= Len(text[Top.file]) + 1,
         NEW q \in DOMAIN N[Top.file], GivenBefore(q, text[Top.file], k, N)
  PROVE  /\ Known(Depth, q) \/ Excused(N[Top.file][q])
         /\ q[1] \in Alias => q[1] \in aliases
         /\ \A S \in SUBSET File : Top.file \in S /\ WithIncludes(S) => N[Top.file][q].file \in S
  <1>1. /\ Depth \in Nat \ {0} /\ Top \in Act /\ Top = stack[Depth] /\ Top.file \in File
        /\ Top.at \in Nat /\ text[Top.file] \in Seq(Statement)
    BY TextFacts DEF IInv, Top, Act
  <1>2. PICK f \in File : f = Top.file
    BY <1>1
  <1>3. PICK i \in 1 .. k - 1 : q \in Gives(text[f][i], N)
    BY <1>2 DEF GivenBefore
  <1>4. i \in 1 .. Top.at - 1 /\ i \in DOMAIN text[f] /\ i \in Nat
    BY <1>1, <1>2
  <1>5. PICK s : s = text[f][i]
    OBVIOUS
  <1>6. Dealt(Depth, i, N) /\ ~Waits(Depth, i)
    BY <1>1, <1>4 DEF DealtInv, Waits
  <1>7. HasNames(f, text, N, P)
    BY DEF WellNamed
  <1>8. CASE s.k = "include"
    <2>1. s.file \in File
      BY <1>3, <1>5, <1>8 DEF Gives
    <2>2. PICK h \in File : h = s.file
      BY <2>1
    <2>3. PICK p \in DOMAIN N[h] : q = Into(p, s.alias)
      BY <1>3, <1>5, <1>8, <2>2 DEF Gives
    <2>4. N[f][q] = N[h][p]
      BY <1>4, <1>5, <1>7, <1>8, <2>2, <2>3 DEF HasNames
    <2>5. /\ s.alias # None => s.alias \in aliases
          /\ Arrived(Depth, s, N)
      BY <1>1, <1>2, <1>5, <1>6, <1>8 DEF Dealt
    <2>6. Settled(h, N)
      <3>1. IncludeAt(f, i)
        BY <1>4, <1>5, <1>8 DEF IncludeAt
      <3>2. Finished(h)
        BY <1>1, <1>2, <1>4, <1>5, <2>2, <3>1 DEF IInv, OrderInv, Passed
      <3> QED
        BY <3>2 DEF SettledInv
    <2>7. q[1] \in Alias => q[1] \in aliases
      <3>1. p \in Name
        BY DEF WellNamed, HasNames
      <3>2. p[1] \in Alias => p[1] \in aliases
        BY <2>6 DEF Settled
      <3>3. CASE s.alias = None
        BY <2>3, <3>2, <3>3 DEF Into
      <3>4. CASE s.alias # None
        <4>1. s.alias \in aliases /\ s.alias \in Alias
          BY <2>5, <3>4 DEF IInv, RestInv
        <4>2. q = Prefixed(p, s.alias)
          BY <2>3, <3>4 DEF Into
        <4>3. q[1] \in {s.alias, p[1]}
          BY <3>1, <4>1, <4>2, PrefixedName
        <4> QED
          BY <3>2, <4>1, <4>3
      <3> QED
        BY <3>3, <3>4
    <2>8. Known(Depth, q) \/ Excused(N[f][q])
      BY <2>2, <2>3, <2>4, <2>5 DEF Arrived
    <2>9. ASSUME NEW S \in SUBSET File, f \in S, WithIncludes(S)
          PROVE  N[f][q].file \in S
      <3>1. h \in IncludesOf(f)
        BY <1>4, <1>5, <1>8, <2>2 DEF IncludesOf
      <3>2. h \in S
        BY <2>9, <3>1 DEF WithIncludes
      <3> QED
        BY <2>4, <2>6, <2>9, <3>2 DEF Settled
    <2> QED
      BY <1>2, <2>7, <2>8, <2>9
  <1>9. CASE s.k # "include"
    <2>1. Declares(s) /\ q = s.name
      BY <1>3, <1>5, <1>9 DEF Gives
    <2>2. DeclaredIn(Depth, q)
      BY <1>1, <1>2, <1>5, <1>6, <2>1 DEF Dealt
    <2>3. SameSpace(Depth, Depth) /\ Depth \in 1 .. Depth
      BY <1>1 DEF SameSpace
    <2>4. Known(Depth, q)
      BY <2>2, <2>3 DEF Known
    <2>5. q[1] \notin Alias /\ N[f][q].file = f
      BY <1>4, <1>5, <1>7, <2>1 DEF HasNames
    <2> QED
      BY <1>2, <2>4, <2>5
  <1> QED
    BY <1>8, <1>9

\* At its end an activation knows all of it.
LEMMA Complete ==
  ASSUME IInv, NEW N, NEW P, WellNamed(text, N, P), DealtInv(N), SettledInv(N), AtEnd
  PROVE  /\ Settled(Top.file, N)
         /\ \A q \in DOMAIN N[Top.file] : Known(Depth, q) \/ Excused(N[Top.file][q])
  <1>1. /\ Top \in Act /\ Top.file \in File /\ Top.at \in Nat
        /\ text[Top.file] \in Seq(Statement)
    BY TextFacts DEF IInv, Act
  <1>2. PICK k \in Nat : k = Len(text[Top.file]) + 1
    BY <1>1
  <1>3. k <= Top.at /\ k <= Len(text[Top.file]) + 1
    BY <1>1, <1>2 DEF AtEnd
  <1>4. ASSUME NEW q \in DOMAIN N[Top.file]
        PROVE  /\ Known(Depth, q) \/ Excused(N[Top.file][q])
               /\ q[1] \in Alias => q[1] \in aliases
               /\ \A S \in SUBSET File : Top.file \in S /\ WithIncludes(S) =>
                     N[Top.file][q].file \in S
    <2>1. GivenBefore(q, text[Top.file], k, N)
      BY <1>1, <1>2 DEF WellNamed, HasNames
    <2> QED
      BY <1>3, <2>1, GivenKnown
  <1> QED
    BY <1>4 DEF Settled

-----------------------------------------------------------------------------
(* The steps, and what names refer to                                      *)

\* Going past a statement changes no alias of the stack.
LEMMA AdvancedAliases ==
  ASSUME WalkInv
  PROVE  \A i \in 1 .. Depth : Advanced[i].alias = stack[i].alias
  <1>1. \A i \in 1 .. Depth : stack[i] \in Act
    BY TextFacts
  <1>2. Depth \in 1 .. Depth /\ DOMAIN stack = 1 .. Depth
    BY TextFacts DEF WalkInv, Depth
  <1>3. Advanced = [stack EXCEPT ![Depth] = [stack[Depth] EXCEPT !.at = @ + 1]]
    BY DEF Advanced
  <1> QED
    BY <1>1, <1>2, <1>3 DEF Act

\* Where a file was placed, its names are still known.
LEMMA PlacedGrows ==
  ASSUME RestInv, Grows(Depth), NEW N, NEW g \in File, place'[g] = place[g], Placed(g, N)
  PROVE  Placed(g, N)'
  <1>1. PICK p \in Int : p = place[g]
    BY DEF RestInv
  <1>2. ASSUME NEW i \in 1 .. Depth, NEW q, IsAround(p, i), DeclaredIn(i, q)
        PROVE  i \in 1 .. Depth' /\ IsAround(p, i)' /\ DeclaredIn(i, q)'
    <2>1. IsAround(p, i)' /\ DeclaredIn(i, q)'
      BY <1>2, KnownGrows
    <2>2. i <= Depth /\ Depth \in Nat /\ Depth <= Depth'
      BY DEF Grows
    <2> QED
      BY <2>1, <2>2 DEF Depth
  <1>3. \A o : Excused(o) => Excused(o)'
    BY ExcusedGrows DEF Grows
  <1> QED
    BY <1>1, <1>2, <1>3 DEF Placed

\* What does not depend on the statement that is gone past.
LEMMA NamesMove ==
  ASSUME IInv, NEW N, NEW P, NamesInv(N, P), stack' = Advanced, Grows(Depth),
         UNCHANGED <<text, finished, place>>,
         NEW d, d = Depth, NEW c, c = Top.at, Dealt(d, c, N)'
  PROVE  Linked' /\ DealtInv(N)' /\ SettledInv(N)' /\ PlaceInv(N)'
  <1>1. Moves /\ \A i \in 1 .. Depth : stack'[i].alias = stack[i].alias
    BY AdvanceMoves, AdvancedAliases DEF IInv
  <1>2. /\ Depth' = Depth /\ Depth \in Nat \ {0} /\ Top = stack[Depth] /\ Top \in Act
        /\ \A i \in 1 .. Depth : stack[i] \in Act
    BY <1>1, TextFacts DEF IInv, Moves, Depth, Top
  <1>3. \A i \in 1 .. Depth : /\ stack'[i].file = stack[i].file
                              /\ stack'[i].at = IF i = Depth THEN stack[i].at + 1 ELSE stack[i].at
    BY <1>1 DEF Moves, Places
  <1>4. Linked'
    <2> SUFFICES ASSUME NEW i \in 1 .. Depth - 1
                 PROVE  text[stack'[i].file][stack'[i].at - 1].alias = stack'[i + 1].alias
      BY <1>2 DEF Linked
    <2>1. i \in 1 .. Depth /\ i + 1 \in 1 .. Depth /\ i # Depth
      BY <1>2
    <2>2. text[stack[i].file][stack[i].at - 1].alias = stack[i + 1].alias
      BY DEF NamesInv, Linked
    <2> QED
      BY <1>1, <1>3, <2>1, <2>2
  <1>5. DealtInv(N)'
    <2> SUFFICES ASSUME NEW j \in 1 .. Depth, NEW k \in 1 .. stack'[j].at - 1
                 PROVE  Dealt(j, k, N)'
      BY <1>2 DEF DealtInv
    <2>1. stack[j].at \in Nat
      BY <1>2 DEF Act
    <2>2. CASE k \in 1 .. stack[j].at - 1
      <3>1. Dealt(j, k, N)
        BY <2>2 DEF NamesInv, DealtInv
      <3>2. Waits(j, k) => Waits(j, k)'
        BY <1>2, <1>3 DEF Waits
      <3> QED
        BY <3>1, <3>2, FineGrows DEF NamesInv
    <2>3. CASE j = Depth /\ k = stack[j].at
      <3>1. j = d /\ k = c
        BY <1>2, <2>3
      <3> QED
        BY <3>1
    <2> QED
      BY <1>3, <2>1, <2>2, <2>3
  <1>6. SettledInv(N)'
    <2>1. \A S : WithIncludes(S)' <=> WithIncludes(S)
      BY DEF WithIncludes, IncludesOf
    <2>2. aliases \subseteq aliases'
      BY DEF Grows
    <2> QED
      BY <2>1, <2>2 DEF NamesInv, SettledInv, Settled, Finished
  <1>7. PlaceInv(N)'
    <2>1. ASSUME NEW j \in 2 .. Depth, stack'[j].alias = None
          PROVE  IsAround(place[stack[j].file], j)'
      <3>1. j \in 1 .. Depth /\ stack[j].file \in File
        BY <1>2 DEF Act
      <3>2. PICK p \in Int : p = place[stack[j].file]
        BY <3>1 DEF IInv, RestInv
      <3>3. IsAround(p, j)
        BY <1>1, <2>1, <3>1, <3>2 DEF NamesInv, PlaceInv
      <3>4. IsAround(p, j)'
        BY <3>1, <3>3, KnownGrows
      <3>5. place'[stack'[j].file] = p
        BY <1>3, <3>1, <3>2
      <3> QED
        BY <3>4, <3>5
    <2>2. ASSUME NEW g \in File, place'[g] # Closed, ~Running(g)'
          PROVE  Placed(g, N)'
      <3>1. ~Running(g)
        BY <1>1, <1>2, <1>3, <2>2 DEF Running
      <3>2. Placed(g, N)
        BY <2>2, <3>1 DEF NamesInv, PlaceInv
      <3> QED
        BY <3>2, PlacedGrows DEF IInv
    <2> QED
      BY <1>2, <2>1, <2>2 DEF PlaceInv
  <1> QED
    BY <1>4, <1>5, <1>6, <1>7

\* An include that is skipped: what its file declares is known here, or its
\* names are excused from now on.
LEMMA SkipNames ==
  ASSUME IInv, NEW N, NEW P, NamesInv(N, P), Skip
  PROVE  NamesInv(N, P)'
  <1>1. /\ UNCHANGED <<text, outs, visiting, included, aliases, first, status, finished, place>>
        /\ status = "expanding" /\ stack' = Advanced /\ Stmt.k = "include" /\ Stmt.alias = None
        /\ Stmt.file \in File \ visiting /\ Stmt.file \in included
        /\ astray' = IF place[Stmt.file] = Around THEN astray ELSE astray \cup {Stmt.file}
    BY DEF Skip, Including, maps
  <1>2. Moves /\ \A i \in 1 .. Depth : stack'[i].alias = stack[i].alias
    BY <1>1, AdvanceMoves, AdvancedAliases DEF IInv
  <1>3. Depth' = Depth /\ Depth \in Nat \ {0} /\ Top = stack[Depth]
    BY <1>2, TextFacts DEF IInv, Moves, Depth, Top
  <1>4. Grows(Depth)
    BY <1>1, <1>2, <1>3 DEF Grows, Moves, Places
  <1>5. OutsTyped'
    BY <1>1, <1>3 DEF NamesInv, OutsTyped
  <1>6. \A j \in 1 .. Depth : \A x \in DOMAIN outs[j] : DeclFine(j, x, N, P)' /\ UsesFine(j, x, N)'
    BY <1>4, FineGrows DEF NamesInv, DeclInv, UseInv
  <1>7. DeclInv(N, P)' /\ UseInv(N)'
    BY <1>1, <1>3, <1>6 DEF DeclInv, UseInv
  <1>8. PICK d, c, g, s : d = Depth /\ c = Top.at /\ g = Stmt.file /\ s = Stmt
    OBVIOUS
  <1>9. text'[stack'[d].file][c] = s
    <2>1. stack'[d].file = Top.file
      BY <1>2, <1>3, <1>8 DEF Moves, Places
    <2> QED
      BY <1>1, <1>8, <2>1 DEF Stmt
  <1>10. g \in File /\ g \notin visiting /\ Finished(g)
    BY <1>1, <1>8 DEF IInv, OrderInv
  <1>11. ASSUME NEW q \in DOMAIN N[g]
         PROVE  Known(d, q)' \/ Excused(N[g][q])'
    <2>1. CASE place[g] = Around
      <3>1. PICK p \in Int : p = place[g] /\ p \in 0 .. d /\ IsAround(p, d)
        BY <1>8, <2>1, AroundFacts DEF IInv, IsAround
      <3>2. place[g] # Closed
        BY <3>1 DEF Closed
      <3>3. ~Running(g)
        BY <1>10 DEF IInv, WalkInv, Running
      <3>4. Placed(g, N)
        BY <1>10, <3>2, <3>3 DEF NamesInv, PlaceInv
      <3>5. CASE Excused(N[g][q])
        BY <1>4, <3>5, ExcusedGrows DEF Grows
      <3>6. CASE \E i \in 1 .. Depth : IsAround(p, i) /\ DeclaredIn(i, q)
        <4>1. PICK i \in 1 .. d : IsAround(p, i) /\ DeclaredIn(i, q)
          BY <1>8, <3>6
        <4>2. SameSpace(i, d)
          BY <1>3, <1>8, <3>1, <4>1 DEF SameSpace, IsAround
        <4>3. Known(d, q)
          BY <4>1, <4>2 DEF Known
        <4>4. d \in 1 .. Depth
          BY <1>3, <1>8
        <4> QED
          BY <1>4, <4>3, <4>4, KnownGrows
      <3> QED
        BY <3>1, <3>4, <3>5, <3>6 DEF Placed
    <2>2. CASE place[g] # Around
      <3>1. g \in astray'
        BY <1>1, <1>8, <2>2
      <3>2. \A S : WithIncludes(S)' <=> WithIncludes(S)
        BY <1>1 DEF WithIncludes, IncludesOf
      <3>3. \A S \in SUBSET File : astray' \subseteq S /\ WithIncludes(S)' => N[g][q].file \in S
        BY <1>10, <3>1, <3>2 DEF NamesInv, SettledInv, Settled
      <3>4. N[g][q].file \in File
        <4>1. WithIncludes(File)
          BY DEF WithIncludes
        <4> QED
          BY <1>10, <4>1 DEF NamesInv, SettledInv, Settled
      <3> QED
        BY <3>3, <3>4 DEF Excused, WithAstray
    <2> QED
      BY <2>1, <2>2
  <1>12. Dealt(d, c, N)'
    <2>1. ~Declares(s) /\ s.alias = None /\ s.file = g
      BY <1>1, <1>8 DEF Declares
    <2>2. Arrived(d, s, N)'
      BY <1>11, <2>1 DEF Arrived, Into
    <2> QED
      BY <1>9, <2>1, <2>2 DEF Dealt
  <1>13. Linked' /\ DealtInv(N)' /\ SettledInv(N)' /\ PlaceInv(N)'
    BY <1>1, <1>4, <1>8, <1>12, NamesMove
  <1> QED
    BY <1>1, <1>5, <1>7, <1>13 DEF NamesInv

\* What is known is declared before a statement that is put last.
LEMMA KnownEarlier ==
  ASSUME NEW n, Grows(n), NEW d \in 1 .. n, outs[d] \in Seq(Collected),
         NEW q, Known(d, q), NEW x, x = Len(outs[d]) + 1
  PROVE  Earlier(d, x, q)'
  <1>1. n \in Nat /\ d \in Nat /\ DOMAIN outs[d] = 1 .. x - 1
    BY DEF Grows
  <1>2. PICK i \in 1 .. d : SameSpace(i, d) /\ DeclaredIn(i, q)
    BY DEF Known
  <1>3. CASE i = d
    <2>1. PICK y \in 1 .. x - 1 : DeclaredAt(d, y, q)
      BY <1>1, <1>2, <1>3 DEF DeclaredIn
    <2>2. DeclaredAt(d, y, q)'
      BY <1>1, <2>1 DEF Grows, DeclaredAt
    <2> QED
      BY <2>2 DEF Earlier
  <1>4. CASE i # d
    <2>1. i \in 1 .. d - 1 /\ i \in 1 .. n
      BY <1>1, <1>4
    <2>2. SameSpace(i, d)' /\ DeclaredIn(i, q)'
      BY <1>2, <2>1, KnownGrows
    <2> QED
      BY <2>1, <2>2 DEF Earlier
  <1> QED
    BY <1>3, <1>4

\* A statement that is collected: it declares what is in the namespace, and
\* what it uses has been given before, or will be if it is a function.
LEMMA CollectNames ==
  ASSUME IInv, NEW N, NEW P, WellNamed(text, N, P), NamesInv(N, P), Collect
  PROVE  NamesInv(N, P)'
  <1>1. /\ UNCHANGED <<text, visiting, included, aliases, first, status, finished, place, astray>>
        /\ status = "expanding" /\ stack' = Advanced /\ ~AtEnd /\ Stmt.k # "include"
        /\ outs' = [outs EXCEPT ![Depth] = Append(@, ExpandStmt(Stmt))]
    BY DEF Collect, maps, history
  <1>2. Moves /\ \A i \in 1 .. Depth : stack'[i].alias = stack[i].alias
    BY <1>1, AdvanceMoves, AdvancedAliases DEF IInv
  <1>3. Depth' = Depth /\ Depth \in Nat \ {0} /\ Top = stack[Depth] /\ Top \in Act
        /\ Top.file \in File /\ Top.at \in Nat \ {0} /\ text[Top.file] \in Seq(Statement)
    BY <1>2, TextFacts DEF IInv, Moves, Depth, Top, Act
  <1>4. PICK d \in 1 .. Depth, c \in Nat, f \in File :
            d = Depth /\ c = Top.at /\ f = Top.file
    BY <1>3
  <1>5. PICK s \in Collected : s = Stmt /\ s = text[f][c] /\ c \in DOMAIN text[f] /\ s.k # "include"
    <2>1. Top.at \in DOMAIN text[Top.file]
      BY <1>1, <1>3 DEF AtEnd
    <2>2. Stmt \in Statement
      BY <1>3, <2>1 DEF Stmt
    <2>3. Stmt \in Collected
      BY <1>1, <2>2 DEF Statement, Collected, Include
    <2> QED
      BY <1>1, <1>4, <2>1, <2>3 DEF Stmt
  <1>6. PICK t \in Collected : t = ExpandStmt(s)
    BY ExpandedStmt DEF IInv
  <1>7. PICK b \in Nat : b = Len(outs[d]) /\ outs[d] \in Seq(Collected) /\ DOMAIN outs[d] = 1 .. b
    BY <1>4, LenProperties DEF NamesInv, OutsTyped
  <1>8. /\ outs' \in Seq(Seq(Collected)) /\ Len(outs') = Depth
        /\ \A i \in 1 .. Depth : i # d => outs'[i] = outs[i]
        /\ outs'[d] = Append(outs[d], t)
    <2>1. outs \in Seq(Seq(Collected)) /\ Len(outs) = Depth
      BY DEF NamesInv, OutsTyped
    <2>2. Append(outs[d], t) \in Seq(Collected)
      BY <1>7, AppendProperties
    <2>3. outs' = [outs EXCEPT ![d] = Append(outs[d], t)]
      BY <1>1, <1>4, <1>5, <1>6
    <2> QED
      BY <2>1, <2>2, <2>3, ExceptSeq
  <1>9. /\ DOMAIN outs'[d] = 1 .. b + 1
        /\ \A x \in 1 .. b : outs'[d][x] = outs[d][x]
        /\ outs'[d][b + 1] = t
    BY <1>7, <1>8, AppendProperties
  <1>10. Grows(Depth)
    BY <1>1, <1>2, <1>3, <1>7, <1>8, <1>9 DEF Grows, Moves, Places
  <1>11. stack'[d].file = f /\ stack[d].file = f
    BY <1>2, <1>3, <1>4 DEF Moves, Places
  <1>12. DeclFine(d, b + 1, N, P)'
    <2>1. /\ t.k = s.k
          /\ Declares(s) => t.name = s.name /\ t.origin = s.origin
          /\ s.k = "func" => t.params = s.params
      BY <1>6, ExpandedStmt DEF IInv
    <2>2. HasNames(f, text, N, P)
      BY DEF WellNamed
    <2>3. /\ Declares(s) => s.name \in DOMAIN N[f] /\ N[f][s.name] = s.origin
          /\ s.k = "func" => s.params \subseteq P[f]
      BY <1>5, <2>2 DEF HasNames
    <2>4. Declares(t) => Declares(s)
      BY <2>1 DEF Declares
    <2> QED
      BY <1>9, <1>11, <2>1, <2>3, <2>4 DEF DeclFine
  <1>13. UsesFine(d, b + 1, N)'
    <2>1. /\ t.k = s.k
          /\ s.k = "func" => t.params = s.params
          /\ \A e \in Simples(t) : \E r \in Simples(s) : e = ExpandSimple(r)
      BY <1>6, ExpandedStmt DEF IInv
    <2>2. ASSUME NEW q \in DOMAIN N[f], GivenBefore(q, text[f], c, N)
          PROVE  /\ Earlier(d, b + 1, q)' \/ Excused(N[f][q])'
                 /\ q[1] \in Alias => q[1] \in aliases
      <3>1. /\ Known(Depth, q) \/ Excused(N[f][q])
            /\ q[1] \in Alias => q[1] \in aliases
        <4>1. c <= Top.at /\ c <= Len(text[Top.file]) + 1
          BY <1>3, <1>4, <1>5
        <4> QED
          BY <1>4, <2>2, <4>1, GivenKnown DEF NamesInv
      <3>2. CASE Excused(N[f][q])
        <4>1. Excused(N[f][q])'
          BY <1>1, <3>2, ExcusedGrows
        <4> QED
          BY <3>1, <4>1
      <3>3. CASE Known(Depth, q)
        <4>1. Earlier(d, b + 1, q)'
          BY <1>4, <1>7, <1>10, <3>3, KnownEarlier
        <4> QED
          BY <3>1, <4>1
      <3> QED
        BY <3>1, <3>2, <3>3
    <2>3. ASSUME NEW w, MeansThat(w, f, c, text, N)
          PROVE  /\ UseFine(w, d, b + 1, N)'
                 /\ w.means # None /\ w.name[1] \in Alias => w.name[1] \in aliases
      <3>1. CASE w.means = None
        BY <3>1 DEF UseFine
      <3>2. CASE w.means = Parameter /\ text[f][c].k = "func" /\ w.name \in text[f][c].params
                 /\ w.name[1] \notin Alias
        BY <1>5, <1>9, <2>1, <3>2 DEF UseFine, Scope
      <3>3. CASE w.name \in DOMAIN N[f] /\ N[f][w.name] = w.means
                 /\ GivenBefore(w.name, text[f], c, N)
        <4>1. PICK q \in DOMAIN N[f] : q = w.name
          BY <3>3
        <4>2. /\ Earlier(d, b + 1, q)' \/ Excused(N[f][q])'
              /\ q[1] \in Alias => q[1] \in aliases
          BY <2>2, <3>3, <4>1
        <4> QED
          BY <1>11, <3>3, <4>1, <4>2 DEF UseFine
      <3>4. CASE w.name \in DOMAIN N[f] /\ N[f][w.name] = w.means
                 /\ text[f][c].k = "func" /\ w.name[1] \notin Alias
        BY <1>5, <1>9, <1>11, <2>1, <3>4 DEF UseFine
      <3> QED
        BY <2>3, <3>1, <3>2, <3>3, <3>4 DEF MeansThat
    <2>4. ASSUME NEW e \in Simples(t)
          PROVE  /\ \A u \in UsesOf(e) : UseFine(u, d, b + 1, N)'
                 /\ e.e.means # None => e.e.inside \notin {"braces", "opaque"}
      <3>1. PICK r \in Simples(s) : e = ExpandSimple(r)
        BY <2>1
      <3>2. r \in Simple /\ r.e \in Expression
        BY SimplesTyped DEF Simple
      <3>3. /\ \A u \in Uses1(r) : MeansThat(u, f, c, text, N)
            /\ r.e.means # None => /\ r.e.inside \notin {"braces", "opaque"}
                                   /\ r.e.name \notin Constant
        <4>1. UsesNames(f, text, N)
          BY DEF WellNamed
        <4> QED
          BY <1>5, <4>1 DEF UsesNames
      <3>4. e.e.means = r.e.means /\ e.e.inside = r.e.inside
        BY <3>1, <3>2, ExpandedSimple DEF IInv
      <3>5. ASSUME r.e.means # None, r.k # "fiber", r.e.name[1] \in Alias
            PROVE  r.e.name[1] \in aliases
        <4>1. PICK w : w = [name |-> Whole(r.e), means |-> r.e.means]
          OBVIOUS
        <4>2. w \in Uses1(r)
          BY <3>5, <4>1 DEF Uses1
        <4>3. w.name[1] = r.e.name[1]
          BY <3>2, <4>1, WholeBegins
        <4> QED
          BY <2>3, <3>3, <3>5, <4>1, <4>2, <4>3
      <3>6. ASSUME NEW u \in UsesOf(e)
            PROVE  UseFine(u, d, b + 1, N)'
        <4>1. u.means = None \/ \E w \in Uses1(r) : w.name = u.name /\ w.means = u.means
          BY <3>1, <3>2, <3>3, <3>5, <3>6, ExpandedUses DEF IInv
        <4>2. CASE u.means = None
          BY <4>2 DEF UseFine
        <4>3. CASE \E w \in Uses1(r) : w.name = u.name /\ w.means = u.means
          <5>1. PICK w \in Uses1(r) : w.name = u.name /\ w.means = u.means
            BY <4>3
          <5>2. UseFine(w, d, b + 1, N)'
            BY <2>3, <3>3
          <5> QED
            BY <5>1, <5>2 DEF UseFine
        <4> QED
          BY <4>1, <4>2, <4>3
      <3> QED
        BY <3>3, <3>4, <3>6
    <2> QED
      BY <1>9, <2>4 DEF UsesFine
  <1>14. DeclInv(N, P)' /\ UseInv(N)'
    <2> SUFFICES ASSUME NEW j \in 1 .. Depth, NEW x \in DOMAIN outs'[j]
                 PROVE  DeclFine(j, x, N, P)' /\ UsesFine(j, x, N)'
      BY <1>3 DEF DeclInv, UseInv
    <2>1. CASE x \in DOMAIN outs[j]
      BY <1>10, <2>1, FineGrows DEF NamesInv, DeclInv, UseInv
    <2>2. CASE x \notin DOMAIN outs[j]
      <3>1. j = d /\ x = b + 1
        BY <1>7, <1>8, <1>9, <2>2
      <3> QED
        BY <1>12, <1>13, <3>1
    <2> QED
      BY <2>1, <2>2
  <1>15. Dealt(d, c, N)'
    <2>1. ASSUME Declares(s) PROVE DeclaredIn(d, s.name)'
      <3>1. t.k = s.k /\ t.name = s.name
        BY <1>6, <2>1, ExpandedStmt DEF IInv
      <3>2. DeclaredAt(d, b + 1, s.name)'
        BY <1>7, <1>9, <2>1, <3>1 DEF DeclaredAt, Declares
      <3> QED
        BY <1>7, <1>9, <3>2 DEF DeclaredIn
    <2> QED
      BY <1>1, <1>5, <1>11, <2>1 DEF Dealt
  <1>16. Linked' /\ DealtInv(N)' /\ SettledInv(N)' /\ PlaceInv(N)'
    BY <1>1, <1>4, <1>10, <1>15, NamesMove
  <1> QED
    BY <1>1, <1>3, <1>8, <1>14, <1>16 DEF NamesInv, OutsTyped

\* A file that is entered has collected nothing; without an alias it is
\* placed where it is.
LEMMA EnterNames ==
  ASSUME IInv, NEW N, NEW P, NamesInv(N, P), Enter
  PROVE  NamesInv(N, P)'
  <1>1. /\ UNCHANGED <<text, status, finished, astray>> /\ status = "expanding"
        /\ visiting' = visiting \cup {Stmt.file} /\ Stmt.file \in File \ visiting
        /\ stack' = Append(Advanced, Activation(Stmt.file, Stmt.alias))
        /\ outs' = Append(outs, <<>>) /\ NoteAlias(Stmt.alias)
        /\ place' = IF Stmt.alias = None THEN [place EXCEPT ![Stmt.file] = Around] ELSE place
        /\ Stmt.k = "include"
    BY DEF Enter, Including, Noted
  <1>2. /\ Depth \in Nat \ {0} /\ Top = stack[Depth] /\ Top \in Act /\ Top.file \in File
        /\ Top.at \in Nat \ {0} /\ text[Top.file] \in Seq(Statement)
        /\ \A i \in 1 .. Depth : stack[i] \in Act
    BY TextFacts DEF IInv, Top, Act
  <1>3. IncludeAt(Top.file, Top.at)
    <2>1. Top \in Act /\ text[Top.file] \in Seq(Statement)
      BY <1>2
    <2> QED
      BY <2>1 DEF Enter, Including, AtEnd, Stmt, IncludeAt, Act
  <1>4. PICK g \in File \ visiting, a \in Alias \cup {None} : g = Stmt.file /\ a = Stmt.alias
    BY <1>1, <1>2, <1>3, TextFacts DEF IInv, Stmt
  <1>5. PICK d \in Nat \ {0} : d = Depth
    BY <1>2
  <1>6. Pushes(g)
    BY <1>1, <1>4, EnterPushes DEF IInv
  <1>7. /\ Depth' = d + 1
        /\ \A i \in 1 .. d : /\ stack'[i].file = stack[i].file /\ stack'[i].alias = stack[i].alias
                             /\ stack'[i].at = IF i = d THEN stack[i].at + 1 ELSE stack[i].at
        /\ stack'[d + 1].file = g /\ stack'[d + 1].alias = a /\ stack'[d + 1].at = 1
    <2>1. Activation(g, a) \in Act /\ Activation(g, a).alias = a
      BY DEF Activation, Act
    <2>2. Advanced \in Seq(Act) /\ Len(Advanced) = d
          /\ \A i \in 1 .. d : Advanced[i].alias = stack[i].alias
      BY <1>5, AdvancedFacts, AdvancedAliases DEF IInv
    <2>3. \A i \in 1 .. d : stack'[i] = Advanced[i]
      BY <1>1, <1>4, <2>1, <2>2, AppendProperties
    <2>4. stack'[d + 1] = Activation(g, a)
      BY <1>1, <1>4, <2>1, <2>2, AppendProperties
    <2> QED
      BY <1>5, <1>6, <2>1, <2>2, <2>3, <2>4 DEF Pushes, Places, Depth
  <1>8. /\ outs' \in Seq(Seq(Collected)) /\ Len(outs') = d + 1
        /\ \A i \in 1 .. d : outs'[i] = outs[i]
        /\ outs'[d + 1] = <<>>
    <2>1. outs \in Seq(Seq(Collected)) /\ Len(outs) = d /\ <<>> \in Seq(Collected)
      BY <1>5 DEF NamesInv, OutsTyped
    <2> QED
      BY <1>1, <2>1, AppendProperties
  <1>9. aliases \subseteq aliases' /\ (a # None => a \in aliases')
    BY <1>1, <1>4 DEF NoteAlias, maps
  <1>10. Grows(Depth)
    <2>1. /\ d <= Depth' /\ text' = text /\ astray' = astray
      BY <1>1, <1>7
    <2>2. \A i \in 1 .. d : \A x \in DOMAIN outs[i] :
             x \in DOMAIN outs'[i] /\ outs'[i][x] = outs[i][x]
      BY <1>8
    <2> QED
      BY <1>5, <1>7, <1>9, <2>1, <2>2 DEF Grows
  <1>11. OutsTyped'
    BY <1>7, <1>8 DEF OutsTyped
  <1>12. text'[stack'[d].file][stack'[d].at - 1] = Stmt
    <2>1. stack'[d].file = Top.file /\ stack'[d].at - 1 = Top.at
      <3>1. d \in 1 .. d /\ Top = stack[d]
        BY <1>2, <1>5
      <3>2. stack'[d].file = stack[d].file /\ stack'[d].at = stack[d].at + 1
        BY <1>7, <3>1
      <3> QED
        BY <1>2, <3>1, <3>2
    <2> QED
      BY <1>1, <2>1 DEF Stmt
  <1>13. Linked'
    <2>1. text' = text /\ Depth' - 1 = d
      BY <1>1, <1>5, <1>7
    <2> SUFFICES ASSUME NEW i \in 1 .. d
                 PROVE  text'[stack'[i].file][stack'[i].at - 1].alias = stack'[i + 1].alias
      BY <2>1 DEF Linked
    <2>2. CASE i = d
      BY <1>4, <1>7, <1>12, <2>2
    <2>3. CASE i # d
      <3>1. i \in 1 .. Depth - 1 /\ i + 1 \in 1 .. d
        BY <1>5, <2>3
      <3> QED
        BY <1>7, <2>1, <2>3, <3>1 DEF NamesInv, Linked
    <2> QED
      BY <2>2, <2>3
  <1>14. DeclInv(N, P)' /\ UseInv(N)'
    <2> SUFFICES ASSUME NEW j \in 1 .. d + 1, NEW x \in DOMAIN outs'[j]
                 PROVE  DeclFine(j, x, N, P)' /\ UsesFine(j, x, N)'
      BY <1>7 DEF DeclInv, UseInv
    <2>1. j \in 1 .. Depth /\ x \in DOMAIN outs[j]
      BY <1>5, <1>8
    <2> QED
      BY <1>10, <2>1, FineGrows DEF NamesInv, DeclInv, UseInv
  <1>15. DealtInv(N)'
    <2> SUFFICES ASSUME NEW j \in 1 .. d + 1, NEW k \in 1 .. stack'[j].at - 1
                 PROVE  Dealt(j, k, N)'
      BY <1>7 DEF DealtInv
    <2>1. j \in 1 .. Depth /\ stack[j].at \in Nat
      BY <1>2, <1>5, <1>7 DEF Act
    <2>2. CASE k \in 1 .. stack[j].at - 1
      <3>1. Dealt(j, k, N)
        BY <2>1, <2>2 DEF NamesInv, DealtInv
      <3>2. Waits(j, k) => Waits(j, k)'
        BY <1>5, <1>7, <2>1 DEF Waits
      <3> QED
        BY <1>10, <2>1, <3>1, <3>2, FineGrows DEF NamesInv
    <2>3. CASE j = d /\ k = stack[j].at
      <3>1. PICK s : s = Stmt
        OBVIOUS
      <3>2. text'[stack'[j].file][k] = s
        BY <1>2, <1>5, <1>7, <1>12, <2>3, <3>1
      <3>3. s.k = "include" /\ s.alias = a /\ ~Declares(s)
        BY <1>1, <1>4, <3>1 DEF Declares
      <3>4. Waits(j, k)'
        BY <1>7, <2>1, <2>3 DEF Waits
      <3> QED
        BY <1>9, <3>2, <3>3, <3>4 DEF Dealt
    <2> QED
      BY <1>5, <1>7, <2>1, <2>2, <2>3
  <1>16. SettledInv(N)'
    <2>1. \A S : WithIncludes(S)' <=> WithIncludes(S)
      BY <1>1 DEF WithIncludes, IncludesOf
    <2> QED
      BY <1>1, <1>9, <2>1 DEF NamesInv, SettledInv, Settled, Finished
  <1>17. PlaceInv(N)'
    <2>1. ASSUME NEW j \in 2 .. d + 1, stack'[j].alias = None
          PROVE  IsAround(place[stack[j].file], j)'
      <3>1. CASE j = d + 1
        <4>1. a = None
          BY <1>7, <2>1, <3>1
        <4>2. PICK p \in Int : p = Around /\ IsAround(p, d)
          BY <1>5, AroundFacts DEF IInv, IsAround
        <4>3. d \in 1 .. Depth
          BY <1>5
        <4>4. IsAround(p, d)'
          BY <1>10, <4>2, <4>3, KnownGrows
        <4>5. IsAround(p, d + 1)'
          BY <1>7, <4>1, <4>4 DEF IsAround
        <4>6. place'[stack'[j].file] = p
          BY <1>1, <1>4, <1>7, <3>1, <4>1, <4>2 DEF IInv, RestInv
        <4> QED
          BY <3>1, <4>5, <4>6
      <3>2. CASE j \in 2 .. d
        <4>1. j \in 1 .. Depth /\ j \in 2 .. Depth /\ stack[j].file \in File
          BY <1>2, <1>5, <3>2 DEF Act
        <4>2. PICK p \in Int : p = place[stack[j].file]
          BY <4>1 DEF IInv, RestInv
        <4>3. IsAround(p, j)
          BY <1>5, <1>7, <2>1, <4>1, <4>2 DEF NamesInv, PlaceInv
        <4>4. IsAround(p, j)'
          BY <1>10, <4>1, <4>3, KnownGrows
        <4>5. stack[j].file # g
          BY <4>1 DEF IInv, WalkInv
        <4>6. place'[stack'[j].file] = p
          BY <1>1, <1>4, <1>5, <1>7, <4>1, <4>2, <4>5 DEF IInv, RestInv
        <4> QED
          BY <4>4, <4>6
      <3> QED
        BY <1>5, <2>1, <3>1, <3>2
    <2>2. ASSUME NEW h \in File, place'[h] # Closed, ~Running(h)'
          PROVE  Placed(h, N)'
      <3>1. ~Running(h)
        BY <1>5, <1>7, <2>2 DEF Running
      <3>2. place'[h] = place[h]
        <4>1. CASE h = g /\ a = None
          <5>1. Running(h)'
            BY <1>5, <1>7, <4>1 DEF Running
          <5> QED
            BY <2>2, <5>1
        <4>2. CASE ~(h = g /\ a = None)
          BY <1>1, <1>4, <4>2 DEF IInv, RestInv
        <4> QED
          BY <4>1, <4>2
      <3>3. Placed(h, N)
        BY <2>2, <3>1, <3>2 DEF NamesInv, PlaceInv
      <3> QED
        BY <1>10, <3>2, <3>3, PlacedGrows DEF IInv
    <2> QED
      BY <1>7, <2>1, <2>2 DEF PlaceInv
  <1> QED
    BY <1>1, <1>11, <1>13, <1>14, <1>15, <1>16, <1>17 DEF NamesInv

\* What an activation returns declares what it has collected, under the alias.
LEMMA ReturnedDecls ==
  ASSUME NEW a \in Alias \cup {None}, NEW o \in Seq(Collected),
         NEW r, r = IF a = None THEN o ELSE prefix_program(o, a)
  PROVE  /\ r \in Seq(Collected) /\ Len(r) = Len(o)
         /\ \A y \in 1 .. Len(o) :
               /\ r[y].k = o[y].k
               /\ Declares(o[y]) => r[y].name = Into(o[y].name, a) /\ r[y].origin = o[y].origin
               /\ o[y].k = "func" => r[y].params = o[y].params
  <1>1. CASE a = None
    BY <1>1 DEF Into
  <1>2. CASE a # None
    <2> DEFINE tops == TopLevelNames(o)
    <2>1. a \in Alias /\ DOMAIN o = 1 .. Len(o) /\ Len(o) \in Nat
      BY <1>2, LenProperties
    <2>2. r = [y \in 1 .. Len(o) |-> PrefixStmt(o[y], a, tops)]
      BY <1>2, <2>1 DEF prefix_program
    <2>3. \A y \in 1 .. Len(o) :
             /\ o[y] \in Collected /\ PrefixStmt(o[y], a, tops) \in Collected
             /\ PrefixStmt(o[y], a, tops).k = o[y].k
             /\ Declares(o[y]) => /\ PrefixStmt(o[y], a, tops).name = Rename(o[y].name, a, tops)
                                  /\ PrefixStmt(o[y], a, tops).origin = o[y].origin
             /\ o[y].k = "func" => PrefixStmt(o[y], a, tops).params = o[y].params
      BY <2>1, PrefixedStmt
    <2>4. \A y \in 1 .. Len(o) : Declares(o[y]) => Rename(o[y].name, a, tops) = Into(o[y].name, a)
      BY <1>2, <2>1 DEF Rename, Into, TopLevelNames
    <2> HIDE DEF tops
    <2>5. r \in Seq(Collected) /\ Len(r) = Len(o)
      BY <2>1, <2>2, <2>3
    <2> QED
      BY <2>2, <2>3, <2>4, <2>5
  <1> QED
    BY <1>1, <1>2

\* And it uses what that uses, under the alias if it is declared there.
LEMMA ReturnedUses ==
  ASSUME NEW a \in Alias \cup {None}, NEW o \in Seq(Collected),
         NEW r, r = IF a = None THEN o ELSE prefix_program(o, a),
         NEW y \in 1 .. Len(o),
         \A c \in Simples(o[y]) : c.e.means # None => c.e.inside \notin {"braces", "opaque"}
  PROVE  \A e \in Simples(r[y]) :
            /\ e.e.means # None => e.e.inside \notin {"braces", "opaque"}
            /\ \A u \in UsesOf(e) :
                  \/ u.means = None
                  \/ \E c \in Simples(o[y]) : \E w \in UsesOf(c) :
                        /\ w.means = u.means
                        /\ \/ a = None /\ u.name = w.name
                           \/ a # None /\ w.name \in Name
                              /\ u.name = Rename(w.name, a, TopLevelNames(o))
  <1>1. CASE a = None
    BY <1>1
  <1>2. CASE a # None
    <2>1. PICK tops : tops = TopLevelNames(o)
      OBVIOUS
    <2>2. a \in Alias /\ DOMAIN o = 1 .. Len(o) /\ o[y] \in Collected
      BY <1>2, LenProperties
    <2>3. r[y] = PrefixStmt(o[y], a, tops)
      BY <1>2, <2>1, <2>2 DEF prefix_program
    <2> SUFFICES ASSUME NEW e \in Simples(r[y])
                 PROVE  /\ e.e.means # None => e.e.inside \notin {"braces", "opaque"}
                        /\ \A u \in UsesOf(e) :
                              \/ u.means = None
                              \/ \E c \in Simples(o[y]) : \E w \in UsesOf(c) :
                                    /\ w.means = u.means /\ w.name \in Name
                                    /\ u.name = Rename(w.name, a, tops)
      BY <1>2, <2>1
    <2>4. PICK c \in Simples(o[y]) : e = PrefixSimple(c, a, tops)
      BY <2>2, <2>3, PrefixedStmt
    <2>5. c \in Simple
      BY <2>2, SimplesTyped
    <2>6. e.e.means = c.e.means /\ e.e.inside = c.e.inside
      BY <2>2, <2>4, <2>5, PrefixedSimple
    <2>7. ASSUME NEW u \in UsesOf(e)
          PROVE  u.means = None \/ \E w \in UsesOf(c) : /\ w.means = u.means /\ w.name \in Name
                                                        /\ u.name = Rename(w.name, a, tops)
      BY <2>2, <2>4, <2>5, <2>7, PrefixedUses
    <2> QED
      BY <2>6, <2>7
  <1> QED
    BY <1>1, <1>2

\* The activation above the d-th returns what it has collected, o, as r: a
\* is the alias and g the file of the include of f that pushed it.
Returns(d, f, g, a, o, r) ==
    /\ d \in Nat \ {0} /\ Depth = d + 1 /\ Depth' = d
    /\ f \in File /\ g \in File /\ a \in Alias \cup {None}
    /\ stack[d].file = f /\ stack[d + 1].file = g /\ stack[d + 1].alias = a
    /\ \A i \in 1 .. d : stack'[i] = stack[i] /\ stack[i] \in Act
    /\ IncludeAt(f, stack[d].at - 1)
    /\ text[f][stack[d].at - 1].file = g /\ text[f][stack[d].at - 1].alias = a
    /\ o = outs[d + 1] /\ o \in Seq(Collected)
    /\ r = IF a = None THEN o ELSE prefix_program(o, a)
    /\ outs[d] \in Seq(Collected)
    /\ outs' \in Seq(Seq(Collected)) /\ Len(outs') = d
    /\ \A i \in 1 .. d - 1 : outs'[i] = outs[i]
    /\ outs'[d] = outs[d] \o r
    /\ UNCHANGED <<text, astray, aliases>>

LEMMA LeaveReturns ==
  ASSUME IInv, NEW N, NEW P, NamesInv(N, P), Leave
  PROVE  \E d, f, g, a, o, r : Returns(d, f, g, a, o, r)
  <1>1. /\ UNCHANGED <<text, included, aliases, first, status, astray>>
        /\ Depth > 1 /\ stack' = SubSeq(stack, 1, Depth - 1)
        /\ outs' = [SubSeq(outs, 1, Depth - 1) EXCEPT ![Depth - 1] = @ \o Returned]
    BY DEF Leave, Left, maps
  <1>2. Pops
    BY <1>1, LeavePops DEF IInv
  <1>3. PICK d \in Nat \ {0} : Depth = d + 1
    <2>1. Depth \in Nat /\ Depth - 1 \in Nat \ {0} /\ Depth = (Depth - 1) + 1
      BY <1>1, TextFacts DEF IInv
    <2> QED
      BY <2>1
  <1>4. Depth' = d /\ \A i \in 1 .. d : stack'[i] = stack[i]
    BY <1>2, <1>3 DEF Pops, Depth
  <1>5. \A i \in 1 .. d + 1 : stack[i] \in Act
    BY <1>3, TextFacts DEF IInv
  <1>6. PICK f \in File, g \in File, a \in Alias \cup {None} :
            stack[d].file = f /\ stack[d + 1].file = g /\ stack[d + 1].alias = a
    <2>1. stack[d] \in Act /\ stack[d + 1] \in Act
      BY <1>3, <1>5
    <2> QED
      BY <2>1 DEF Act
  <1>7. /\ IncludeAt(f, stack[d].at - 1)
        /\ text[f][stack[d].at - 1].file = g /\ text[f][stack[d].at - 1].alias = a
    <2>1. d \in 1 .. Depth - 1
      BY <1>3
    <2> QED
      BY <1>6, <2>1 DEF IInv, WalkInv, NamesInv, Linked
  <1>8. PICK o \in Seq(Collected) : o = outs[d + 1]
    BY <1>3 DEF NamesInv, OutsTyped
  <1>9. PICK r \in Seq(Collected) :
            r = (IF a = None THEN o ELSE prefix_program(o, a)) /\ r = Returned
    <2>1. Returned = IF a = None THEN o ELSE prefix_program(o, a)
      BY <1>3, <1>6, <1>8 DEF Returned, Top
    <2>2. Returned \in Seq(Collected)
      BY <2>1, ReturnedDecls
    <2> QED
      BY <2>1, <2>2
  <1>10. /\ outs[d] \in Seq(Collected)
         /\ outs' \in Seq(Seq(Collected)) /\ Len(outs') = d
         /\ \A i \in 1 .. d - 1 : outs'[i] = outs[i]
         /\ outs'[d] = outs[d] \o r
    <2>1. outs \in Seq(Seq(Collected)) /\ Len(outs) = d + 1 /\ outs[d] \in Seq(Collected)
      BY <1>3 DEF NamesInv, OutsTyped
    <2>2. PICK z : z = SubSeq(outs, 1, d)
      OBVIOUS
    <2>3. z \in Seq(Seq(Collected)) /\ Len(z) = d /\ \A i \in 1 .. d : z[i] = outs[i]
      BY <1>3, <2>1, <2>2, SubSeqProperties
    <2>4. PICK x \in Seq(Collected) : x = outs[d] \o r
      BY <1>9, <2>1, ConcatProperties
    <2>5. outs' = [z EXCEPT ![d] = x]
      <3>1. Depth - 1 = d
        BY <1>3
      <3>2. outs' = [z EXCEPT ![d] = z[d] \o r]
        BY <1>1, <1>9, <2>2, <3>1
      <3>3. z[d] = outs[d]
        BY <2>3
      <3> QED
        BY <2>4, <3>2, <3>3
    <2>6. outs' \in Seq(Seq(Collected)) /\ Len(outs') = d
      BY <2>3, <2>4, <2>5, ExceptSeq
    <2>7. outs'[d] = x /\ \A i \in 1 .. d - 1 : outs'[i] = outs[i]
      <3>1. d \in 1 .. d /\ \A i \in 1 .. d - 1 : i \in 1 .. d /\ i # d
        OBVIOUS
      <3>2. DOMAIN z = 1 .. d
        BY <2>3
      <3> QED
        BY <2>3, <2>5, <3>1, <3>2
    <2> QED
      BY <2>1, <2>4, <2>6, <2>7
  <1>11. \A i \in 1 .. d : stack[i] \in Act
    BY <1>5
  <1>12. Returns(d, f, g, a, o, r)
    BY <1>1, <1>3, <1>4, <1>6, <1>7, <1>8, <1>9, <1>10, <1>11, Zenon DEF Returns
  <1> QED
    BY <1>12

\* Where things are after that.
LEMMA ReturnedAt ==
  ASSUME NEW d, NEW f, NEW g, NEW a, NEW o, NEW r, Returns(d, f, g, a, o, r)
  PROVE  /\ Grows(d)
         /\ Len(r) = Len(o) /\ Len(o) \in Nat /\ Len(outs[d]) \in Nat
         /\ DOMAIN outs[d] = 1 .. Len(outs[d]) /\ DOMAIN o = 1 .. Len(o)
         /\ DOMAIN outs'[d] = 1 .. Len(outs[d]) + Len(o)
         /\ \A x \in 1 .. Len(outs[d]) : outs'[d][x] = outs[d][x]
         /\ \A y \in 1 .. Len(o) : outs'[d][Len(outs[d]) + y] = r[y]
  <1>1. /\ r \in Seq(Collected) /\ Len(r) = Len(o) /\ o \in Seq(Collected)
        /\ outs[d] \in Seq(Collected)
    BY ReturnedDecls DEF Returns
  <1>2. outs'[d] = outs[d] \o r
    BY DEF Returns
  <1>3. /\ Len(r) = Len(o) /\ Len(o) \in Nat /\ Len(outs[d]) \in Nat
        /\ DOMAIN outs[d] = 1 .. Len(outs[d]) /\ DOMAIN o = 1 .. Len(o)
    BY <1>1, LenProperties
  <1>4. /\ DOMAIN outs'[d] = 1 .. Len(outs[d]) + Len(o)
        /\ \A x \in 1 .. Len(outs[d]) : outs'[d][x] = outs[d][x]
        /\ \A y \in 1 .. Len(o) : outs'[d][Len(outs[d]) + y] = r[y]
    <2>1. /\ Len(outs[d] \o r) = Len(outs[d]) + Len(r)
          /\ \A i \in 1 .. Len(outs[d]) + Len(r) :
                (outs[d] \o r)[i] = IF i <= Len(outs[d]) THEN outs[d][i] ELSE r[i - Len(outs[d])]
          /\ outs[d] \o r \in Seq(Collected)
      BY <1>1, ConcatProperties
    <2>2. DOMAIN (outs[d] \o r) = 1 .. Len(outs[d]) + Len(r)
      BY <2>1
    <2>3. PICK m \in Nat, k \in Nat : m = Len(outs[d]) /\ k = Len(o) /\ k = Len(r)
      BY <1>3
    <2>4. \A x \in 1 .. m : x \in 1 .. m + k /\ x <= m
      OBVIOUS
    <2>5. \A y \in 1 .. k : m + y \in 1 .. m + k /\ ~(m + y <= m) /\ (m + y) - m = y
      OBVIOUS
    <2> QED
      BY <1>2, <2>1, <2>2, <2>3, <2>4, <2>5
  <1>5. Grows(d)
    <2>1. ASSUME NEW i \in 1 .. d, NEW x \in DOMAIN outs[i]
          PROVE  x \in DOMAIN outs'[i] /\ outs'[i][x] = outs[i][x]
      <3>1. CASE i = d
        <4>1. PICK m \in Nat, k \in Nat : m = Len(outs[d]) /\ k = Len(o)
          BY <1>3
        <4>2. x \in 1 .. m
          BY <1>3, <2>1, <3>1, <4>1
        <4>3. x \in 1 .. m + k
          BY <4>2
        <4> QED
          BY <1>4, <3>1, <4>1, <4>2, <4>3
      <3>2. CASE i # d
        <4>1. i \in 1 .. d - 1
          BY <3>2 DEF Returns
        <4> QED
          BY <2>1, <4>1 DEF Returns
      <3> QED
        BY <3>1, <3>2
    <2> QED
      BY <2>1 DEF Returns, Grows
  <1> QED
    BY <1>3, <1>4, <1>5

\* What was known to the activation that is left is known, under its alias,
\* to the one below; and what was declared before still is.
LEMMA KnownReturned ==
  ASSUME NEW d, NEW f, NEW g, NEW a, NEW o, NEW r, Returns(d, f, g, a, o, r),
         NEW b, b = Len(outs[d]), NEW q
  PROVE  /\ \A y \in 1 .. Len(o) : DeclaredAt(d + 1, y, q) => DeclaredAt(d, b + y, Into(q, a))'
         /\ DeclaredIn(d + 1, q) => DeclaredIn(d, Into(q, a))'
         /\ Known(d + 1, q) => Known(d, Into(q, a))'
         /\ \A y \in 1 .. Len(o) : Earlier(d + 1, y, q) => Earlier(d, b + y, Into(q, a))'
         /\ a # None => /\ Known(d + 1, q) => DeclaredIn(d + 1, q)
                        /\ \A y \in 1 .. Len(o) : Earlier(d + 1, y, q) => DeclaredIn(d + 1, q)
  <1>1. /\ Grows(d) /\ Len(r) = Len(o) /\ Len(o) \in Nat /\ b \in Nat
        /\ DOMAIN outs[d] = 1 .. b /\ DOMAIN o = 1 .. Len(o)
        /\ DOMAIN outs'[d] = 1 .. b + Len(o)
        /\ \A y \in 1 .. Len(o) : outs'[d][b + y] = r[y]
    BY ReturnedAt
  <1>2. d \in Nat \ {0} /\ o = outs[d + 1] /\ stack[d + 1].alias = a
    BY DEF Returns
  <1>3. \A y \in 1 .. Len(o) : /\ r[y].k = o[y].k
                               /\ Declares(o[y]) => r[y].name = Into(o[y].name, a)
    <2>1. /\ a \in Alias \cup {None} /\ o \in Seq(Collected)
          /\ r = IF a = None THEN o ELSE prefix_program(o, a)
      BY DEF Returns
    <2> QED
      BY <2>1, ReturnedDecls
  <1>4. ASSUME NEW y \in 1 .. Len(o), DeclaredAt(d + 1, y, q)
        PROVE  DeclaredAt(d, b + y, Into(q, a))'
    <2>1. Declares(o[y]) /\ o[y].name = q
      BY <1>2, <1>4 DEF DeclaredAt
    <2>2. Declares(r[y]) /\ r[y].name = Into(q, a)
      BY <1>3, <1>4, <2>1 DEF Declares
    <2>3. b + y \in DOMAIN outs'[d] /\ outs'[d][b + y] = r[y]
      BY <1>1
    <2> QED
      BY <2>2, <2>3 DEF DeclaredAt
  <1>5. ASSUME DeclaredIn(d + 1, q)
        PROVE  DeclaredIn(d, Into(q, a))'
    <2>1. PICK y \in 1 .. Len(o) : DeclaredAt(d + 1, y, q)
      BY <1>1, <1>2, <1>5 DEF DeclaredIn
    <2>2. DeclaredAt(d, b + y, Into(q, a))'
      BY <1>4, <2>1
    <2> QED
      BY <2>2 DEF DeclaredIn, DeclaredAt
  <1>6. ASSUME NEW i \in 1 .. d, SameSpace(i, d + 1)
        PROVE  a = None /\ SameSpace(i, d) /\ Into(q, a) = q
    <2>1. d + 1 \in i + 1 .. d + 1
      BY <1>2
    <2>2. a = None
      BY <1>2, <1>6, <2>1 DEF SameSpace
    <2> QED
      BY <1>2, <1>6, <2>2 DEF SameSpace, Into
  <1>7. d \in 1 .. d
    BY <1>2
  <1>8. ASSUME Known(d + 1, q)
        PROVE  Known(d, Into(q, a))' /\ (a # None => DeclaredIn(d + 1, q))
    <2>1. PICK i \in 1 .. d + 1 : SameSpace(i, d + 1) /\ DeclaredIn(i, q)
      BY <1>8 DEF Known
    <2>2. CASE i = d + 1
      <3>1. DeclaredIn(d, Into(q, a))'
        BY <1>5, <2>1, <2>2
      <3>2. SameSpace(d, d)'
        BY <1>2 DEF SameSpace
      <3> QED
        BY <1>7, <2>1, <2>2, <3>1, <3>2 DEF Known
    <2>3. CASE i # d + 1
      <3>1. i \in 1 .. d
        BY <1>2, <2>3
      <3>2. a = None /\ SameSpace(i, d) /\ Into(q, a) = q
        BY <1>6, <2>1, <3>1
      <3>3. Known(d, q)
        BY <2>1, <3>1, <3>2 DEF Known
      <3>4. Known(d, q)'
        BY <1>1, <1>7, <3>3, KnownGrows
      <3> QED
        BY <3>2, <3>4
    <2> QED
      BY <2>2, <2>3
  <1>9. ASSUME NEW y \in 1 .. Len(o), Earlier(d + 1, y, q)
        PROVE  Earlier(d, b + y, Into(q, a))' /\ (a # None => DeclaredIn(d + 1, q))
    <2>1. CASE \E i \in 1 .. d : SameSpace(i, d + 1) /\ DeclaredIn(i, q)
      <3>1. PICK i \in 1 .. d : SameSpace(i, d + 1) /\ DeclaredIn(i, q)
        BY <2>1
      <3>2. a = None /\ SameSpace(i, d) /\ Into(q, a) = q
        BY <1>6, <3>1
      <3>3. CASE i = d
        <4>1. PICK z \in 1 .. b : DeclaredAt(d, z, q)
          BY <1>1, <3>1, <3>3 DEF DeclaredIn
        <4>2. DeclaredAt(d, z, q)'
          BY <1>1, <1>7, <4>1 DEF Grows, DeclaredAt
        <4>3. z \in 1 .. b + y - 1
          BY <1>1
        <4> QED
          BY <3>2, <4>2, <4>3 DEF Earlier
      <3>4. CASE i # d
        <4>1. i \in 1 .. d - 1
          BY <1>2, <3>4
        <4>2. SameSpace(i, d)' /\ DeclaredIn(i, q)'
          BY <1>1, <1>7, <3>1, <3>2, KnownGrows
        <4> QED
          BY <3>2, <4>1, <4>2 DEF Earlier
      <3> QED
        BY <3>2, <3>3, <3>4
    <2>2. CASE \E z \in 1 .. y - 1 : DeclaredAt(d + 1, z, q)
      <3>1. PICK z \in 1 .. y - 1 : DeclaredAt(d + 1, z, q)
        BY <2>2
      <3>2. z \in 1 .. Len(o) /\ b + z \in 1 .. b + y - 1
        BY <1>1, <3>1
      <3>3. DeclaredAt(d, b + z, Into(q, a))'
        BY <1>4, <3>1, <3>2
      <3>4. DeclaredIn(d + 1, q)
        BY <3>1 DEF DeclaredIn, DeclaredAt
      <3> QED
        BY <3>2, <3>3, <3>4 DEF Earlier
    <2>3. (d + 1) - 1 = d
      BY <1>2
    <2> QED
      BY <1>9, <2>1, <2>2, <2>3 DEF Earlier
  <1> QED
    BY <1>4, <1>5, <1>8, <1>9

\* A namespace and the one of a file it includes.
LEMMA Includer ==
  ASSUME NEW N, NEW P, WellNamed(text, N, P),
         NEW d, NEW f, NEW g, NEW a, NEW o, NEW r, Returns(d, f, g, a, o, r)
  PROVE  /\ \A q \in DOMAIN N[g] : /\ q \in Name
                                  /\ Into(q, a) \in DOMAIN N[f] /\ N[f][Into(q, a)] = N[g][q]
         /\ DOMAIN N[g] \cap P[g] = {} /\ P[g] \subseteq P[f]
  <1>1. PICK k : k = stack[d].at - 1
    OBVIOUS
  <1>2. /\ k \in DOMAIN text[f] /\ text[f][k].k = "include" /\ text[f][k].file = g
        /\ text[f][k].alias = a /\ f \in File /\ g \in File
    BY <1>1 DEF Returns, IncludeAt
  <1>3. HasNames(f, text, N, P) /\ HasNames(g, text, N, P)
    BY <1>2 DEF WellNamed
  <1>4. DOMAIN N[g] \subseteq Name /\ DOMAIN N[g] \cap P[g] = {}
    BY <1>3 DEF HasNames
  <1>5. P[g] \subseteq P[f]
    BY <1>2, <1>3 DEF HasNames
  <1>6. ASSUME NEW q \in DOMAIN N[g]
        PROVE  Into(q, a) \in DOMAIN N[f] /\ N[f][Into(q, a)] = N[g][q]
    <2>1. \A p \in DOMAIN N[text[f][k].file] :
             /\ Into(p, text[f][k].alias) \in DOMAIN N[f]
             /\ N[f][Into(p, text[f][k].alias)] = N[text[f][k].file][p]
      BY <1>2, <1>3 DEF HasNames
    <2> QED
      BY <1>2, <2>1
  <1> QED
    BY <1>4, <1>5, <1>6

\* What the activation that is left has collected is as fine below.
LEMMA FineReturned ==
  ASSUME IInv, NEW N, NEW P, WellNamed(text, N, P), NamesInv(N, P), AtEnd,
         NEW d, NEW f, NEW g, NEW a, NEW o, NEW r, Returns(d, f, g, a, o, r),
         NEW b, b = Len(outs[d]), NEW y \in 1 .. Len(o)
  PROVE  DeclFine(d, b + y, N, P)' /\ UsesFine(d, b + y, N)'
  <1>1. /\ d + 1 \in 1 .. Depth /\ d \in Nat /\ o = outs[d + 1] /\ stack[d + 1].file = g
        /\ Top.file = g /\ Depth = d + 1 /\ stack[d].file = f /\ stack'[d].file = f
        /\ text' = text /\ astray' = astray
    BY DEF Returns, Top
  <1>2. outs'[d][b + y] = r[y] /\ y \in DOMAIN outs[d + 1]
    BY <1>1, ReturnedAt
  <1>3. /\ r[y].k = o[y].k
        /\ Declares(o[y]) => r[y].name = Into(o[y].name, a) /\ r[y].origin = o[y].origin
        /\ o[y].k = "func" => r[y].params = o[y].params
    <2>1. /\ a \in Alias \cup {None} /\ o \in Seq(Collected)
          /\ r = IF a = None THEN o ELSE prefix_program(o, a)
      BY DEF Returns
    <2> QED
      BY <2>1, ReturnedDecls
  <1>4. /\ \A q \in DOMAIN N[g] : /\ q \in Name
                                 /\ Into(q, a) \in DOMAIN N[f] /\ N[f][Into(q, a)] = N[g][q]
        /\ DOMAIN N[g] \cap P[g] = {} /\ P[g] \subseteq P[f]
    BY Includer
  <1>5. DeclFine(d + 1, y, N, P) /\ UsesFine(d + 1, y, N)
    BY <1>1, <1>2 DEF NamesInv, DeclInv, UseInv
  <1>6. DeclFine(d, b + y, N, P)'
    <2>1. Declares(r[y]) => Declares(o[y])
      BY <1>3 DEF Declares
    <2> QED
      BY <1>1, <1>2, <1>3, <1>4, <1>5, <2>1 DEF DeclFine
  <1>7. \A v : Excused(v) => Excused(v)'
    BY <1>1, ExcusedGrows
  <1>8. ASSUME NEW w, UseFine(w, d + 1, y, N), NEW u, u.means = w.means, w.means # None,
               \/ a = None /\ u.name = w.name
               \/ a # None /\ w.name \in Name /\ u.name = Rename(w.name, a, TopLevelNames(o))
        PROVE  UseFine(u, d, b + y, N)'
    <2>1. CASE w.means = Parameter /\ w.name \in Scope(o[y])
      <3>1. o[y].k = "func" /\ w.name \in o[y].params /\ w.name \in P[g]
        BY <1>1, <1>5, <2>1 DEF Scope, DeclFine
      <3>2. u.name = w.name
        <4>1. ASSUME a # None PROVE w.name \notin TopLevelNames(o)
          <5> SUFFICES ASSUME w.name \in TopLevelNames(o) PROVE FALSE
            OBVIOUS
          <5>1. PICK z \in DOMAIN o : Declares(o[z]) /\ o[z].name = w.name
            BY DEF TopLevelNames
          <5>2. w.name \in DOMAIN N[g]
            BY <1>1, <5>1 DEF NamesInv, DeclInv, DeclFine
          <5> QED
            BY <1>4, <3>1, <5>2
        <4> QED
          BY <1>8, <4>1 DEF Rename
      <3> QED
        BY <1>2, <1>3, <1>8, <2>1, <3>1, <3>2 DEF UseFine, Scope
    <2>2. CASE Excused(w.means)
      BY <1>7, <1>8, <2>2 DEF UseFine
    <2>3. CASE /\ w.name \in DOMAIN N[g] /\ N[g][w.name] = w.means /\ ~Excused(w.means)
               /\ o[y].k = "func" \/ Earlier(d + 1, y, w.name)
      <3>1. PICK q \in DOMAIN N[g] : q = w.name
        BY <2>3
      <3>2. a # None => DeclaredIn(d + 1, q)
        <4>1. Known(d + 1, q) \/ Earlier(d + 1, y, q)
          <5>1. Known(Depth, q) \/ Excused(N[g][q]) \/ Earlier(d + 1, y, q)
            BY <1>1, Complete DEF NamesInv
          <5> QED
            BY <1>1, <2>3, <3>1, <5>1
        <4> QED
          BY <4>1, KnownReturned
      <3>3. u.name = Into(q, a)
        <4>1. CASE a = None
          BY <1>8, <3>1, <4>1 DEF Into
        <4>2. CASE a # None
          <5>1. q \in TopLevelNames(o)
            BY <1>1, <3>2, <4>2 DEF DeclaredIn, DeclaredAt, TopLevelNames
          <5> QED
            BY <1>8, <3>1, <4>2, <5>1 DEF Into, Rename
        <4> QED
          BY <4>1, <4>2
      <3>4. Earlier(d + 1, y, q) => Earlier(d, b + y, Into(q, a))'
        BY KnownReturned
      <3>5. r[y].k = "func" \/ Earlier(d, b + y, Into(q, a))'
        BY <1>3, <2>3, <3>1, <3>4
      <3>6. PICK p : p = Into(q, a)
        OBVIOUS
      <3> QED
        BY <1>1, <1>2, <1>4, <1>8, <2>3, <3>1, <3>3, <3>5, <3>6 DEF UseFine
    <2> QED
      BY <1>1, <1>8, <2>1, <2>2, <2>3 DEF UseFine
  <1>9. UsesFine(d, b + y, N)'
    <2>1. \A c \in Simples(o[y]) : /\ \A w \in UsesOf(c) : UseFine(w, d + 1, y, N)
                                   /\ c.e.means # None => c.e.inside \notin {"braces", "opaque"}
      BY <1>1, <1>5 DEF UsesFine
    <2>2. ASSUME NEW e \in Simples(r[y])
          PROVE  /\ e.e.means # None => e.e.inside \notin {"braces", "opaque"}
                 /\ \A u \in UsesOf(e) : UseFine(u, d, b + y, N)'
      <3>1. /\ e.e.means # None => e.e.inside \notin {"braces", "opaque"}
            /\ \A u \in UsesOf(e) :
                  \/ u.means = None
                  \/ \E c \in Simples(o[y]) : \E w \in UsesOf(c) :
                        /\ w.means = u.means
                        /\ \/ a = None /\ u.name = w.name
                           \/ a # None /\ w.name \in Name
                              /\ u.name = Rename(w.name, a, TopLevelNames(o))
        <4>1. /\ a \in Alias \cup {None} /\ o \in Seq(Collected)
              /\ r = IF a = None THEN o ELSE prefix_program(o, a)
          BY DEF Returns
        <4>2. \A c \in Simples(o[y]) : c.e.means # None => c.e.inside \notin {"braces", "opaque"}
          BY <2>1
        <4> QED
          BY <2>2, <4>1, <4>2, ReturnedUses
      <3>2. ASSUME NEW u \in UsesOf(e)
            PROVE  UseFine(u, d, b + y, N)'
        <4>1. CASE u.means = None
          BY <4>1 DEF UseFine
        <4>2. CASE u.means # None
          <5>1. PICK c \in Simples(o[y]) : \E w \in UsesOf(c) :
                    /\ w.means = u.means
                    /\ \/ a = None /\ u.name = w.name
                       \/ a # None /\ w.name \in Name
                          /\ u.name = Rename(w.name, a, TopLevelNames(o))
            BY <3>1, <4>2
          <5>2. PICK w \in UsesOf(c) :
                    /\ w.means = u.means
                    /\ \/ a = None /\ u.name = w.name
                       \/ a # None /\ w.name \in Name
                          /\ u.name = Rename(w.name, a, TopLevelNames(o))
            BY <5>1
          <5>3. UseFine(w, d + 1, y, N)
            BY <2>1
          <5> QED
            BY <1>8, <4>2, <5>2, <5>3
        <4> QED
          BY <4>1, <4>2
      <3> QED
        BY <3>1, <3>2
    <2> QED
      BY <1>2, <2>2 DEF UsesFine
  <1> QED
    BY <1>6, <1>9

\* A file that was placed is still, unless the activation it was placed by
\* is left.
LEMMA PlaceReturned ==
  ASSUME IInv, NEW N, NEW P, WellNamed(text, N, P), NamesInv(N, P), Leave,
         NEW d, NEW f, NEW g, NEW a, NEW o, NEW r, Returns(d, f, g, a, o, r)
  PROVE  PlaceInv(N)'
  <1>1. /\ d \in Nat \ {0} /\ Depth = d + 1 /\ Depth' = d /\ Top.file = g
        /\ stack[d + 1].file = g /\ stack[d + 1].alias = a
        /\ \A i \in 1 .. d : stack'[i] = stack[i] /\ stack[i] \in Act
        /\ text' = text /\ astray' = astray /\ AtEnd
    BY DEF Returns, Top, Leave
  <1>2. \A h \in File : /\ place[h] \in Int
                        /\ place'[h] = IF place[h] = d + 1 THEN Closed ELSE place[h]
    BY <1>1 DEF Leave, IInv, RestInv
  <1>3. Grows(d)
    BY ReturnedAt
  <1>4. ASSUME NEW p \in Int, p # d + 1, NEW q, NEW i \in 1 .. d + 1,
               IsAround(p, i), DeclaredIn(i, q)
        PROVE  \E j \in 1 .. d : IsAround(p, j)' /\ DeclaredIn(j, q)'
    <2>1. CASE i \in 1 .. d
      <3>1. IsAround(p, i)' /\ DeclaredIn(i, q)'
        BY <1>3, <1>4, <2>1, KnownGrows
      <3> QED
        BY <2>1, <3>1
    <2>2. CASE i = d + 1
      <3>1. p \in 0 .. d /\ d + 1 \in p + 1 .. d + 1
        BY <1>1, <1>4, <2>2 DEF IsAround
      <3>2. a = None
        BY <1>1, <1>4, <2>2, <3>1 DEF IsAround
      <3>3. DeclaredIn(d, q)'
        BY <1>4, <2>2, <3>2, KnownReturned DEF Into
      <3>4. IsAround(p, d)
        BY <1>1, <1>4, <2>2, <3>1 DEF IsAround
      <3>5. d \in 1 .. d
        BY <1>1
      <3>6. IsAround(p, d)'
        BY <1>3, <1>4, <3>4, <3>5, KnownGrows
      <3> QED
        BY <3>3, <3>5, <3>6
    <2> QED
      BY <1>1, <1>4, <2>1, <2>2
  <1>5. ASSUME NEW j \in 2 .. d, stack'[j].alias = None
        PROVE  IsAround(place[stack[j].file], j)'
    <2>1. j \in 1 .. d /\ j \in 2 .. Depth /\ stack[j].file \in File
      BY <1>1 DEF Act
    <2>2. PICK p \in Int : p = place[stack[j].file]
      BY <1>2, <2>1
    <2>3. IsAround(p, j)
      BY <1>1, <1>5, <2>1, <2>2 DEF NamesInv, PlaceInv
    <2>4. IsAround(p, j)'
      BY <1>3, <2>1, <2>3, KnownGrows
    <2>5. p # d + 1
      BY <1>1, <2>3 DEF IsAround
    <2>6. place'[stack'[j].file] = p
      BY <1>1, <1>2, <2>1, <2>2, <2>5
    <2> QED
      BY <2>4, <2>6
  <1>6. ASSUME NEW h \in File, place'[h] # Closed, ~Running(h)'
        PROVE  Placed(h, N)'
    <2>1. PICK p \in Int : p = place[h] /\ p # d + 1 /\ place'[h] = p /\ p # Closed
      BY <1>2, <1>6
    <2>2. ASSUME NEW q \in DOMAIN N[h]
          PROVE  (\E i \in 1 .. d + 1 : IsAround(p, i) /\ DeclaredIn(i, q)) \/ Excused(N[h][q])
      <3>1. CASE ~Running(h)
        BY <1>1, <2>1, <3>1 DEF NamesInv, PlaceInv, Placed
      <3>2. CASE Running(h)
        <4>1. PICK j \in 2 .. d + 1 : stack[j].file = h /\ stack[j].alias = None
          BY <1>1, <3>2 DEF Running
        <4>2. j = d + 1
          <5>1. j \in 2 .. d => Running(h)'
            BY <1>1, <4>1 DEF Running
          <5> QED
            BY <1>1, <1>6, <5>1
        <4>3. h = g /\ a = None /\ IsAround(p, d + 1)
          BY <1>1, <2>1, <4>1, <4>2 DEF NamesInv, PlaceInv
        <4>4. Known(d + 1, q) \/ Excused(N[h][q])
          BY <1>1, <4>3, Complete DEF NamesInv
        <4>5. ASSUME Known(d + 1, q)
              PROVE  \E i \in 1 .. d + 1 : IsAround(p, i) /\ DeclaredIn(i, q)
          <5>1. PICK i \in 1 .. d + 1 : SameSpace(i, d + 1) /\ DeclaredIn(i, q)
            BY <4>5 DEF Known
          <5>2. p \in 0 .. d + 1 /\ (p # 0 => stack[p].alias # None)
                /\ \A x \in p + 1 .. d + 1 : stack[x].alias = None
            BY <4>3 DEF IsAround
          <5>3. p <= i
            <6>1. ~(p <= i) => p \in i + 1 .. d + 1 /\ p # 0
              BY <1>1, <5>2
            <6> QED
              BY <5>1, <5>2, <6>1 DEF SameSpace
          <5>4. IsAround(p, i)
            BY <1>1, <5>2, <5>3 DEF IsAround
          <5> QED
            BY <5>1, <5>4
        <4> QED
          BY <4>4, <4>5
      <3> QED
        BY <3>1, <3>2
    <2>3. \A v : Excused(v) => Excused(v)'
      BY <1>1, ExcusedGrows
    <2>4. ASSUME NEW q \in DOMAIN N[h]
          PROVE  (\E i \in 1 .. d : IsAround(p, i)' /\ DeclaredIn(i, q)') \/ Excused(N[h][q])'
      <3>1. CASE Excused(N[h][q])
        BY <2>3, <3>1
      <3>2. CASE \E i \in 1 .. d + 1 : IsAround(p, i) /\ DeclaredIn(i, q)
        BY <1>4, <2>1, <3>2
      <3> QED
        BY <2>2, <3>1, <3>2
    <2> QED
      BY <1>1, <2>1, <2>4 DEF Placed
  <1> QED
    BY <1>1, <1>5, <1>6 DEF PlaceInv

\* A file that is left: what it declares and uses moves to the activation
\* below, under the alias.
LEMMA LeaveNames ==
  ASSUME IInv, NEW N, NEW P, WellNamed(text, N, P), NamesInv(N, P), Leave
  PROVE  NamesInv(N, P)'
  <1>1. PICK d, f, g, a, o, r : Returns(d, f, g, a, o, r)
    BY LeaveReturns
  <1>2. /\ d \in Nat \ {0} /\ Depth = d + 1 /\ Depth' = d /\ Top.file = g
        /\ \A i \in 1 .. d : stack'[i] = stack[i] /\ stack[i] \in Act
        /\ text' = text /\ astray' = astray /\ aliases' = aliases /\ AtEnd
        /\ status' = "expanding" /\ finished' = Finish(g) /\ g \in File
        /\ outs' \in Seq(Seq(Collected)) /\ Len(outs') = d
        /\ \A i \in 1 .. d - 1 : outs'[i] = outs[i]
    BY <1>1 DEF Returns, Top, Leave
  <1>3. PICK b : b = Len(outs[d])
    OBVIOUS
  <1>4. /\ Grows(d) /\ Len(o) \in Nat /\ b \in Nat /\ DOMAIN outs[d] = 1 .. b
        /\ DOMAIN outs'[d] = 1 .. b + Len(o)
    BY <1>1, <1>3, ReturnedAt
  <1>5. OutsTyped'
    BY <1>2 DEF OutsTyped
  <1>6. Linked'
    <2> SUFFICES ASSUME NEW i \in 1 .. d - 1
                 PROVE  text[stack'[i].file][stack'[i].at - 1].alias = stack'[i + 1].alias
      BY <1>2 DEF Linked
    <2>1. i \in 1 .. d /\ i + 1 \in 1 .. d /\ i \in 1 .. Depth - 1
      BY <1>2
    <2> QED
      BY <1>2, <2>1 DEF NamesInv, Linked
  <1>7. DeclInv(N, P)' /\ UseInv(N)'
    <2> SUFFICES ASSUME NEW j \in 1 .. d, NEW x \in DOMAIN outs'[j]
                 PROVE  DeclFine(j, x, N, P)' /\ UsesFine(j, x, N)'
      BY <1>2 DEF DeclInv, UseInv
    <2>1. CASE x \in DOMAIN outs[j]
      <3>1. j \in 1 .. Depth
        BY <1>2
      <3> QED
        BY <1>4, <2>1, <3>1, FineGrows DEF NamesInv, DeclInv, UseInv
    <2>2. CASE x \notin DOMAIN outs[j]
      <3>1. j = d
        <4>1. j # d => j \in 1 .. d - 1
          BY <1>2
        <4> QED
          BY <1>2, <2>2, <4>1
      <3>2. PICK y \in 1 .. Len(o) : x = b + y
        <4>1. x \in 1 .. b + Len(o) /\ x \notin 1 .. b
          BY <1>4, <2>2, <3>1
        <4>2. x - b \in 1 .. Len(o) /\ x = b + (x - b)
          BY <1>4, <4>1
        <4> QED
          BY <4>2
      <3> QED
        BY <1>1, <1>2, <1>3, <3>1, <3>2, FineReturned
    <2> QED
      BY <2>1, <2>2
  <1>8. DealtInv(N)'
    <2> SUFFICES ASSUME NEW j \in 1 .. d, NEW k \in 1 .. stack[j].at - 1
                 PROVE  Dealt(j, k, N)'
      BY <1>2 DEF DealtInv
    <2>1. j \in 1 .. Depth /\ Dealt(j, k, N)
      BY <1>2 DEF NamesInv, DealtInv
    <2>2. CASE Waits(j, k) => Waits(j, k)'
      BY <1>4, <2>1, <2>2, FineGrows DEF NamesInv
    <2>3. CASE Waits(j, k) /\ ~Waits(j, k)'
      <3>1. j = d /\ k = stack[d].at - 1
        <4>1. j # d => Waits(j, k)'
          BY <1>2, <2>3 DEF Waits
        <4> QED
          BY <2>3, <4>1 DEF Waits
      <3>2. PICK s : s = text[f][k]
        OBVIOUS
      <3>3. /\ s.k = "include" /\ s.file = g /\ s.alias = a /\ s = text[stack[j].file][k]
            /\ text'[stack'[j].file][k] = s
        BY <1>1, <1>2, <3>1, <3>2 DEF Returns, IncludeAt
      <3>4. Arrived(d, s, N)'
        <4>1. ASSUME NEW q \in DOMAIN N[g]
              PROVE  Known(d, Into(q, a))' \/ Excused(N[g][q])'
          <5>1. Known(d + 1, q) \/ Excused(N[g][q])
            BY <1>2, Complete DEF NamesInv
          <5>2. Known(d + 1, q) => Known(d, Into(q, a))'
            BY <1>1, <1>3, KnownReturned
          <5>3. Excused(N[g][q]) => Excused(N[g][q])'
            BY <1>2, ExcusedGrows
          <5> QED
            BY <5>1, <5>2, <5>3
        <4> QED
          BY <3>3, <4>1 DEF Arrived
      <3>5. ~Declares(s) /\ (s.alias # None => s.alias \in aliases')
        BY <1>2, <2>1, <3>3 DEF Declares, Dealt
      <3> QED
        BY <3>1, <3>3, <3>4, <3>5 DEF Dealt
    <2> QED
      BY <2>2, <2>3
  <1>9. SettledInv(N)'
    <2>1. \A S : WithIncludes(S)' <=> WithIncludes(S)
      BY <1>2 DEF WithIncludes, IncludesOf
    <2>2. Settled(g, N)
      BY <1>2, Complete DEF NamesInv
    <2>3. \A h \in File : Settled(h, N) => Settled(h, N)'
      BY <1>2, <2>1 DEF Settled
    <2>4. \A h \in File : Finished(h)' => Finished(h) \/ h = g
      <3>1. finished \in Seq(File)
        BY DEF IInv, OrderInv
      <3>2. finished' = finished \/ finished' = Append(finished, g)
        BY <1>2 DEF Finish
      <3>3. CASE finished' = Append(finished, g)
        <4>1. /\ DOMAIN finished' = 1 .. Len(finished) + 1 /\ DOMAIN finished = 1 .. Len(finished)
              /\ \A i \in 1 .. Len(finished) : finished'[i] = finished[i]
              /\ finished'[Len(finished) + 1] = g /\ Len(finished) \in Nat
          BY <1>2, <3>1, <3>3, AppendProperties
        <4> QED
          BY <4>1 DEF Finished
      <3> QED
        BY <3>2, <3>3 DEF Finished
    <2> QED
      BY <2>2, <2>3, <2>4 DEF NamesInv, SettledInv
  <1>10. PlaceInv(N)'
    BY <1>1, PlaceReturned
  <1> QED
    BY <1>2, <1>5, <1>6, <1>7, <1>8, <1>9, <1>10 DEF NamesInv

\* A step that leaves the statements and the names alone.
LEMMA NamesStand ==
  ASSUME NEW N, NEW P, NamesInv(N, P),
         UNCHANGED <<text, stack, outs, aliases, finished, place, astray>>,
         status' = "done" => AtEnd /\ Depth = 1
  PROVE  NamesInv(N, P)'
  <1>1. Depth' = Depth /\ AtEnd' = AtEnd
    BY DEF Depth, AtEnd, Top
  <1>2. \A i, j : SameSpace(i, j)' = SameSpace(i, j) /\ IsAround(i, j)' = IsAround(i, j)
    BY DEF SameSpace, IsAround
  <1>3. \A j, y, q : DeclaredAt(j, y, q)' = DeclaredAt(j, y, q)
    BY DEF DeclaredAt
  <1>4. \A j, q : DeclaredIn(j, q)' = DeclaredIn(j, q)
    BY <1>3 DEF DeclaredIn
  <1>5. \A j, q : Known(j, q)' = Known(j, q)
    BY <1>2, <1>4 DEF Known
  <1>6. \A j, x, q : Earlier(j, x, q)' = Earlier(j, x, q)
    BY <1>2, <1>3, <1>4 DEF Earlier
  <1>7. \A S : WithIncludes(S)' = WithIncludes(S)
    BY DEF WithIncludes, IncludesOf
  <1>8. \A o : Excused(o)' = Excused(o)
    BY <1>7 DEF Excused, WithAstray
  <1>9. Linked' /\ OutsTyped'
    BY <1>1 DEF NamesInv, Linked, OutsTyped
  <1>10. DeclInv(N, P)'
    BY <1>1 DEF NamesInv, DeclInv, DeclFine
  <1>11. UseInv(N)'
    BY <1>1, <1>6, <1>8 DEF NamesInv, UseInv, UsesFine, UseFine
  <1>12. DealtInv(N)'
    BY <1>1, <1>4, <1>5, <1>8 DEF NamesInv, DealtInv, Dealt, Arrived, Waits
  <1>13. SettledInv(N)'
    BY <1>7 DEF NamesInv, SettledInv, Settled, Finished
  <1>14. PlaceInv(N)'
    BY <1>1, <1>2, <1>4, <1>8 DEF NamesInv, PlaceInv, Placed, Running
  <1> QED
    BY <1>1, <1>9, <1>10, <1>11, <1>12, <1>13, <1>14 DEF NamesInv

\* Nothing has been collected before the first statement.
LEMMA NamesInit ==
  ASSUME Init, NEW N, NEW P
  PROVE  NamesInv(N, P)
  <1>1. /\ stack = <<Activation(Main, None)>> /\ outs = <<<<>>>> /\ finished = <<>>
        /\ place = [h \in File |-> Closed] /\ status = "expanding"
    BY DEF Init
  <1>2. Depth = 1 /\ stack[1].at = 1
    BY <1>1 DEF Depth, Activation
  <1>3. Linked
    BY <1>2 DEF Linked
  <1>4. OutsTyped /\ outs[1] = <<>>
    <2>1. <<>> \in Seq(Collected)
      OBVIOUS
    <2>2. <<<<>>>> \in Seq(Seq(Collected)) /\ Len(<<<<>>>>) = 1
      BY <2>1, Single
    <2> QED
      BY <1>1, <1>2, <2>2 DEF OutsTyped
  <1>5. DeclInv(N, P) /\ UseInv(N)
    BY <1>2, <1>4 DEF DeclInv, UseInv
  <1>6. DealtInv(N) /\ SettledInv(N)
    BY <1>1, <1>2 DEF DealtInv, SettledInv, Finished
  <1>7. PlaceInv(N)
    BY <1>1, <1>2 DEF PlaceInv
  <1> QED
    BY <1>1, <1>3, <1>4, <1>5, <1>6, <1>7 DEF NamesInv

\* The names of a text that is well named, whatever its namespaces are.
NamesHold == \A N, P : WellNamed(text, N, P) => NamesInv(N, P)

LEMMA NamesStep ==
  ASSUME IInv, NamesHold, [Next]_vars
  PROVE  NamesHold'
  <1>1. text' = text
    BY DEF Next, FileNotFound, Circular, Unreadable, Fail, Skip, Enter, Collect, Leave, Done, vars
  <1> SUFFICES ASSUME NEW N, NEW P, WellNamed(text, N, P), NamesInv(N, P)
               PROVE  NamesInv(N, P)'
    BY <1>1 DEF NamesHold
  <1>2. ASSUME NEW error \in {"missing", "circular", "unreadable"}, Fail(error)
        PROVE  NamesInv(N, P)'
    BY <1>2, NamesStand DEF Fail, walk, maps, history
  <1>3. CASE FileNotFound \/ Circular \/ Unreadable
    BY <1>2, <1>3 DEF FileNotFound, Circular, Unreadable
  <1>4. CASE Done
    BY <1>4, NamesStand DEF Done, walk, maps, history
  <1>5. CASE UNCHANGED vars
    BY <1>5, NamesStand DEF vars, walk, maps, history, NamesInv
  <1> QED
    BY <1>3, <1>4, <1>5, SkipNames, EnterNames, CollectNames, LeaveNames DEF Next

\* When the program has been expanded, what its one activation has collected
\* is the program.
LEMMA NamesEnd ==
  ASSUME IInv, NEW N, NEW P, WellNamed(text, N, P), NamesInv(N, P)
  PROVE  NamesResolve
  <1> SUFFICES ASSUME status = "done", NEW i \in DOMAIN program, NEW e \in Uses(program[i])
               PROVE  \/ UseResolves(e, Scope(program[i]), Bound(i))
                      \/ e.means.file \in WithAstray
    BY DEF NamesResolve
  <1>1. /\ AtEnd /\ Depth = 1 /\ program = outs[1] /\ Top = stack[1] /\ stack[1].file = Main
        /\ Top.file = Main
    BY DEF NamesInv, program, Top, IInv, WalkInv
  <1>2. program \in Seq(Collected) /\ DOMAIN program = 1 .. Len(program) /\ Len(program) \in Nat
    <2>1. outs[1] \in Seq(Collected)
      BY <1>1 DEF NamesInv, OutsTyped
    <2> QED
      BY <1>1, <2>1, LenProperties
  <1>3. DeclFine(1, i, N, P) /\ UsesFine(1, i, N)
    BY <1>1 DEF NamesInv, DeclInv, UseInv
  <1>4. UseFine(e, 1, i, N)
    <2>1. \E s \in Simples(program[i]) : e \in UsesOf(s)
      BY DEF Uses, Simples
    <2> QED
      BY <1>1, <1>3, <2>1 DEF UsesFine
  <1>5. CASE e.means = None
    BY <1>5 DEF UseResolves
  <1>6. CASE e.means = Parameter /\ e.name \in Scope(program[i])
    BY <1>6 DEF UseResolves, RefersTo
  <1>7. CASE Excused(e.means)
    BY <1>7 DEF Excused
  <1>8. CASE /\ e.name \in DOMAIN N[Main] /\ N[Main][e.name] = e.means /\ ~Excused(e.means)
             /\ program[i].k = "func" \/ Earlier(1, i, e.name)
    <2>1. e.name \notin Scope(program[i])
      <3>1. DOMAIN N[Main] \cap P[Main] = {}
        BY ExpanderAssumption DEF WellNamed, HasNames
      <3> QED
        BY <1>1, <1>3, <1>8, <3>1 DEF Scope, DeclFine
    <2>2. \A x \in DOMAIN program : Declared(e.name, x) => program[x].origin = e.means
      BY <1>1, <1>8 DEF NamesInv, DeclInv, DeclFine, Declared
    <2>3. \E x \in 1 .. Bound(i) : x \in DOMAIN program /\ Declared(e.name, x)
      <3>1. CASE program[i].k = "func"
        <4>1. Known(1, e.name)
          BY <1>1, <1>8, Complete DEF NamesInv
        <4>2. DeclaredIn(1, e.name)
          BY <4>1 DEF Known
        <4> QED
          BY <1>1, <1>2, <3>1, <4>2 DEF DeclaredIn, DeclaredAt, Declared, Bound
      <3>2. CASE program[i].k # "func"
        <4>1. PICK y \in 1 .. i - 1 : DeclaredAt(1, y, e.name)
          BY <1>8, <3>2 DEF Earlier
        <4> QED
          BY <1>1, <3>2, <4>1 DEF DeclaredAt, Declared, Bound
      <3> QED
        BY <3>1, <3>2
    <2> QED
      BY <2>1, <2>2, <2>3 DEF UseResolves, RefersTo
  <1> QED
    BY <1>1, <1>4, <1>5, <1>6, <1>7, <1>8 DEF UseFine

\* For every text, whatever its graph of includes, its aliases and its
\* statements: if there are namespaces and parameters that make it well
\* named, every name in the program it is expanded to refers to what it
\* referred to in its own file, but for those of files astray.
THEOREM ReferencesKept ==
  Spec => []((\E N, P : WellNamed(text, N, P)) => NamesResolve)
  <1>1. Init => IInv /\ NamesHold
    BY IInvInit, NamesInit DEF NamesHold
  <1>2. IInv /\ NamesHold /\ [Next]_vars => (IInv /\ NamesHold)'
    BY IInvStep, NamesStep
  <1>3. IInv /\ NamesHold => ((\E N, P : WellNamed(text, N, P)) => NamesResolve)
    BY NamesEnd DEF NamesHold
  <1> QED
    BY <1>1, <1>2, <1>3, PTL DEF Spec
=============================================================================
