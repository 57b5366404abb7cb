------------------------------- MODULE LdSoConf -------------------------------
(***************************************************************************)
(* read_ldsoconf: the directories of /etc/ld.so.conf and of the files it   *)
(* includes, depth first.  A file is a sequence of <<kind, argument>>: a   *)
(* directory, an include or a comment.  It stays open while its includes   *)
(* are read, so files that include each other go on until no more files    *)
(* can be opened.                                                          *)
(***************************************************************************)
EXTENDS Integers, Sequences, SequencesExt

CONSTANTS
    Systems,    \* [files, glob]: the files by name, the names by pattern
    MaxOpen     \* how many files the process may have open

Statements(sys) ==
    {s \in {"directory", "include", "comment"} \X STRING :
        s[1] = "include" => s[2] \in DOMAIN sys.glob}

LdSoConfAssumption ==
    /\ MaxOpen \in Nat \ {0}
    /\ \A sys \in Systems :
          /\ \A f \in DOMAIN sys.files : sys.files[f] \in Seq(Statements(sys))
          /\ \A p \in DOMAIN sys.glob : sys.glob[p] \in Seq(STRING)

VARIABLES
    system,
    stack,      \* the calls of read_ldsoconf_dfs, the innermost first
    res

vars == <<system, stack, res>>

Root == "ld.so.conf"

CanOpen(name, open) == name \in DOMAIN system.files /\ open < MaxOpen

\* A call: the rest of its file and of the names of its current include.
Call(name, open) ==
    IF CanOpen(name, open) THEN <<[rest |-> system.files[name], globbuf |-> <<>>]>> ELSE <<>>

Init == system \in Systems /\ res = <<>> /\ stack = Call(Root, 0)

Top == stack[1]

Reading(kind) == stack # <<>> /\ Top.globbuf = <<>> /\ Top.rest # <<>> /\ Head(Top.rest)[1] = kind

Argument == Head(Top.rest)[2]

\* The current call goes on behind its statement with the names found.
Continue(globbuf) ==
    stack' = <<[rest |-> Tail(Top.rest), globbuf |-> globbuf]>> \o Tail(stack)

Comment == Reading("comment") /\ Continue(<<>>) /\ UNCHANGED <<system, res>>

Directory ==
    /\ Reading("directory") /\ Continue(<<>>)
    /\ res' = Append(res, Argument)
    /\ UNCHANGED system

Include == Reading("include") /\ Continue(system.glob[Argument]) /\ UNCHANGED <<system, res>>

\* Mutant of Rest: only the first name counts.
RestNone(names) == <<>>

Rest(names) == Tail(names)

\* The loop over the names that glob found.
Descend ==
    /\ stack # <<>> /\ Top.globbuf # <<>>
    /\ stack' = Call(Head(Top.globbuf), Len(stack)) \o <<[Top EXCEPT !.globbuf = Rest(@)]>> \o Tail(stack)
    /\ UNCHANGED <<system, res>>

Return ==
    /\ stack # <<>> /\ Top.globbuf = <<>> /\ Top.rest = <<>>
    /\ stack' = Tail(stack)
    /\ UNCHANGED <<system, res>>

Next == Comment \/ Directory \/ Include \/ Descend \/ Return

Spec == Init /\ [][Next]_vars /\ WF_vars(Next)

-----------------------------------------------------------------------------
\* No more files are open than the process may have.
TypeOK ==
    /\ Len(stack) <= MaxOpen
    /\ \A k \in DOMAIN stack : DOMAIN stack[k] = {"rest", "globbuf"}
    /\ \A k \in DOMAIN res : res[k] \in STRING

\* The directories of names and of statements, if `of' has those of every file
\* that can be opened: one after the other.
OfNames(of, names) ==
    FlattenSeq([k \in DOMAIN names |-> IF names[k] \in DOMAIN of THEN of[names[k]] ELSE <<>>])

OfStatement(of, glob, s) ==
    CASE s[1] = "directory" -> <<s[2]>>
      [] s[1] = "comment"   -> <<>>
      [] s[1] = "include"   -> OfNames(of, glob[s[2]])

OfText(of, glob, text) == FlattenSeq([k \in DOMAIN text |-> OfStatement(of, glob, text[k])])

\* The text of each file with every include replaced by the files it names, as
\* far as d files can be open at once.
Expanded(sys) ==
    LET expanded[d \in 0..MaxOpen] ==
          [f \in DOMAIN sys.files |->
              IF d = 0 THEN <<>> ELSE OfText(expanded[d - 1], sys.glob, sys.files[f])]
    IN  expanded

\* The search order of the libraries is the order of the expanded text, also
\* when files include each other, are missing or are named twice: no directory
\* is lost behind an include and none moves in front of one.
OrderOfTheText ==
    stack = <<>> => res = IF Root \in DOMAIN system.files THEN Expanded(system)[MaxOpen][Root] ELSE <<>>
=============================================================================
