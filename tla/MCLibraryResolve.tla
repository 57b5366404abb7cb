--------------------------- MODULE MCLibraryResolve ---------------------------
(***************************************************************************)
(* Libraries a, b and c with many DT_NEEDED lists, cycles and              *)
(* self-references included; b and c may need the main binary by its file  *)
(* name.  c2 has the soname of c and d that of b; gone does not exist,     *)
(* nameless has no soname, script is no ELF file, and the runpath of d     *)
(* holds a variable sold does not know.  Of a and c there are two copies,  *)
(* the first b is for a 32-bit machine, c2 for another 64-bit one.  The    *)
(* libraries of soname sc may be excluded.                                 *)
(***************************************************************************)
EXTENDS LibraryResolve

MCLibs    == {"a", "b", "c", "c2", "d", "gone", "nameless", "script", "main"}
MCSonames == {"sroot", "sa", "sb", "sc"}
MCSoname  == [n \in MCLibs \cup {"root"} |->
                CASE n \in {"root", "main"} -> "sroot" [] n = "a" -> "sa"
                  [] n \in {"b", "d"} -> "sb" [] n = "nameless" -> "" [] OTHER -> "sc"]

UpTo2(S) == {<<>>} \cup {<<f>> : f \in S} \cup {<<f, g>> : f \in S, g \in S}

MCNeededLists == [n \in MCLibs \cup {"root"} |->
    CASE n = "root" -> UpTo2({"a", "b", "c"}) [] n = "a" -> UpTo2({"a", "b", "c"}) \cup {<<"d">>}
      [] n = "b" -> UpTo2({"a", "c2"}) \cup {<<"main", "a">>}
      [] n = "c" -> UpTo2({"a", "b"}) \cup {<<"main">>}
      [] n = "c2" -> {<<>>, <<"c">>, <<"a", "gone">>, <<"nameless">>, <<"script">>}
      [] OTHER -> {<<>>}]

\* The first directory holds some of the libraries, the system one most.
MCKind == [p \in {"local", "sys"} \X MCLibs |->
    CASE p = <<"local", "b">> -> "so32"
      [] p \in {<<"local", "a">>, <<"local", "c">>, <<"local", "main">>} -> "so"
      [] p = <<"sys", "c2">> -> "foreign"
      [] p = <<"sys", "script">> -> "other"
      [] p[1] = "sys" /\ p[2] \notin {"gone", "main"} -> "so"
      [] OTHER -> "none"]
MCRpath   == [n \in Names |-> IF n = Root THEN <<"local">>
                              ELSE IF n \in {"a", "c"} THEN <<"$ORIGIN">> ELSE <<>>]
MCRunpath == [n \in Names |-> IF n = "d" THEN <<"$LIB">> ELSE <<>>]
MCSystem  == <<"sys">>
NoPath    == <<>>
MCExclude == {{}, {"sc"}}
=============================================================================
