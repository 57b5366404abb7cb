------------------------------ MODULE MCTLSLink ------------------------------
(***************************************************************************)
(* Three binaries, each with any PT_TLS header of at most three bytes.     *)
(***************************************************************************)
EXTENDS TLSLink

MCHeaders == {h \in [filesz : 0..2, memsz : 0..3] : h.filesz <= h.memsz}
=============================================================================
