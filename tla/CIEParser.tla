------------------------------ MODULE CIEParser ------------------------------
(***************************************************************************)
(* The part of ELFBinary::ParseEHFrameHeader that reads a CIE: a cursor    *)
(* goes over bytes whose meaning depends on the ones before, to find the   *)
(* two encodings on which moving .eh_frame unchanged depends.  mem is the  *)
(* file from a page boundary on; the values of the numbers the cursor      *)
(* skips are not used by the code.                                         *)
(***************************************************************************)
EXTENDS Integers, Sequences

\* Each file has its bytes, the offsets where the CIE starts and where its
\* augmentation data ends, and what its writer meant: the encodings of FDEs
\* and LSDAs, the personality's, and whether all letters are known to the code.
CONSTANT Mems

VARIABLES m, pc, cie_offset, aug_head, FDE_encoding, LSDA_encoding

vars == <<m, pc, cie_offset, aug_head, FDE_encoding, LSDA_encoding>>

sdata4_pcrel == 11 + 16
aligned      == 80
DUMMY        == 238
Word         == 8          \* sizeof(void*)

\* The byte at offset p of the file.
Byte(p) == m.bytes[p + 1]

Init ==
    /\ m \in Mems
    /\ pc = "aug_str" /\ cie_offset = m.cie + 9 /\ aug_head = m.cie + 9
    /\ FDE_encoding = DUMMY /\ LSDA_encoding = DUMMY

\* The first place from p on that holds one of the bytes.
First(p, bytes) ==
    CHOOSE q \in p..Len(m.bytes) : Byte(q) \in bytes /\ \A r \in p..(q - 1) : Byte(r) \notin bytes

\* The last byte of a LEB128 number has no high bit.
LastOfLEB == 0..127

\* Where the cursor is after read_uleb128 or read_sleb128.
AfterLEB(p) == First(p, LastOfLEB) + 1

Goto(label, offset) == pc' = label /\ cie_offset' = offset

SkipAugStr ==
    /\ pc = "aug_str" /\ Goto("code", First(cie_offset, {0}) + 1)
    /\ UNCHANGED <<m, aug_head, FDE_encoding, LSDA_encoding>>

SkipFactor(label, next) ==
    /\ pc = label /\ Goto(next, AfterLEB(cie_offset))
    /\ UNCHANGED <<m, aug_head, FDE_encoding, LSDA_encoding>>

\* 'z': the length of the augmentation data follows, one byte.
Augmented == Byte(aug_head) = 122

StartAugmentation ==
    /\ pc = "aug"
    /\ IF Augmented THEN Goto("letter", cie_offset + 1) /\ aug_head' = aug_head + 1
       ELSE Goto("fde", cie_offset) /\ UNCHANGED aug_head
    /\ UNCHANGED <<m, FDE_encoding, LSDA_encoding>>

Letter(c) == pc = "letter" /\ Byte(aug_head) = c /\ aug_head' = aug_head + 1 /\ UNCHANGED m

\* 'R'
ReadFDEEncoding ==
    /\ Letter(82)
    /\ FDE_encoding' = Byte(cie_offset) /\ cie_offset' = cie_offset + 1
    /\ UNCHANGED <<pc, LSDA_encoding>>

\* 'L'
ReadLSDAEncoding ==
    /\ Letter(76)
    /\ LSDA_encoding' = Byte(cie_offset) /\ cie_offset' = cie_offset + 1
    /\ UNCHANGED <<pc, FDE_encoding>>

\* The formats of read_encoded_value_with_base by their low four bits.
FixedSize == [f \in {0, 2, 3, 4, 10, 11, 12} |->
                CASE f \in {0, 4, 12} -> Word [] f \in {2, 10} -> 2 [] f \in {3, 11} -> 4]

KnownFormat(enc) == enc = aligned \/ enc % 16 \in DOMAIN FixedSize \cup {1, 9}

AfterPointer(enc, p) ==
    IF enc = aligned THEN ((p + Word - 1) \div Word) * Word + Word
    ELSE IF enc % 16 \in {1, 9} THEN AfterLEB(p)
    ELSE p + FixedSize[enc % 16]

\* "Avoid dereferencing indirect pointers": the bit that asks for it is cleared.
PersonalityEncoding(b) == b % 128

\* 'P': an unknown format is fatal.
SkipPersonality ==
    /\ Letter(80)
    /\ LET enc == PersonalityEncoding(Byte(cie_offset))
       IN  IF ~KnownFormat(enc) THEN Goto("aborted", cie_offset)
           ELSE Goto("letter", AfterPointer(enc, cie_offset + 1))
    /\ UNCHANGED <<FDE_encoding, LSDA_encoding>>

\* The end of the string, or a letter that is not known.
EndAugmentation ==
    /\ pc = "letter" /\ Byte(aug_head) \notin {82, 80, 76}
    /\ Goto("fde", cie_offset)
    /\ UNCHANGED <<m, aug_head, FDE_encoding, LSDA_encoding>>

\* The CHECKs: only pc-relative FDEs and LSDAs may be moved as they are.
Movable == FDE_encoding = sdata4_pcrel /\ LSDA_encoding \in {sdata4_pcrel, DUMMY}

CheckEncodings ==
    /\ pc = "fde" /\ Goto(IF Movable THEN "done" ELSE "aborted", cie_offset)
    /\ UNCHANGED <<m, aug_head, FDE_encoding, LSDA_encoding>>

Next ==
    \/ SkipAugStr
    \/ SkipFactor("code", "data") \/ SkipFactor("data", "ra") \/ SkipFactor("ra", "aug")
    \/ StartAugmentation \/ ReadFDEEncoding \/ ReadLSDAEncoding \/ SkipPersonality \/ EndAugmentation
    \/ CheckEncodings

Spec == Init /\ [][Next]_vars /\ WF_vars(Next)

-----------------------------------------------------------------------------
\* The cursor stays inside the CIE and the augmentation string before it.
TypeOK ==
    /\ pc \in {"aug_str", "code", "data", "ra", "aug", "letter", "fde", "done", "aborted"}
    /\ cie_offset \in (m.cie + 9)..m.end
    /\ aug_head \in (m.cie + 9)..cie_offset
    /\ FDE_encoding \in 0..255 /\ LSDA_encoding \in 0..255

\* What the loop has read when it ends is what the compiler wrote, whatever
\* lies between: numbers of several bytes and personalities of any size.  A
\* cursor that is one byte off reads a number as an encoding, and .eh_frame is
\* moved or refused for the wrong reason.
EncodingsAsWritten ==
    pc \in {"fde", "done"} /\ m.known =>
        FDE_encoding = m.fde /\ LSDA_encoding = m.lsda /\ cie_offset = m.end

\* The code goes on exactly with the CIEs whose FDEs stay right when .eh_frame,
\* text and LSDAs move together.
Position(enc) == enc = sdata4_pcrel

StaysRight == Position(m.fde) /\ (m.lsda = DUMMY \/ Position(m.lsda))

AcceptsWhatStaysRight ==
    /\ pc = "done" /\ m.known => StaysRight
    /\ pc = "aborted" /\ m.known => ~StaysRight \/ ~KnownFormat(m.personality)
=============================================================================
