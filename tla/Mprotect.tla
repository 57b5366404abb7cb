------------------------------ MODULE Mprotect -------------------------------
(***************************************************************************)
(* The output has several PT_GNU_RELRO regions and ld.so protects only one *)
(* PT_GNU_RELRO, so sold writes code that calls mprotect for each of them  *)
(* (MprotectBuilder) and makes it the first initialiser.  This module      *)
(* models the emission and a processor that runs what was emitted.         *)
(* Instructions are records; their lengths, the places of the immediates   *)
(* that are patched and the addresses are those of the code.               *)
(***************************************************************************)
EXTENDS Integers, Sequences

CONSTANTS
    Machines,   \* subset of {"x86_64", "aarch64"}
    Inputs,     \* [code, regions]: mprotect_offset_, and vaddr and memsz of each region in the output
    Bases,      \* addresses at which the loader may map the output
    Page,
    Piece,      \* the modulus that stands for the 2^16 of a movk
    Garbage     \* what a register may hold before the code runs

\* The pieces of a register: what each of the four counts, and all of them.
Units == <<1, Piece, Piece * Piece, Piece * Piece * Piece>>
Word  == Piece * Piece * Piece * Piece
Dword == Piece * Piece   \* that of a uint32_t

MachinesAssumption == Machines \subseteq {"x86_64", "aarch64"}
WidthAssumption == Page \in Nat \ {0} /\ Piece \in Nat \ {0, 1} /\ Garbage \subseteq 0..(Word - 1)

\* The regions are in memory: their addresses fit in a register.
InputsAssumption ==
    /\ Bases \subseteq Nat
    /\ \A in \in Inputs :
          /\ in.code \in Nat /\ in.regions \in Seq([vaddr : Nat, memsz : Nat])
          /\ \A b \in Bases, k \in DOMAIN in.regions : b + in.regions[k].vaddr + in.regions[k].memsz < Word

VARIABLES
    machine, input, base,
    code,       \* the instructions in the file, <<>> before Emit
    ip,         \* the instruction that runs next
    reg,        \* the registers
    readonly,   \* pages that mprotect has made read-only, by address
    calls,      \* the arguments of the system calls so far
    pc          \* "add", "run", "returned" or "trapped"

vars == <<machine, input, base, code, ip, reg, readonly, calls, pc>>

Regs == {"addr", "len", "prot", "nr", "tmp"}   \* rdi rsi rdx rax and x3; x0 x1 x2 w8 x3

PageOf(a) == (a \div Page) * Page

Init ==
    /\ machine \in Machines /\ input \in Inputs /\ base \in Bases
    /\ code = <<>> /\ ip = 1 /\ readonly = {} /\ calls = <<>> /\ pc = "add"
    /\ \E g \in Garbage : reg = [r \in Regs |-> g]

N == Len(input.regions)

-----------------------------------------------------------------------------
(* Instructions: op, the register written, the immediate, the length and   *)
(* where in the instruction the immediate is.                              *)

I(op, r, imm, len, at) == [op |-> op, reg |-> r, imm |-> imm, len |-> len, at |-> at]

\* The number of bytes before instruction k of c.
Before(c, k) ==
    LET sum[j \in 0..Len(c)] == IF j = 0 THEN 0 ELSE sum[j - 1] + c[j].len IN sum[k - 1]

Bytes(c) == Before(c, Len(c) + 1)

Concat(parts) ==
    LET cat[k \in 0..Len(parts)] == IF k = 0 THEN <<>> ELSE cat[k - 1] \o parts[k] IN cat[Len(parts)]

memprotect_body_code_x86_64 ==
    <<I("mov", "addr", 0, 10, 2), I("lea", "len", 0, 7, 3), I("add", "len", 0, 3, 0),
      I("mov", "len", 0, 7, 3), I("mov", "prot", 1, 7, 3), I("mov", "nr", 10, 5, 1),
      I("syscall", "nr", 0, 2, 0), I("test", "nr", 0, 2, 0), I("jz", "nr", 2, 2, 1), I("ud2", "nr", 0, 2, 0)>>

memprotect_end_code_x86_64 == <<I("ret", "nr", 0, 1, 0)>>

\* *(p + offset) = v
PatchAt(c, offset, v) ==
    [k \in DOMAIN c |-> IF Before(c, k) + c[k].at = offset THEN [c[k] EXCEPT !.imm = v] ELSE c[k]]

OffsetX86_64(i) ==
    PageOf(input.regions[i].vaddr) - (input.code + Bytes(memprotect_body_code_x86_64) * (i - 1) + 17)

\* Mutant of SizeX86_64: the size is rounded, not the end.
SizeX86_64Rounded(r) == PageOf(r.memsz + Page - 1)

\* sizes is a vector of uint32_t, and *size_p is one.
Size32(r) == r.memsz % Dword

SizeX86_64(r) == (PageOf(r.vaddr + Size32(r)) - PageOf(r.vaddr)) % Dword

BodyX86_64(i) ==
    PatchAt(PatchAt(memprotect_body_code_x86_64, 2, OffsetX86_64(i)), 23, SizeX86_64(input.regions[i]))

\* set_immediate_to_register_aarch64: four movk, 16 bits each.
SetImmediate(value, r) ==
    [k \in 1..4 |-> [op |-> "movk", reg |-> r, imm |-> (value \div Units[k]) % Piece, len |-> 4, at |-> k - 1]]

body_code_length_aarch64 == 13 * 4

BodyAarch64(i) ==
    LET offset == input.regions[i].vaddr - (input.code + body_code_length_aarch64 + 5 * 4)
    IN  SetImmediate(offset, "addr")
        \o <<I("adr", "tmp", 0, 4, 0), I("add", "tmp", 0, 4, 0)>>
        \o SetImmediate(Size32(input.regions[i]), "len")
        \o <<I("mov", "prot", 1, 4, 0), I("mov", "nr", 10, 4, 0), I("svc", "nr", 0, 4, 0)>>

EmitX86_64 == Concat([i \in 1..N |-> BodyX86_64(i)]) \o memprotect_end_code_x86_64

EmitAarch64 == Concat([i \in 1..N |-> BodyAarch64(i)]) \o <<I("ret", "nr", 0, 4, 0)>>

Emit ==
    /\ pc = "add"
    /\ code' = IF machine = "x86_64" THEN EmitX86_64 ELSE EmitAarch64
    /\ pc' = "run"
    /\ UNCHANGED <<machine, input, base, ip, reg, readonly, calls>>

\* Size() of the builder, and MprotectSize() of Sold, which plans the layout.
Size ==
    IF machine = "x86_64" THEN Bytes(memprotect_body_code_x86_64) * N + 1
    ELSE body_code_length_aarch64 * N + 4

-----------------------------------------------------------------------------
(* The processor and the kernel.                                           *)

Running(op) == pc = "run" /\ code[ip].op = op

Ins == code[ip]

Set(r, v) == reg' = [reg EXCEPT ![r] = v % Word]

\* Where instruction k of the code is in memory.
Address(k) == base + input.code + Before(code, k)

loaded == <<machine, input, base, code>>

Step == ip' = ip + 1

SignExtended(imm) == IF imm < Dword \div 2 THEN imm ELSE imm - Dword

\* The mov of seven bytes (REX.W C7) extends the sign of its imm32.
Mov ==
    /\ Running("mov") /\ Set(Ins.reg, IF Ins.len = 7 THEN SignExtended(Ins.imm) ELSE Ins.imm)
    /\ Step /\ UNCHANGED <<loaded, readonly, calls, pc>>

\* Piece number at of the register is replaced.
Movk ==
    /\ Running("movk")
    /\ LET unit == Units[Ins.at + 1]
           old == (reg[Ins.reg] \div unit) % Piece
       IN  Set(Ins.reg, reg[Ins.reg] + (Ins.imm - old) * unit)
    /\ Step /\ UNCHANGED <<loaded, readonly, calls, pc>>

\* lea (%rip): the address of the next instruction.
Lea == Running("lea") /\ Set(Ins.reg, Address(ip + 1)) /\ Step /\ UNCHANGED <<loaded, readonly, calls, pc>>

\* adr x3, 0: its own address.
Adr == Running("adr") /\ Set(Ins.reg, Address(ip)) /\ Step /\ UNCHANGED <<loaded, readonly, calls, pc>>

\* The address register is the destination of both adds.
AddReg ==
    /\ Running("add") /\ Set("addr", reg["addr"] + reg[Ins.reg])
    /\ Step /\ UNCHANGED <<loaded, readonly, calls, pc>>

\* mprotect: an address inside a page is an error, a length is rounded up,
\* a process has the lower half of the addresses, and the kernel may run out
\* of mappings.  r takes the result.
SysMprotect(r) ==
    \/ /\ reg["addr"] % Page = 0 /\ reg["addr"] + reg["len"] <= Word \div 2
       /\ readonly' = readonly \cup
              {a \in reg["addr"]..(reg["addr"] + reg["len"] - 1) : a % Page = 0}
       /\ Set(r, 0)
    \/ Set(r, IF reg["addr"] % Page = 0 THEN -12 ELSE -22) /\ UNCHANGED readonly

\* The call made, and whether r says it failed.
Called(r) ==
    calls' = Append(calls, [addr |-> reg["addr"], len |-> reg["len"], nr |-> reg["nr"], failed |-> reg'[r] # 0])

\* System call 10 of x86-64.
Syscall == Running("syscall") /\ reg["nr"] = 10 /\ SysMprotect("nr") /\ Called("nr") /\ Step /\ UNCHANGED <<loaded, pc>>

\* On aarch64 mprotect is 226; 10 is fgetxattr, which finds no such file.
Svc ==
    /\ Running("svc")
    /\ IF reg["nr"] = 226 THEN SysMprotect("addr") ELSE Set("addr", -9) /\ UNCHANGED readonly
    /\ Called("addr") /\ Step /\ UNCHANGED <<loaded, pc>>

\* The flag that test leaves is that of nr.
Test == Running("test") /\ Step /\ UNCHANGED <<loaded, reg, readonly, calls, pc>>

Zero == reg["nr"] = 0

Jz ==
    /\ Running("jz")
    /\ ip' = IF Zero
             THEN CHOOSE k \in DOMAIN code : Before(code, k) = Before(code, ip + 1) + Ins.imm
             ELSE ip + 1
    /\ UNCHANGED <<loaded, reg, readonly, calls, pc>>

Ud2 == Running("ud2") /\ pc' = "trapped" /\ UNCHANGED <<loaded, ip, reg, readonly, calls>>

Ret == Running("ret") /\ pc' = "returned" /\ UNCHANGED <<loaded, ip, reg, readonly, calls>>

Next ==
    \/ Emit \/ Mov \/ Movk \/ Lea \/ Adr \/ AddReg \/ Syscall \/ Svc \/ Test \/ Jz \/ Ud2 \/ Ret

Spec == Init /\ [][Next]_vars

-----------------------------------------------------------------------------
(* Properties.                                                             *)

TypeOK ==
    /\ pc \in {"add", "run", "returned", "trapped"}
    /\ pc # "add" => ip \in DOMAIN code
    /\ \A r \in Regs : reg[r] \in 0..(Word - 1)
    /\ Len(calls) <= N

X86 == machine = "x86_64"

\* The pages ld.so would protect for region r: from the page of its start up
\* to, and without, the page of its end.
Pages(r) ==
    {a \in (base + PageOf(r.vaddr))..(base + PageOf(r.vaddr + r.memsz) - 1) : a % Page = 0}

AllPages == UNION {Pages(input.regions[k]) : k \in 1..N}

\* The code that was planned is as long as the code that was written.
\* CHECK(ftell(fp) - old_pos == Size()), and MprotectSize in the layout.
SizeIsPlanned == pc # "add" => Bytes(code) = Size

\* The whole pages of a region, in bytes.
WholePages(r) == PageOf(r.vaddr + r.memsz) - PageOf(r.vaddr)

\* Every region is smaller than 4 GiB, and so are its whole pages.
SizesFit ==
    \A k \in 1..N : input.regions[k].memsz < Dword /\ WholePages(input.regions[k]) < Dword

\* When the x86-64 initialiser returns, exactly the pages of the RELRO
\* regions are read-only, wherever the output is mapped, unless a size does not
\* fit in a uint32_t: then too little is.  On aarch64 the call is not mprotect
\* and no page ever is (mprotect_builder.cc:60).
PagesProtected ==
    /\ X86 /\ pc = "returned" /\ SizesFit => readonly = AllPages
    /\ ~X86 => readonly = {}

\* At no time is a page read-only that belongs to no region: initialisers
\* still write there.
NothingElseProtected == readonly \subseteq AllPages

\* The x86-64 code stops the process rather than go on without protection:
\* it traps when a call has failed, only then, and never skips a region.
TrapsOnFailure ==
    X86 => /\ pc = "returned" => Len(calls) = N /\ \A k \in DOMAIN calls : ~calls[k].failed
           /\ pc = "trapped" => calls[Len(calls)].failed

\* The i-th call is about region i, with a start and a length in whole pages;
\* with 2 GiB or more the length is another one, and the call fails.
\* "17 is the length of mov; lea" (mprotect_builder.cc:15).
CallsNameRegions ==
    X86 => \A k \in DOMAIN calls :
        /\ calls[k].addr = base + PageOf(input.regions[k].vaddr)
        /\ SizesFit => \/ calls[k].len = WholePages(input.regions[k])
                       \/ WholePages(input.regions[k]) >= Dword \div 2 /\ calls[k].failed

=============================================================================
