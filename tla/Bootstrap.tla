------------------------------ MODULE Bootstrap ------------------------------
(***************************************************************************)
(* The code added to the BASIC cartridge of the P2000T: it loads the       *)
(* launcher from the internal ROM, calls it, and copies the program the    *)
(* launcher has left in the external RAM to where it runs.  Operators on   *)
(* the memory of the machine.                                              *)
(***************************************************************************)
EXTENDS Integers

CONSTANTS
    MEMSIZE,       \* bytes the 16-bit registers can address: 0x10000
    RAMSTART,      \* below it there is no RAM: 0x5000
    SCREENSIZE,    \* bytes of the screen, where the RAM begins: 0x1000
    HOOK,          \* the variables of the bootstrap: 0x6150
    BASICSTART,    \* BASIC's pointer to its program: 0x625C
    BASICEND,      \* and its three pointers past it: 0x6405
    EXCODE,        \* where the launcher runs: 0x7000
    NUMBYTES,      \* size of the launcher: 0x2000
    WordOf(_, _)   \* the word that two bytes make

Address  == 0 .. MEMSIZE - 1
Writable == RAMSTART .. MEMSIZE - 1
Screen   == RAMSTART .. RAMSTART + SCREENSIZE - 1
CodeArea == EXCODE .. EXCODE + NUMBYTES - 1
DEPLOYADDR == HOOK + 2
BootVariables == HOOK .. HOOK + 3
BasicPointers == (BASICSTART .. BASICSTART + 1) \cup (BASICEND .. BASICEND + 5)

\* A byte of memory is a tuple that says where it is from.
ZERO  == <<"zero">>
Lo(w) == <<"lo", w>>
Hi(w) == <<"hi", w>>

ASSUME MemoryAssumption ==
    /\ {MEMSIZE, RAMSTART, SCREENSIZE, HOOK, BASICSTART, BASICEND, EXCODE,
        NUMBYTES} \subseteq Nat \ {0}
    /\ RAMSTART + SCREENSIZE <= HOOK
    /\ HOOK + 4 <= BASICSTART
    /\ BASICSTART + 2 <= BASICEND
    /\ BASICEND + 6 <= EXCODE
    /\ EXCODE + NUMBYTES <= MEMSIZE
    /\ \A w \in Address : WordOf(Lo(w), Hi(w)) = w

WordAt(mem, a)     == WordOf(mem[a], mem[a + 1])
PutWord(mem, a, w) == [mem EXCEPT ![a] = Lo(w), ![a + 1] = Hi(w)]

\* What runs before BASIC: loadcode is to be called later.
inject(mem) == [mem EXCEPT ![HOOK] = <<"enabled">>, ![HOOK + 1] = <<"jump">>,
                           ![DEPLOYADDR] = <<"loadcode">>,
                           ![DEPLOYADDR + 1] = <<"loadcode">>]

\* The screen is cleared and shows the message alone.
printmsg(mem, msg) == [a \in Writable |-> IF a \in Screen THEN <<msg, a>> ELSE mem[a]]

\* The launcher is read from bank 0 of the internal ROM.
loadcode(mem, rom) ==
    LET m == printmsg([mem EXCEPT ![HOOK] = ZERO], "Booting launcher")
    IN  [a \in Writable |-> IF a \in CodeArea THEN rom[a - EXCODE] ELSE m[a]]

zeroram(mem) == [a \in Writable |-> IF a \in CodeArea THEN ZERO ELSE mem[a]]

\* Mutant: only the high byte of the counter is looked at.
CountedHigh(n) == IF n = 0 THEN MEMSIZE ELSE IF n < 257 THEN 1 ELSE n - 255

\* dec bc; ld a,b; or c; jp nz: a count of zero goes round 0x10000 times.
Count(n) == IF n = 0 THEN MEMSIZE ELSE n

\* How far a lies beyond deploy: the last address is followed by the first.
Offset(a, deploy) == (a - deploy) % MEMSIZE

\* n bytes of ram, the external RAM, from its start, to deploy and on.
Copied(mem, ram, deploy, n) ==
    [a \in Writable |-> IF Offset(a, deploy) < Count(n) THEN ram[Offset(a, deploy)]
                                                       ELSE mem[a]]

\* The copy, and BASIC's pointers.  The deploy address is read anew for them:
\* a program that was copied over it is taken for it.
copydata(mem, ram, n) ==
    LET copied == Copied(mem, ram, WordAt(mem, DEPLOYADDR), n)
        start  == WordAt(copied, DEPLOYADDR)
        end    == (start + n) % MEMSIZE
    IN  [a \in Writable |->
            CASE a = BASICSTART     -> Lo(start)
              [] a = BASICSTART + 1 -> Hi(start)
              [] a \in {BASICEND, BASICEND + 2, BASICEND + 4}     -> Lo(end)
              [] a \in {BASICEND + 1, BASICEND + 3, BASICEND + 5} -> Hi(end)
              [] OTHER -> copied[a]]

loadrom(mem, ram, out) ==
    copydata(PutWord(printmsg(mem, "Launching program"), DEPLOYADDR, out.deploy),
             ram, out.size)
=============================================================================
