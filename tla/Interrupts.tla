----------------------------- MODULE Interrupts ------------------------------
(***************************************************************************)
(* Taking an interrupt and returning from it (arch/x86_64): the frame that *)
(* the processor and the entry stubs build on the stack, the Registers     *)
(* that interrupt_handler reads there, and how the stub undoes it.  A word *)
(* is <<what it is a value of, whose value>>: register r of the program is *)
(* <<r, 0>>, and of a handler n interrupts deep <<r, n>>.                  *)
(***************************************************************************)
EXTENDS Integers, Sequences, SequencesExt

CONSTANTS
    Exceptions,     \* bound: the vectors below 32 that the processor raises
    Software,       \* bound: vectors from 32 on.  Nothing sets IF, so only an int n raises one;
                    \* no driver has one yet, and the model has one at any point
    MaxDepth        \* bound: interrupts within interrupts

ASSUME VectorsAssumption ==
    Exceptions \subseteq 0 .. 31 /\ Software \subseteq 32 .. 255 /\ MaxDepth \in Nat

VARIABLES
    gdt, idt,       \* init_gdt and init_idt have loaded the tables
    cpu,            \* the registers
    stack,          \* the words on the stack, its top last
    hlt,            \* hlt has been executed: only a non-maskable interrupt goes on from there
    masked,         \* a non-maskable interrupt was taken, and no iretq was executed since
    taken,          \* the interrupts that have not returned: how the processor took each, where its
                    \* frame will end (regs), and where in the stub it is (at)
    reset           \* an exception found no handler, nor a handler for that

cpuVars == <<cpu, stack, hlt, masked, taken, reset>>

Scratch == {"rax", "rcx", "rdx", "rsi", "rdi", "r8", "r9", "r10", "r11"}
General == Scratch \cup {"rbx", "rbp", "r12", "r13", "r14", "r15", "ds", "es"}
Names == General \cup {"rip", "cs", "rflags", "ss"}

\* What isr_common pushes, and what it pops.
Pushed == <<"rax", "rbx", "rcx", "rdx", "rbp", "rsi", "rdi", "r8", "r9", "r10", "r11", "r12",
            "r13", "r14", "r15", "ds", "es">>

Popped_WithSwap == <<"es", "ds", "r15", "r14", "r13", "r12", "r11", "r10", "r9", "r8", "rsi", "rdi",
                     "rbp", "rdx", "rcx", "rbx", "rax">>

Popped == <<"es", "ds", "r15", "r14", "r13", "r12", "r11", "r10", "r9", "r8", "rdi", "rsi",
            "rbp", "rdx", "rcx", "rbx", "rax">>

\* struct Registers, from its first field on.
Registers == <<"es", "ds", "r15", "r14", "r13", "r12", "r11", "r10", "r9", "r8", "rdi", "rsi", "rbp",
               "rdx", "rcx", "rbx", "rax", "interrupt_number", "error_code", "rip", "cs", "rflags",
               "original_rsp", "ss">>

\* The vectors for which the processor pushes an error code, and whose stub counts on it.
PushesErrorCode == {8, 10, 11, 12, 13, 14, 17, 21, 29, 30}

ISR_ERRORCODE_WithoutAlignmentCheck == {8, 10, 11, 12, 13, 14, 21}

ISR_ERRORCODE == {8, 10, 11, 12, 13, 14, 17, 21}

Init_Interrupts ==
    /\ gdt = FALSE /\ idt = FALSE
    /\ cpu = [r \in Names |-> <<r, 0>>]
    /\ stack = <<>>
    /\ hlt = FALSE /\ masked = FALSE
    /\ taken = <<>>
    /\ reset = FALSE

-----------------------------------------------------------------------------
Depth == Len(taken)

Top == taken[Depth]

\* The processor aligns the stack to two words and pushes what it interrupts.
Frame(v) ==
    LET aligned == IF Len(stack) % 2 = 1 THEN Append(stack, <<"pad", 0>>) ELSE stack
        code == IF v \in PushesErrorCode THEN << <<"error_code", v>> >> ELSE <<>>
    IN  aligned
        \o <<cpu["ss"], <<"original_rsp", Len(stack)>>, cpu["rflags"], cpu["cs"], cpu["rip"]>>
        \o code

\* What the entry stub and isr_common push above it.
StubWords(v) == Len(Pushed) + (IF v \in ISR_ERRORCODE THEN 1 ELSE 2)

\* A vector before init_idt, or one whose gate names a segment that init_gdt has not
\* loaded yet, ends in a triple fault.
Take(v) ==
    /\ Depth < MaxDepth
    /\ IF idt /\ gdt
       THEN /\ stack' = Frame(v)
            /\ cpu' = [cpu EXCEPT !["rip"] = <<"rip", Depth + 1>>, !["rflags"] = <<"rflags", Depth + 1>>]
            /\ taken' = Append(taken, [vector |-> v, cpu |-> cpu, hlt |-> hlt, rsp |-> Len(stack),
                                       regs |-> Len(Frame(v)) + StubWords(v), at |-> "entry"])
            /\ masked' = (masked \/ v = 2)
            /\ hlt' = FALSE /\ reset' = reset
       ELSE reset' = TRUE /\ UNCHANGED <<cpu, stack, hlt, masked, taken>>
    /\ UNCHANGED <<gdt, idt>>

\* The kernel or a handler executes, and no instruction of the stubs: those raise nothing.
Executing == ~hlt /\ (taken # <<>> => Top.at = "handler")

\* A non-maskable interrupt comes between any two instructions, once the one before it has
\* come to an iretq; the other exceptions are of an instruction that is executed.
Exception ==
    /\ ~reset
    /\ \E v \in Exceptions : (IF v = 2 THEN ~masked ELSE Executing) /\ Take(v)

SoftwareInterrupt == ~reset /\ Executing /\ idt /\ \E v \in Software : Take(v)

Running(at) == ~reset /\ ~hlt /\ taken # <<>> /\ Top.at = at

\* The interrupt that runs is in another part of its stub.
GoOn(at) == taken' = [taken EXCEPT ![Depth].at = at]

\* How many words of the topmost frame are not on the stack: not yet, or no more.
Missing == Top.regs - Len(stack)

\* What is pushed when k words are missing: the dummy error code, the number, the registers.
StubPushes(k) ==
    CASE k <= Len(Pushed) -> cpu[Pushed[Len(Pushed) + 1 - k]]
      [] k = Len(Pushed) + 1 -> <<"interrupt_number", Top.vector>>
      [] OTHER -> <<"error_code", 0>>

\* One push, or all that are left where nothing can come between.  ds and es go through rax.
Push ==
    /\ Running("entry") /\ Missing > 0
    /\ LET n == IF masked THEN Missing ELSE 1
       IN  /\ stack' = stack \o [i \in 1 .. n |-> StubPushes(Missing + 1 - i)]
           /\ cpu' = IF Missing - n < 2 THEN [cpu EXCEPT !["rax"] = StubPushes(Missing + 1 - n)] ELSE cpu
    /\ UNCHANGED <<gdt, idt, hlt, masked, taken, reset>>

\* The handler is C++: it preserves what its calling convention says, and goes on elsewhere
\* with other flags.
InHandler ==
    [r \in Names |-> IF r \in Scratch \cup {"rip", "rflags"} THEN <<r, Depth>> ELSE cpu[r]]

CallHandler ==
    /\ Running("entry") /\ Missing = 0
    /\ cpu' = InHandler /\ GoOn("handler")
    /\ UNCHANGED <<gdt, idt, stack, hlt, masked, reset>>

Position(names, name) == CHOOSE i \in DOMAIN names : names[i] = name

\* regs->name, where regs is the stack pointer at the call of the handler.
Field(regs, name) == stack[regs + 1 - Position(Registers, name)]

\* hcf.
Halt == hlt' = TRUE /\ UNCHANGED <<gdt, idt, cpu, stack, masked, taken, reset>>

HandlerHalts == Field(Top.regs, "interrupt_number")[2] < 32

\* interrupt_handler ends in hcf ...
InterruptHalt == Running("handler") /\ HandlerHalts /\ Halt

\* ... or returns.  The registers are popped, ds and es through rax,
Pop ==
    /\ (Running("handler") /\ ~HandlerHalts) \/ (Running("exit") /\ Missing < Len(Popped))
    /\ LET r == Popped[Missing + 1]
       IN  cpu' = [cpu EXCEPT !["rax"] = IF r \in {"es", "ds"} THEN Last(stack) ELSE @, ![r] = Last(stack)]
    /\ stack' = Front(stack) /\ GoOn("exit")
    /\ UNCHANGED <<gdt, idt, hlt, masked, reset>>

\* the number and the error code dropped,
Drop ==
    /\ Running("exit") /\ Missing = Len(Popped)
    /\ stack' = SubSeq(stack, 1, Len(stack) - 2)
    /\ UNCHANGED <<gdt, idt, cpu, hlt, masked, taken, reset>>

\* and iretq pops the rest.
Iretq ==
    /\ Running("exit") /\ Missing = Len(Popped) + 2
    /\ LET word(i) == stack[Len(stack) - i]
       IN  /\ cpu' = [cpu EXCEPT !["rip"] = word(0), !["cs"] = word(1), !["rflags"] = word(2),
                                 !["ss"] = word(4)]
           /\ stack' = SubSeq(stack, 1, word(3)[2])
    /\ taken' = Front(taken)
    /\ hlt' = Top.hlt /\ masked' = FALSE
    /\ UNCHANGED <<gdt, idt, reset>>

StubStep == Push \/ CallHandler \/ Pop \/ Drop \/ Iretq

-----------------------------------------------------------------------------
(* Properties *)

\* Whatever was interrupted, however deep, and in the middle of a stub too, a handler is
\* called with its stack aligned and finds in Registers the vector, the error code and what
\* the processor held then.
\* Vectors 29 and 30 have an error code that their stubs do not expect.
FrameTellsTruth ==
    \A i \in DOMAIN taken :
        LET t == taken[i]
        IN  t.at = "handler" /\ t.vector \notin {29, 30} =>
                /\ t.regs % 2 = 0
                /\ Field(t.regs, "interrupt_number")[2] = t.vector
                /\ Field(t.regs, "error_code")[2] = IF t.vector \in PushesErrorCode THEN t.vector ELSE 0
                /\ Field(t.regs, "original_rsp")[2] = t.rsp
                /\ \A r \in Names : Field(t.regs, r) = t.cpu[r]

\* Only the handler of a software interrupt returns, and it leaves every register and the
\* stack as they were when its interrupt was taken, whatever it and the interrupts in
\* between did to them.  What an exception has interrupted never runs again.
ReturnsWhereTaken ==
    [][Len(taken') < Len(taken) =>
            /\ taken' = Front(taken) /\ Top.vector >= 32
            /\ cpu' = Top.cpu /\ Len(stack') = Top.rsp /\ stack' = SubSeq(stack, 1, Top.rsp)]_cpuVars
==============================================================================
