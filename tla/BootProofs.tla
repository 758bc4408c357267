------------------------------ MODULE BootProofs -----------------------------
(***************************************************************************)
(* Safety of the boot (Boot, with the interrupts of Interrupts and the     *)
(* calls of AcpiGlue) for every bound, every machine and every width of an *)
(* address.                                                                *)
(***************************************************************************)
EXTENDS Boot, NumberTheorems, FiniteSetTheorems

-----------------------------------------------------------------------------
(* The stack of interrupts within interrupts, built and undone word by     *)
(* word: each frame lies above what it interrupted, and a return restores  *)
(* what it was built from.                                                 *)

Word == (Names \cup {"pad", "original_rsp", "error_code", "interrupt_number"}) \X Nat

Taken ==
    [vector : 0 .. 255, cpu : [Names -> Word], hlt : BOOLEAN, rsp : Nat, regs : Nat,
     at : {"entry", "handler", "exit"}]

\* The words of the frame of the interrupt t that are among the first lim of the stack s: the
\* processor's always, the stub's from the frame's beginning on.
FrameAt(s, t, lim) ==
    /\ lim \in Nat /\ lim <= Len(s)
    /\ t.rsp + 5 <= lim /\ t.rsp + 24 <= t.regs
    /\ lim <= t.regs /\ t.regs <= lim + StubWords(t.vector)
    /\ \A k \in 1 .. 17 : t.regs + 1 - k <= lim => s[t.regs + 1 - k] = t.cpu[Popped[k]]
    /\ t.regs - 17 <= lim => s[t.regs - 17][2] = t.vector
    /\ t.vector \notin {29, 30} =>
        /\ t.regs % 2 = 0
        /\ t.regs - 18 <= lim => s[t.regs - 18][2] = IF t.vector \in PushesErrorCode THEN t.vector ELSE 0
        /\ s[t.regs - 19] = t.cpu["rip"] /\ s[t.regs - 20] = t.cpu["cs"]
        /\ s[t.regs - 21] = t.cpu["rflags"] /\ s[t.regs - 22][2] = t.rsp
        /\ s[t.regs - 23] = t.cpu["ss"]

\* Where the fields of Registers, and what isr_common pops, are.
LEMMA RegisterPositions ==
    /\ \A i \in 1 .. 24 : Position(Registers, Registers[i]) = i
    /\ \A i \in 1 .. 17 : Position(Popped, Popped[i]) = i /\ Registers[i] = Popped[i]
<1>1. DOMAIN Registers = 1 .. 24 /\ DOMAIN Popped = 1 .. 17
    BY DEF Registers, Popped
<1>2. \A i, j \in 1 .. 24 : Registers[i] = Registers[j] => i = j
    BY DEF Registers
<1>3. \A i \in 1 .. 17 : Registers[i] = Popped[i]
    BY DEF Registers, Popped
<1>4. \A i, j \in 1 .. 17 : Popped[i] = Popped[j] => i = j
    BY <1>2, <1>3
<1> QED
    BY <1>1, <1>2, <1>3, <1>4 DEF Position

LEMMA NamesArePopped ==
    /\ \A i \in 1 .. 17 : Popped[i] \in General /\ Popped[i] \in Names
    /\ \A i, j \in 1 .. 17 : Popped[i] = Popped[j] => i = j
    /\ \A i \in 1 .. 17 : Popped[i] \in {"es", "ds"} <=> i <= 2
    /\ \A r \in General : \E i \in 1 .. 17 : Popped[i] = r
    /\ General \cap {"rip", "cs", "rflags", "ss"} = {}
    /\ Popped[17] = "rax" /\ Len(Popped) = 17 /\ Len(Pushed) = 17
BY DEF Popped, Pushed, General, Scratch, Names

\* isr_common pushes in the order in which it pops, reversed.
LEMMA PoppedIsPushed == \A i \in 1 .. 17 : Pushed[i] = Popped[18 - i]
BY DEF Popped, Pushed

\* The stub's words are the registers, the number, and the dummy error code where the
\* processor pushes none.
LEMMA StubsAre ==
    \A v \in 0 .. 255 :
        /\ StubWords(v) \in 18 .. 19 /\ (StubWords(v) = 18 <=> v \in ISR_ERRORCODE)
        /\ v \in ISR_ERRORCODE => v \in PushesErrorCode
        /\ v \notin {29, 30} /\ v \in PushesErrorCode => v \in ISR_ERRORCODE
        /\ v >= 32 => v \notin ISR_ERRORCODE
BY NamesArePopped DEF StubWords, ISR_ERRORCODE, PushesErrorCode

\* w is a and then b.
Joined(w, a, b, S) ==
    /\ w \in Seq(S) /\ Len(w) = Len(a) + Len(b) /\ Len(a) \in Nat /\ Len(b) \in Nat
    /\ \A i \in 1 .. Len(a) : w[i] = a[i]
    /\ \A i \in 1 .. Len(b) : w[Len(a) + i] = b[i]

LEMMA Concatenated ==
    ASSUME NEW S, NEW a \in Seq(S), NEW b \in Seq(S)
    PROVE  Joined(a \o b, a, b, S)
BY DEF Joined

\* What the processor pushes: everything that was on the stack, and a frame above it that
\* wants the stub's words.
LEMMA FrameBuilt ==
    ASSUME stack \in Seq(Word), cpu \in [Names -> Word], NEW v \in 0 .. 255, NEW t,
           t.vector = v, t.cpu = cpu, t.rsp = Len(stack), t.regs = Len(Frame(v)) + StubWords(v)
    PROVE  /\ Frame(v) \in Seq(Word) /\ Len(Frame(v)) \in Nat
           /\ FrameAt(Frame(v), t, Len(Frame(v)))
           /\ \A i \in 1 .. Len(stack) : Frame(v)[i] = stack[i]
<1> DEFINE aligned == IF Len(stack) % 2 = 1 THEN Append(stack, <<"pad", 0>>) ELSE stack
           iret == <<cpu["ss"], <<"original_rsp", Len(stack)>>, cpu["rflags"], cpu["cs"], cpu["rip"]>>
           code == IF v \in PushesErrorCode THEN << <<"error_code", v>> >> ELSE <<>>
           n == Len(aligned)
           w == Frame(v)
<1>1. w = (aligned \o iret) \o code
    BY DEF Frame
<1>2. /\ aligned \in Seq(Word) /\ n \in Nat /\ n % 2 = 0 /\ n >= Len(stack)
      /\ \A i \in 1 .. Len(stack) : aligned[i] = stack[i]
    <2>1. <<"pad", 0>> \in Word /\ Len(stack) \in Nat
        BY DEF Word
    <2>2. CASE Len(stack) % 2 = 1
        <3>1. aligned = Append(stack, <<"pad", 0>>)
            BY <2>2
        <3> QED
            BY <2>1, <2>2, <3>1
    <2>3. CASE Len(stack) % 2 # 1
        BY <2>1, <2>3
    <2> QED
        BY <2>2, <2>3
<1>3. /\ iret \in Seq(Word) /\ Len(iret) = 5
      /\ iret[1] = cpu["ss"] /\ iret[2] = <<"original_rsp", Len(stack)>>
      /\ iret[3] = cpu["rflags"] /\ iret[4] = cpu["cs"] /\ iret[5] = cpu["rip"]
    <2>1. /\ cpu["ss"] \in Word /\ cpu["rflags"] \in Word /\ cpu["cs"] \in Word
          /\ cpu["rip"] \in Word /\ <<"original_rsp", Len(stack)>> \in Word
        BY DEF Names, Word
    <2> QED
        BY <2>1
<1>4. /\ code \in Seq(Word) /\ Len(code) = IF v \in PushesErrorCode THEN 1 ELSE 0
      /\ v \in PushesErrorCode => code[1] = <<"error_code", v>>
    <2>1. <<"error_code", v>> \in Word
        BY DEF Word
    <2> QED
        BY <2>1
<1> HIDE DEF aligned, iret, code, w
<1>5. Joined(aligned \o iret, aligned, iret, Word)
    BY <1>2, <1>3, Concatenated
<1>6. Joined(w, aligned \o iret, code, Word)
    <2>1. aligned \o iret \in Seq(Word)
        BY <1>5 DEF Joined
    <2> QED
        BY <1>1, <1>4, <2>1, Concatenated
<1> DEFINE c == Len(code)
<1>7. Len(aligned \o iret) = n + 5
    BY <1>3, <1>5 DEF Joined
<1>8. /\ w \in Seq(Word) /\ Len(w) = n + 5 + c /\ c \in 0 .. 1
      /\ \A i \in 1 .. n : w[i] = aligned[i]
      /\ \A i \in 1 .. 5 : w[n + i] = iret[i]
      /\ \A i \in 1 .. c : w[n + 5 + i] = code[i]
    <2>1. \A i \in 1 .. n + 5 : w[i] = (aligned \o iret)[i]
        BY <1>6, <1>7 DEF Joined
    <2>2. /\ \A i \in 1 .. n : i \in 1 .. n + 5
          /\ \A i \in 1 .. 5 : n + i \in 1 .. n + 5
        <3>1. n \in Nat
            BY <1>2
        <3> HIDE DEF n
        <3> QED
            BY <3>1
    <2>4. \A i \in 1 .. n : w[i] = aligned[i]
        BY <1>5, <2>1, <2>2 DEF Joined
    <2>5. \A i \in 1 .. 5 : (aligned \o iret)[n + i] = iret[i]
        BY <1>3, <1>5 DEF Joined
    <2>6. \A i \in 1 .. 5 : w[n + i] = iret[i]
        <3> HIDE DEF n
        <3> QED
            BY <2>1, <2>2, <2>5
    <2>7. /\ w \in Seq(Word) /\ Len(w) = n + 5 + c
          /\ \A i \in 1 .. c : w[n + 5 + i] = code[i]
        BY <1>6, <1>7 DEF Joined
    <2>8. c \in 0 .. 1
        BY <1>4
    <2> QED
        BY <2>4, <2>6, <2>7, <2>8
<1> HIDE DEF n, c
<1> DEFINE r == t.regs
           p == t.rsp
           lim == Len(w)
           q == StubWords(v)
<1>9. /\ r = n + 5 + c + q /\ p = Len(stack) /\ q \in 18 .. 19 /\ n \in Nat /\ c \in 0 .. 1 /\ p \in Nat
      /\ lim = n + 5 + c /\ n >= p /\ n % 2 = 0 /\ (v \notin {29, 30} => c + q = 19)
      /\ (v \in PushesErrorCode <=> c = 1) /\ (v \in ISR_ERRORCODE <=> q = 18) /\ (q = 18 => c = 1)
      /\ (v \notin {29, 30} => (v \in PushesErrorCode <=> v \in ISR_ERRORCODE))
    <2>1. /\ q \in 18 .. 19 /\ (v \in ISR_ERRORCODE <=> q = 18) /\ (v \in ISR_ERRORCODE => v \in PushesErrorCode)
          /\ (v \notin {29, 30} => (v \in PushesErrorCode <=> v \in ISR_ERRORCODE))
        BY StubsAre
    <2>2. c = IF v \in PushesErrorCode THEN 1 ELSE 0
        BY <1>4 DEF c
    <2>3. r = lim + q /\ p = Len(stack)
        BY DEF w
    <2> HIDE DEF r, p, q, lim
    <2>4. lim = n + 5 + c
        BY <1>8 DEF lim
    <2>5. p \in Nat /\ n \in Nat /\ n >= p /\ n % 2 = 0
        BY <1>2, <2>3 DEF n
    <2> QED
        BY <2>1, <2>2, <2>3, <2>4, <2>5
<1> HIDE DEF r, p, q, lim
<1>10. /\ lim \in Nat /\ lim <= lim /\ p + 5 <= lim /\ p + 24 <= r /\ lim <= r /\ r <= lim + q
       /\ ~ (r - 17 <= lim) /\ \A k \in 1 .. 17 : ~ (r + 1 - k <= lim)
    BY <1>9
<1>11. ASSUME v \notin {29, 30}
       PROVE  /\ r % 2 = 0
              /\ r - 18 <= lim => w[r - 18][2] = IF v \in PushesErrorCode THEN v ELSE 0
              /\ w[r - 19] = cpu["rip"] /\ w[r - 20] = cpu["cs"]
              /\ w[r - 21] = cpu["rflags"] /\ w[r - 22][2] = p
              /\ w[r - 23] = cpu["ss"]
    <2>1. r = n + 24 /\ c + q = 19
        BY <1>9, <1>11
    <2>2. r % 2 = 0
        BY <1>9, <2>1
    <2>3. ASSUME r - 18 <= lim
          PROVE  w[r - 18][2] = IF v \in PushesErrorCode THEN v ELSE 0
        <3>1. c = 1 /\ r - 18 = n + 5 + 1
            BY <1>9, <2>1, <2>3
        <3>2. v \in PushesErrorCode
            BY <1>9, <3>1
        <3>3. w[n + 5 + 1] = code[1]
            BY <1>8, <3>1
        <3> QED
            BY <1>4, <3>1, <3>2, <3>3
    <2>4. /\ w[n + 5] = iret[5] /\ w[n + 4] = iret[4] /\ w[n + 3] = iret[3] /\ w[n + 2] = iret[2]
          /\ w[n + 1] = iret[1]
        BY <1>8
    <2>5. r - 19 = n + 5 /\ r - 20 = n + 4 /\ r - 21 = n + 3 /\ r - 22 = n + 2 /\ r - 23 = n + 1
        BY <1>9, <2>1
    <2>6. <<"original_rsp", Len(stack)>>[2] = p
        BY <1>9
    <2> QED
        BY <1>3, <2>2, <2>3, <2>4, <2>5, <2>6
<1>12. FrameAt(w, t, lim)
    <2>1. t.regs = r /\ t.rsp = p /\ t.vector = v /\ t.cpu = cpu /\ StubWords(v) = q /\ Len(w) = lim
        BY DEF r, p, q, lim
    <2> QED
        BY ONLY <1>10, <1>11, <2>1 DEF FrameAt
<1>13. \A i \in 1 .. Len(stack) : w[i] = stack[i]
    <2>1. \A i \in 1 .. Len(stack) : i \in 1 .. n
        BY <1>9
    <2> QED
        BY <1>2, <1>8, <2>1
<1> QED
    BY <1>8, <1>10, <1>12, <1>13 DEF w, lim

\* A part of a frame is all that its words say of it.
LEMMA FrameStays ==
    ASSUME NEW s, NEW w, NEW t \in Taken, NEW u \in Taken, NEW lim, NEW m \in Nat, FrameAt(s, t, lim),
           m <= lim, m <= Len(w), \A i \in 1 .. m : w[i] = s[i],
           t.rsp + 5 <= m, t.regs <= m + StubWords(t.vector),
           u.vector = t.vector, u.cpu = t.cpu, u.rsp = t.rsp, u.regs = t.regs
    PROVE  FrameAt(w, u, m)
<1> DEFINE r == t.regs
           p == t.rsp
           q == StubWords(t.vector)
<1>1. /\ r \in Nat /\ p \in Nat /\ p + 24 <= r /\ lim \in Nat /\ lim <= r /\ q \in 18 .. 19 /\ r <= m + q
      /\ p + 5 <= m
    BY StubsAre DEF Taken, FrameAt
<1> HIDE DEF r, p, q
<1>2. \A k \in 1 .. 17 : r + 1 - k <= m => r + 1 - k \in 1 .. m /\ r + 1 - k <= lim
    BY <1>1
<1>3. /\ r - 17 <= m => r - 17 \in 1 .. m /\ r - 17 <= lim
      /\ r - 18 <= m => r - 18 \in 1 .. m /\ r - 18 <= lim
      /\ r - 19 \in 1 .. m /\ r - 20 \in 1 .. m /\ r - 21 \in 1 .. m /\ r - 22 \in 1 .. m /\ r - 23 \in 1 .. m
    BY <1>1
<1>4. m \in Nat /\ m <= Len(w) /\ p + 5 <= m /\ p + 24 <= r /\ m <= r /\ r <= m + q
    BY <1>1
<1>5. \A k \in 1 .. 17 : r + 1 - k <= m => w[r + 1 - k] = t.cpu[Popped[k]]
    BY <1>2 DEF FrameAt, r
<1>6. r - 17 <= m => w[r - 17][2] = t.vector
    BY <1>3 DEF FrameAt, r
<1>7. t.vector \notin {29, 30} =>
        /\ r % 2 = 0
        /\ r - 18 <= m => w[r - 18][2] = IF t.vector \in PushesErrorCode THEN t.vector ELSE 0
        /\ w[r - 19] = t.cpu["rip"] /\ w[r - 20] = t.cpu["cs"]
        /\ w[r - 21] = t.cpu["rflags"] /\ w[r - 22][2] = p
        /\ w[r - 23] = t.cpu["ss"]
    BY <1>3 DEF FrameAt, r, p
<1>8. u.regs = r /\ u.rsp = p /\ u.vector = t.vector /\ u.cpu = t.cpu /\ StubWords(t.vector) = q
    BY DEF r, p, q
<1> QED
    BY ONLY <1>4, <1>5, <1>6, <1>7, <1>8 DEF FrameAt

\* How much of the stack is of the i-th interrupt's frame or below it.
Lim(i) == IF i = Len(taken) THEN Len(stack) ELSE taken[i + 1].rsp

\* The frames lie on the stack one above the other.  One that another interrupt came into the
\* middle of was interrupted by a non-maskable one; what a stub has not pushed yet, or has
\* popped, the processor holds.
StackInv ==
    /\ stack \in Seq(Word) /\ cpu \in [Names -> Word] /\ taken \in Seq(Taken)
    /\ \A i \in 1 .. Len(taken) : FrameAt(stack, taken[i], Lim(i))
    /\ \A i \in 1 .. Len(taken) : taken[i].at = "exit" => taken[i].vector >= 32
    /\ \A i \in 1 .. Len(taken) - 1 :
        IF taken[i].at = "handler" THEN taken[i + 1].rsp = taken[i].regs ELSE taken[i + 1].vector = 2
    /\ \A i, j \in 1 .. Len(taken) : i < j => taken[i].rsp <= taken[j].rsp
    /\ taken # <<>> =>
        IF Top.at = "handler" THEN Len(stack) = Top.regs
        ELSE \A k \in 1 .. 17 : k <= Top.regs - Len(stack) => cpu[Popped[k]] = Top.cpu[Popped[k]]

LEMMA InitStack == Init_Interrupts => StackInv
<1> SUFFICES ASSUME Init_Interrupts
             PROVE  StackInv
    OBVIOUS
<1>1. cpu \in [Names -> Word]
    BY DEF Init_Interrupts, Word
<1>2. stack = <<>> /\ taken = <<>> /\ Len(taken) = 0
    BY DEF Init_Interrupts
<1>3. stack \in Seq(Word) /\ taken \in Seq(Taken)
    BY <1>2
<1> QED
    BY <1>1, <1>2, <1>3 DEF StackInv

\* Where the frames end: none above the one that follows it, and that not above the stack.
LEMMA Limits ==
    ASSUME StackInv
    PROVE  /\ Len(taken) \in Nat /\ Len(stack) \in Nat
           /\ \A i \in 1 .. Len(taken) :
                /\ taken[i] \in Taken /\ Lim(i) \in Nat /\ Lim(i) <= Len(stack)
                /\ taken[i].rsp \in Nat /\ taken[i].regs \in Nat /\ taken[i].rsp + 5 <= Lim(i)
                /\ Lim(i) <= taken[i].regs /\ taken[i].regs <= Lim(i) + StubWords(taken[i].vector)
           /\ \A i \in 1 .. Len(taken) - 1 : Lim(i) = taken[i + 1].rsp /\ Lim(i) <= taken[Len(taken)].rsp
<1>1. Len(taken) \in Nat /\ Len(stack) \in Nat
    BY DEF StackInv
<1>2. ASSUME NEW i \in 1 .. Len(taken)
      PROVE  /\ taken[i] \in Taken /\ Lim(i) \in Nat /\ Lim(i) <= Len(stack)
             /\ taken[i].rsp \in Nat /\ taken[i].regs \in Nat /\ taken[i].rsp + 5 <= Lim(i)
             /\ Lim(i) <= taken[i].regs /\ taken[i].regs <= Lim(i) + StubWords(taken[i].vector)
    <2>1. taken[i] \in Taken /\ FrameAt(stack, taken[i], Lim(i))
        BY DEF StackInv
    <2> QED
        BY <2>1 DEF FrameAt, Taken
<1>3. ASSUME NEW i \in 1 .. Len(taken) - 1
      PROVE  Lim(i) = taken[i + 1].rsp /\ Lim(i) <= taken[Len(taken)].rsp
    <2>1. i + 1 \in 1 .. Len(taken) /\ i # Len(taken) /\ Len(taken) \in 1 .. Len(taken)
        BY <1>1
    <2>2. Lim(i) = taken[i + 1].rsp
        BY <2>1 DEF Lim
    <2>3. taken[i + 1].rsp <= taken[Len(taken)].rsp
        <3>1. CASE i + 1 = Len(taken)
            BY <1>2, <2>1, <3>1
        <3>2. CASE i + 1 # Len(taken)
            <4>1. i + 1 < Len(taken)
                BY <1>1, <3>2
            <4> QED
                BY <2>1, <4>1 DEF StackInv
        <3> QED
            BY <3>1, <3>2
    <2> QED
        BY <2>2, <2>3
<1> QED
    BY <1>1, <1>2, <1>3

\* A step of the topmost interrupt's stub, and of its call of the handler: what lies below its
\* frame is left alone.
LEMMA TopSteps ==
    ASSUME StackInv, taken # <<>>, stack' \in Seq(Word), cpu' \in [Names -> Word],
           NEW u \in Taken, u.vector = Top.vector, u.cpu = Top.cpu, u.rsp = Top.rsp, u.regs = Top.regs,
           taken' \in Seq(Taken), Len(taken') = Len(taken), taken'[Len(taken)] = u,
           \A i \in 1 .. Len(taken) - 1 : taken'[i] = taken[i],
           FrameAt(stack', u, Len(stack')), \A i \in 1 .. Top.rsp : stack'[i] = stack[i],
           u.at = "exit" => u.vector >= 32,
           IF u.at = "handler" THEN Len(stack') = u.regs
           ELSE \A k \in 1 .. 17 : k <= u.regs - Len(stack') => cpu'[Popped[k]] = u.cpu[Popped[k]]
    PROVE  StackInv'
<1> DEFINE n == Len(taken)
<1>1. /\ n \in Nat /\ n # 0 /\ Len(stack) \in Nat
      /\ \A i \in 1 .. n :
            /\ taken[i] \in Taken /\ Lim(i) \in Nat /\ Lim(i) <= Len(stack)
            /\ taken[i].rsp \in Nat /\ taken[i].regs \in Nat /\ taken[i].rsp + 5 <= Lim(i)
            /\ Lim(i) <= taken[i].regs /\ taken[i].regs <= Lim(i) + StubWords(taken[i].vector)
      /\ \A i \in 1 .. n - 1 : Lim(i) = taken[i + 1].rsp /\ Lim(i) <= taken[n].rsp
    BY Limits DEF StackInv
<1>2. Top = taken[n] /\ Top' = u /\ Len(stack') \in Nat /\ Top.rsp \in Nat /\ taken' # <<>>
    BY <1>1 DEF Top, Depth
<1>3. Top.rsp + 5 <= Len(stack')
    BY <1>2 DEF FrameAt
<1>4. \A i \in 1 .. n : taken'[i].rsp = taken[i].rsp /\ taken'[i].vector = taken[i].vector
                        /\ taken'[i].regs = taken[i].regs
    <2> TAKE i \in 1 .. n
    <2>1. CASE i = n
        BY <1>2, <2>1
    <2>2. CASE i # n
        <3>1. i \in 1 .. n - 1
            BY <1>1, <2>2
        <3> QED
            BY <3>1
    <2> QED
        BY <2>1, <2>2
<1>5. \A i \in 1 .. n - 1 : Lim(i)' = Lim(i)
    <2> TAKE i \in 1 .. n - 1
    <2>1. i + 1 \in 1 .. n /\ i # n
        BY <1>1
    <2>2. Lim(i)' = taken'[i + 1].rsp
        BY <2>1 DEF Lim
    <2> QED
        BY <1>1, <1>4, <2>1, <2>2
<1>6. \A i \in 1 .. n - 1 : FrameAt(stack', taken[i], Lim(i))
    <2> TAKE i \in 1 .. n - 1
    <2> DEFINE m == Lim(i)
               t == taken[i]
    <2>1. i \in 1 .. n
        BY <1>1
    <2>2. t \in Taken /\ FrameAt(stack, t, m) /\ m \in Nat /\ t.rsp + 5 <= m /\ t.regs <= m + StubWords(t.vector)
        BY <1>1, <2>1 DEF StackInv
    <2>3. m <= Top.rsp
        BY <1>1, <1>2
    <2> HIDE DEF m, t
    <2>4. m <= m /\ m <= Len(stack') /\ \A k \in 1 .. m : stack'[k] = stack[k]
        BY <1>2, <1>3, <2>2, <2>3
    <2>5. FrameAt(stack', t, m)
        BY ONLY <2>2, <2>4, FrameStays
    <2> QED
        BY <2>5 DEF m, t
<1>7. \A i \in 1 .. n : FrameAt(stack', taken'[i], Lim(i)')
    <2> TAKE i \in 1 .. n
    <2>1. CASE i = n
        <3>1. Lim(i)' = Len(stack')
            BY <2>1 DEF Lim
        <3> QED
            BY <2>1, <3>1
    <2>2. CASE i # n
        <3>1. i \in 1 .. n - 1
            BY <1>1, <2>2
        <3> QED
            BY <1>5, <1>6, <3>1
    <2> QED
        BY <2>1, <2>2
<1>8. \A i \in 1 .. n : taken'[i].at = "exit" => taken'[i].vector >= 32
    <2> TAKE i \in 1 .. n
    <2>1. CASE i = n
        BY <2>1
    <2>2. CASE i # n
        <3>1. i \in 1 .. n - 1
            BY <1>1, <2>2
        <3> QED
            BY <3>1 DEF StackInv
    <2> QED
        BY <2>1, <2>2
<1>9. \A i \in 1 .. n - 1 :
        IF taken'[i].at = "handler" THEN taken'[i + 1].rsp = taken'[i].regs ELSE taken'[i + 1].vector = 2
    <2> TAKE i \in 1 .. n - 1
    <2>1. i + 1 \in 1 .. n /\ i \in 1 .. n
        BY <1>1
    <2>2. IF taken[i].at = "handler" THEN taken[i + 1].rsp = taken[i].regs ELSE taken[i + 1].vector = 2
        BY DEF StackInv
    <2>3. taken'[i].at = taken[i].at
        OBVIOUS
    <2> QED
        BY <1>4, <2>1, <2>2, <2>3
<1>10. \A i, j \in 1 .. n : i < j => taken'[i].rsp <= taken'[j].rsp
    BY <1>4 DEF StackInv
<1> QED
    BY <1>2, <1>7, <1>8, <1>9, <1>10 DEF StackInv

\* Of the topmost interrupt.
LEMMA TopFrame ==
    ASSUME StackInv, taken # <<>>
    PROVE  /\ Depth \in Nat \ {0} /\ Top \in Taken /\ FrameAt(stack, Top, Len(stack)) /\ Len(stack) \in Nat
           /\ Top.regs \in Nat /\ Top.rsp \in Nat /\ Top.rsp + 5 <= Len(stack) /\ Top.rsp + 24 <= Top.regs
           /\ Top.vector \in 0 .. 255 /\ StubWords(Top.vector) \in 18 .. 19
           /\ Len(stack) <= Top.regs /\ Top.regs <= Len(stack) + StubWords(Top.vector)
           /\ Missing \in 0 .. 19 /\ Len(stack) = Top.regs - Missing
           /\ Top.at = "exit" => Top.vector >= 32
<1>1. Len(taken) \in Nat \ {0}
    BY DEF StackInv
<1>2. Top = taken[Len(taken)] /\ Len(taken) \in 1 .. Len(taken) /\ Lim(Len(taken)) = Len(stack)
    BY <1>1 DEF Top, Depth, Lim
<1>3. Top \in Taken /\ FrameAt(stack, Top, Len(stack)) /\ (Top.at = "exit" => Top.vector >= 32)
    BY <1>2 DEF StackInv
<1>4. Top.regs \in Nat /\ Top.rsp \in Nat /\ Top.vector \in 0 .. 255 /\ StubWords(Top.vector) \in 18 .. 19
    BY <1>3, StubsAre DEF Taken
<1>5. /\ Len(stack) \in Nat /\ Top.rsp + 5 <= Len(stack) /\ Top.rsp + 24 <= Top.regs
      /\ Len(stack) <= Top.regs /\ Top.regs <= Len(stack) + StubWords(Top.vector)
    BY <1>3 DEF FrameAt
<1>6. Missing \in 0 .. 19 /\ Len(stack) = Top.regs - Missing
    <2> DEFINE r == Top.regs
               l == Len(stack)
               q == StubWords(Top.vector)
    <2>1. r \in Nat /\ l \in Nat /\ q \in 18 .. 19 /\ l <= r /\ r <= l + q
        BY <1>4, <1>5
    <2> HIDE DEF r, l, q
    <2>2. r - l \in 0 .. 19 /\ l = r - (r - l)
        BY <2>1
    <2> QED
        BY <2>2 DEF Missing, r, l
<1> QED
    BY <1>1, <1>3, <1>4, <1>5, <1>6 DEF Depth

\* The topmost interrupt is in another part of its stub.
LEMMA GoesOn ==
    ASSUME StackInv, taken # <<>>, NEW at \in {"entry", "handler", "exit"}, GoOn(at)
    PROVE  LET u == [Top EXCEPT !.at = at]
           IN  /\ u \in Taken /\ u.vector = Top.vector /\ u.cpu = Top.cpu /\ u.rsp = Top.rsp
               /\ u.regs = Top.regs /\ u.at = at /\ u.hlt = Top.hlt
               /\ taken' \in Seq(Taken) /\ Len(taken') = Len(taken) /\ taken'[Len(taken)] = u
               /\ \A i \in 1 .. Len(taken) - 1 : taken'[i] = taken[i]
<1> DEFINE u == [Top EXCEPT !.at = at]
<1>1. Len(taken) \in Nat \ {0} /\ Top = taken[Len(taken)] /\ Top \in Taken /\ taken \in Seq(Taken)
    BY TopFrame DEF StackInv, Depth, Top
<1>2. /\ u \in Taken /\ u.vector = Top.vector /\ u.cpu = Top.cpu /\ u.rsp = Top.rsp
      /\ u.regs = Top.regs /\ u.at = at /\ u.hlt = Top.hlt
    <2>1. Top \in Taken /\ at \in {"entry", "handler", "exit"}
        BY <1>1
    <2> QED
        BY ONLY <2>1, SMTT(30) DEF Taken, u
<1>3. taken' = [taken EXCEPT ![Len(taken)] = u]
    BY <1>1 DEF GoOn, Depth
<1> HIDE DEF u
<1>4. /\ taken' \in Seq(Taken) /\ Len(taken') = Len(taken) /\ taken'[Len(taken)] = u
      /\ \A i \in 1 .. Len(taken) - 1 : taken'[i] = taken[i]
    BY <1>1, <1>2, <1>3
<1> QED
    BY <1>2, <1>4 DEF u

\* A non-maskable interrupt may come into the middle of a stub, any other only where the
\* kernel or a handler executes.
LEMMA TakeKeepsStack ==
    ASSUME StackInv, hlt \in BOOLEAN, NEW v \in 0 .. 255, Take(v),
           v = 2 \/ (taken # <<>> => Top.at = "handler")
    PROVE  StackInv'
<1>1. CASE ~ (idt /\ gdt)
    <2>1. UNCHANGED <<cpu, stack, taken>>
        BY <1>1 DEF Take
    <2> QED
        BY <2>1 DEF StackInv, Lim, Top, Depth
<1>2. CASE idt /\ gdt
    <2> DEFINE n == Len(taken)
               w == Frame(v)
    <2>1. /\ n \in Nat /\ Len(stack) \in Nat /\ taken \in Seq(Taken) /\ stack \in Seq(Word) /\ cpu \in [Names -> Word]
          /\ \A i \in 1 .. n :
                /\ taken[i] \in Taken /\ Lim(i) \in Nat /\ Lim(i) <= Len(stack)
                /\ taken[i].rsp \in Nat /\ taken[i].regs \in Nat /\ taken[i].rsp + 5 <= Lim(i)
                /\ Lim(i) <= taken[i].regs /\ taken[i].regs <= Lim(i) + StubWords(taken[i].vector)
          /\ \A i \in 1 .. n - 1 : Lim(i) = taken[i + 1].rsp
        BY Limits DEF StackInv
    <2>2. PICK t : t = [vector |-> v, cpu |-> cpu, hlt |-> hlt, rsp |-> Len(stack),
                        regs |-> Len(Frame(v)) + StubWords(v), at |-> "entry"]
        OBVIOUS
    <2>3. /\ t.vector = v /\ t.cpu = cpu /\ t.rsp = Len(stack) /\ t.regs = Len(w) + StubWords(v)
          /\ t.at = "entry"
        BY <2>2
    <2>4. /\ w \in Seq(Word) /\ Len(w) \in Nat /\ FrameAt(w, t, Len(w))
          /\ \A i \in 1 .. Len(stack) : w[i] = stack[i]
        BY <2>1, <2>3, FrameBuilt
    <2>5. t \in Taken
        <3> DEFINE q == StubWords(v)
        <3>3. q \in 18 .. 19
            BY StubsAre
        <3>1. q \in Nat
            <4> HIDE DEF q
            <4> QED
                BY <3>3
        <3>2. Len(Frame(v)) + StubWords(v) \in Nat
            BY <2>4, <3>1
        <3> QED
            BY <2>1, <2>2, <3>2 DEF Taken
    <2>6. /\ stack' = w /\ taken' = Append(taken, t)
          /\ cpu' = [cpu EXCEPT !["rip"] = <<"rip", Depth + 1>>, !["rflags"] = <<"rflags", Depth + 1>>]
        BY <1>2, <2>2 DEF Take
    <2> HIDE DEF w
    <2>7. /\ taken' \in Seq(Taken) /\ Len(taken') = n + 1 /\ taken'[n + 1] = t
          /\ \A i \in 1 .. n : taken'[i] = taken[i]
        BY <2>1, <2>5, <2>6
    <2>8. /\ cpu' \in [Names -> Word]
          /\ \A r \in General : cpu'[r] = cpu[r]
        <3>1. <<"rip", Depth + 1>> \in Word /\ <<"rflags", Depth + 1>> \in Word
            BY <2>1 DEF Word, Names, Depth
        <3>2. cpu' \in [Names -> Word]
            BY <2>1, <2>6, <3>1
        <3>3. \A r \in General : r \in Names /\ r # "rip" /\ r # "rflags"
            BY NamesArePopped DEF Names
        <3> QED
            BY <2>1, <2>6, <3>2, <3>3
    <2>9. Top' = t /\ taken' # <<>>
        BY <2>1, <2>7 DEF Top, Depth
    <2>10. Len(stack) + 5 <= Len(w)
        BY <2>3, <2>4 DEF FrameAt
    <2>11. \A i \in 1 .. n : Lim(i)' = Lim(i)
        <3> TAKE i \in 1 .. n
        <3>1. Lim(i)' = taken'[i + 1].rsp
            BY <2>1, <2>7 DEF Lim
        <3>2. CASE i = n
            BY <2>3, <2>7, <3>1, <3>2 DEF Lim
        <3>3. CASE i # n
            <4>1. i \in 1 .. n - 1 /\ i + 1 \in 1 .. n
                BY <2>1, <3>3
            <4> QED
                BY <2>1, <2>7, <3>1, <4>1
        <3> QED
            BY <3>2, <3>3
    <2>12. \A i \in 1 .. n : FrameAt(w, taken[i], Lim(i))
        <3> TAKE i \in 1 .. n
        <3> DEFINE m == Lim(i)
                   f == taken[i]
        <3>1. f \in Taken /\ FrameAt(stack, f, m) /\ m \in Nat /\ f.rsp + 5 <= m /\ f.regs <= m + StubWords(f.vector)
            BY <2>1 DEF StackInv
        <3>2. m <= Len(stack)
            BY <2>1
        <3> HIDE DEF m, f
        <3>5. m \in Nat /\ Len(stack) \in Nat /\ Len(w) \in Nat
            BY <2>1, <2>4, <3>1
        <3>3. m <= m /\ m <= Len(w) /\ \A k \in 1 .. m : w[k] = stack[k]
            BY <2>4, <2>10, <3>2, <3>5
        <3>4. FrameAt(w, f, m)
            BY ONLY <3>1, <3>3, FrameStays
        <3> QED
            BY <3>4 DEF m, f
    <2>13. \A i \in 1 .. n + 1 : FrameAt(stack', taken'[i], Lim(i)')
        <3> TAKE i \in 1 .. n + 1
        <3>1. CASE i = n + 1
            <4>1. Lim(i)' = Len(w)
                BY <2>6, <2>7, <3>1 DEF Lim
            <4> QED
                BY <2>4, <2>6, <2>7, <3>1, <4>1
        <3>2. CASE i # n + 1
            <4>1. i \in 1 .. n
                BY <2>1, <3>2
            <4> QED
                BY <2>6, <2>7, <2>11, <2>12, <4>1
        <3> QED
            BY <3>1, <3>2
    <2>14. \A i \in 1 .. n + 1 : i \in 1 .. n \/ i = n + 1
        BY <2>1
    <2>15. \A i \in 1 .. n + 1 : taken'[i].at = "exit" => taken'[i].vector >= 32
        BY <2>3, <2>7, <2>14 DEF StackInv
    <2>16. \A i \in 1 .. n :
            IF taken'[i].at = "handler" THEN taken'[i + 1].rsp = taken'[i].regs ELSE taken'[i + 1].vector = 2
        <3> TAKE i \in 1 .. n
        <3>1. CASE i = n
            <4>1. taken # <<>> /\ Top = taken[n] /\ taken'[i] = Top /\ taken'[i + 1] = t
                BY <2>1, <2>7, <3>1 DEF Top, Depth
            <4>2. CASE Top.at = "handler"
                BY <2>3, <4>1, <4>2 DEF StackInv
            <4>3. CASE Top.at # "handler"
                BY <2>3, <4>1, <4>3
            <4> QED
                BY <4>2, <4>3
        <3>2. CASE i # n
            <4>1. i \in 1 .. n - 1 /\ i + 1 \in 1 .. n
                BY <2>1, <3>2
            <4>2. taken'[i] = taken[i] /\ taken'[i + 1] = taken[i + 1]
                BY <2>7, <4>1
            <4> QED
                BY <4>1, <4>2 DEF StackInv
        <3> QED
            BY <3>1, <3>2
    <2>17. \A i, j \in 1 .. n + 1 : i < j => taken'[i].rsp <= taken'[j].rsp
        <3> TAKE i, j \in 1 .. n + 1
        <3> HAVE i < j
        <3>1. i \in 1 .. n
            BY <2>1
        <3>2. CASE j = n + 1
            <4>1. taken'[j].rsp = Len(stack) /\ taken'[i].rsp = taken[i].rsp
                BY <2>3, <2>7, <3>1, <3>2
            <4>2. taken[i].rsp \in Nat /\ Lim(i) \in Nat /\ taken[i].rsp + 5 <= Lim(i) /\ Lim(i) <= Len(stack)
                BY <2>1, <3>1
            <4> QED
                BY <2>1, <4>1, <4>2
        <3>3. CASE j # n + 1
            <4>1. j \in 1 .. n
                BY <2>14, <3>3
            <4> QED
                BY <2>7, <3>1, <4>1 DEF StackInv
        <3> QED
            BY <3>2, <3>3
    <2>18. \A k \in 1 .. 17 : cpu'[Popped[k]] = t.cpu[Popped[k]]
        BY <2>3, <2>8, NamesArePopped
    <2>19. Len(taken') - 1 = n
        BY <2>1, <2>7
    <2>20. stack' \in Seq(Word) /\ cpu' \in [Names -> Word] /\ taken' \in Seq(Taken) /\ Len(taken') = n + 1
        BY ONLY <2>4, <2>6, <2>7, <2>8
    <2>21. \A k \in 1 .. 17 : k <= Top'.regs - Len(stack') => cpu'[Popped[k]] = Top'.cpu[Popped[k]]
        BY ONLY <2>9, <2>18
    <2>22. Top'.at # "handler"
        BY ONLY <2>3, <2>9
    <2> HIDE DEF n
    <2>23. /\ \A i \in 1 .. Len(taken') : FrameAt(stack', taken'[i], Lim(i)')
           /\ \A i \in 1 .. Len(taken') : taken'[i].at = "exit" => taken'[i].vector >= 32
        BY ONLY <2>13, <2>15, <2>20
    <2>24. /\ \A i \in 1 .. Len(taken') - 1 :
                IF taken'[i].at = "handler" THEN taken'[i + 1].rsp = taken'[i].regs ELSE taken'[i + 1].vector = 2
           /\ \A i, j \in 1 .. Len(taken') : i < j => taken'[i].rsp <= taken'[j].rsp
        BY ONLY <2>16, <2>17, <2>19, <2>20
    <2> QED
        BY ONLY <2>20, <2>21, <2>22, <2>23, <2>24 DEF StackInv
<1> QED
    BY <1>1, <1>2

\* What the stub pushes is what the frame should hold.
LEMMA StubPushesAre ==
    ASSUME StackInv, taken # <<>>
    PROVE  \A k \in 1 .. 19 :
            /\ StubPushes(k) \in Word
            /\ k <= 17 => StubPushes(k) = cpu[Popped[k]]
            /\ k = 18 => StubPushes(k) = <<"interrupt_number", Top.vector>>
            /\ k = 19 => StubPushes(k) = <<"error_code", 0>>
<1> TAKE k \in 1 .. 19
<1>1. Len(Pushed) = 17
    BY NamesArePopped
<1>2. CASE k <= 17
    <2>1. 18 - k \in 1 .. 17 /\ k \in 1 .. 17
        BY <1>2
    <2>2. Pushed[18 - k] = Popped[k]
        <3>1. Pushed[18 - k] = Popped[18 - (18 - k)]
            BY <2>1, PoppedIsPushed
        <3>2. 18 - (18 - k) = k
            BY <2>1
        <3> QED
            BY <3>1, <3>2
    <2>3. StubPushes(k) = cpu[Popped[k]]
        BY <1>1, <1>2, <2>2 DEF StubPushes
    <2>4. cpu[Popped[k]] \in Word
        BY <2>1, NamesArePopped DEF StackInv
    <2> QED
        BY <1>2, <2>3, <2>4
<1>3. CASE k = 18
    <2>1. Top.vector \in Nat
        <3> DEFINE x == Top.vector
        <3>1. x \in 0 .. 255
            BY TopFrame
        <3> HIDE DEF x
        <3>2. x \in Nat
            BY <3>1
        <3> QED
            BY <3>2 DEF x
    <2>2. StubPushes(k) = <<"interrupt_number", Top.vector>>
        BY <1>1, <1>3 DEF StubPushes
    <2> QED
        BY <1>3, <2>1, <2>2 DEF Word
<1>4. CASE k = 19
    <2>1. StubPushes(k) = <<"error_code", 0>>
        BY <1>1, <1>4 DEF StubPushes
    <2> QED
        BY <1>4, <2>1 DEF Word
<1> QED
    BY <1>2, <1>3, <1>4

LEMMA PushKeepsStack ==
    ASSUME StackInv, Push
    PROVE  StackInv'
<1> DEFINE t == Top
           r == t.regs
           l == Len(stack)
           mm == Missing
           n == IF masked THEN mm ELSE 1
           f == [i \in 1 .. n |-> StubPushes(mm + 1 - i)]
<1>1. taken # <<>> /\ t.at = "entry" /\ mm > 0 /\ taken' = taken
    BY DEF Push, Running
<1>2. /\ Len(taken) \in Nat \ {0} /\ t \in Taken /\ FrameAt(stack, t, l) /\ l \in Nat
      /\ r \in Nat /\ t.rsp \in Nat /\ t.rsp + 5 <= l /\ t.rsp + 24 <= r
      /\ StubWords(t.vector) \in 18 .. 19 /\ r <= l + StubWords(t.vector)
      /\ mm \in 0 .. 19 /\ l = r - mm
    BY <1>1, TopFrame DEF Depth
<1>3. n \in 1 .. mm /\ mm \in 1 .. 19
    <2>1. mm \in 1 .. 19
        <3> HIDE DEF mm
        <3> QED
            BY <1>1, <1>2
    <2> HIDE DEF mm
    <2> QED
        BY <2>1
<1>4. stack' = stack \o f /\ cpu' = IF mm - n < 2 THEN [cpu EXCEPT !["rax"] = StubPushes(mm + 1 - n)] ELSE cpu
    BY DEF Push
<1>5. stack \in Seq(Word) /\ cpu \in [Names -> Word]
    BY DEF StackInv
<1>6. \A k \in 1 .. 19 :
        /\ StubPushes(k) \in Word
        /\ k <= 17 => StubPushes(k) = cpu[Popped[k]]
        /\ k = 18 => StubPushes(k) = <<"interrupt_number", t.vector>>
        /\ k = 19 => StubPushes(k) = <<"error_code", 0>>
    BY <1>1, StubPushesAre
<1>7. \A k \in 1 .. 17 : k <= mm => cpu[Popped[k]] = t.cpu[Popped[k]]
    BY <1>1 DEF StackInv, Missing
<1> HIDE DEF mm, n, t, l, r
<1>8. f \in Seq(Word) /\ Len(f) = n /\ \A i \in 1 .. n : f[i] = StubPushes(mm + 1 - i)
    <2>1. \A i \in 1 .. n : mm + 1 - i \in 1 .. 19
        BY <1>3
    <2>2. n \in Nat
        BY <1>3
    <2>3. f \in [1 .. n -> Word]
        BY <1>6, <2>1
    <2> QED
        BY <2>2, <2>3
<1> HIDE DEF f
<1>9. Joined(stack', stack, f, Word)
    BY <1>4, <1>5, <1>8, Concatenated
<1>10. /\ stack' \in Seq(Word) /\ Len(stack') = l + n
       /\ \A i \in 1 .. l : stack'[i] = stack[i]
       /\ \A k \in 1 .. 19 : k <= mm /\ k > mm - n => stack'[r + 1 - k] = StubPushes(k)
    <2>1. /\ stack' \in Seq(Word) /\ Len(stack') = l + n
          /\ \A i \in 1 .. l : stack'[i] = stack[i]
          /\ \A i \in 1 .. n : stack'[l + i] = f[i]
        BY <1>8, <1>9 DEF Joined, l
    <2>2. ASSUME NEW k \in 1 .. 19, k <= mm, k > mm - n
          PROVE  stack'[r + 1 - k] = StubPushes(k)
        <3>1. mm + 1 - k \in 1 .. n /\ l + (mm + 1 - k) = r + 1 - k /\ mm + 1 - (mm + 1 - k) = k
            BY <1>2, <1>3, <2>2
        <3>2. stack'[l + (mm + 1 - k)] = f[mm + 1 - k] /\ f[mm + 1 - k] = StubPushes(mm + 1 - (mm + 1 - k))
            BY <1>8, <2>1, <3>1
        <3> QED
            BY <3>1, <3>2
    <2> QED
        BY <2>1, <2>2
<1> DEFINE lim == l + n
           p == t.rsp
           q == StubWords(t.vector)
<1>18. /\ lim = l + n /\ p \in Nat /\ q \in 18 .. 19 /\ r \in Nat /\ l \in Nat /\ p + 5 <= l /\ p + 24 <= r
       /\ r <= l + q /\ l = r - mm /\ n \in 1 .. mm /\ mm \in 1 .. 19 /\ lim = Len(stack')
    BY <1>2, <1>3, <1>10
<1> HIDE DEF lim, p, q
<1>11. FrameAt(stack', t, lim)
    <2>1. /\ lim \in Nat /\ lim <= Len(stack') /\ p + 5 <= lim /\ p + 24 <= r /\ lim <= r /\ r <= lim + q
        BY <1>18
    <2>2. ASSUME NEW k \in 1 .. 17, r + 1 - k <= lim
          PROVE  stack'[r + 1 - k] = t.cpu[Popped[k]]
        <3>1. k > mm - n
            BY <1>18, <2>2
        <3>2. CASE k <= mm
            <4>1. k \in 1 .. 19 /\ k <= 17
                OBVIOUS
            <4>2. stack'[r + 1 - k] = StubPushes(k)
                BY <1>10, <3>1, <3>2, <4>1
            <4>3. StubPushes(k) = cpu[Popped[k]]
                BY <1>6, <4>1
            <4>4. cpu[Popped[k]] = t.cpu[Popped[k]]
                BY <1>7, <3>2
            <4> QED
                BY <4>2, <4>3, <4>4
        <3>3. CASE k > mm
            <4>1. r + 1 - k \in 1 .. l /\ r + 1 - k <= l
                BY <1>18, <3>3
            <4>2. stack[r + 1 - k] = t.cpu[Popped[k]]
                BY <1>2, <4>1 DEF FrameAt, r
            <4> QED
                BY <1>10, <4>1, <4>2
        <3> QED
            BY <1>3, <3>2, <3>3
    <2>3. ASSUME r - 17 <= lim
          PROVE  stack'[r - 17][2] = t.vector
        <3>1. CASE 18 <= mm
            <4>1. 18 > mm - n /\ r + 1 - 18 = r - 17
                BY <1>18, <2>3
            <4>3. 18 \in 1 .. 19 /\ 18 <= mm
                BY <3>1
            <4>4. stack'[r + 1 - 18] = StubPushes(18)
                BY <1>10, <4>1, <4>3
            <4>2. stack'[r - 17] = <<"interrupt_number", t.vector>>
                BY <1>6, <4>1, <4>4
            <4> QED
                BY <4>2
        <3>2. CASE 18 > mm
            <4>1. r - 17 \in 1 .. l /\ r - 17 <= l
                BY <1>18, <3>2
            <4>2. stack[r - 17][2] = t.vector
                BY <1>2, <4>1 DEF FrameAt, r
            <4> QED
                BY <1>10, <4>1, <4>2
        <3> QED
            BY <1>3, <3>1, <3>2
    <2>4. ASSUME t.vector \notin {29, 30}
          PROVE  /\ r % 2 = 0
                 /\ r - 18 <= lim => stack'[r - 18][2] = IF t.vector \in PushesErrorCode THEN t.vector ELSE 0
                 /\ stack'[r - 19] = t.cpu["rip"] /\ stack'[r - 20] = t.cpu["cs"]
                 /\ stack'[r - 21] = t.cpu["rflags"] /\ stack'[r - 22][2] = t.rsp
                 /\ stack'[r - 23] = t.cpu["ss"]
        <3>1. /\ r - 19 \in 1 .. l /\ r - 20 \in 1 .. l /\ r - 21 \in 1 .. l /\ r - 22 \in 1 .. l
              /\ r - 23 \in 1 .. l
            BY <1>18
        <3>2. /\ r % 2 = 0
              /\ r - 18 <= l => stack[r - 18][2] = IF t.vector \in PushesErrorCode THEN t.vector ELSE 0
              /\ stack[r - 19] = t.cpu["rip"] /\ stack[r - 20] = t.cpu["cs"]
              /\ stack[r - 21] = t.cpu["rflags"] /\ stack[r - 22][2] = t.rsp
              /\ stack[r - 23] = t.cpu["ss"]
            BY <1>2, <2>4 DEF FrameAt, r
        <3>3. ASSUME r - 18 <= lim
              PROVE  stack'[r - 18][2] = IF t.vector \in PushesErrorCode THEN t.vector ELSE 0
            <4>1. CASE mm = 19
                <5>1. q = 19 /\ 19 > mm - n /\ r + 1 - 19 = r - 18 /\ 19 <= mm
                    BY <1>18, <4>1
                <5>2. t.vector \in 0 .. 255
                    BY <1>2 DEF Taken
                <5>3. t.vector \notin PushesErrorCode
                    BY <2>4, <5>1, <5>2, StubsAre DEF q
                <5>4. stack'[r - 18] = <<"error_code", 0>>
                    <6>1. 19 \in 1 .. 19
                        OBVIOUS
                    <6>2. stack'[r + 1 - 19] = StubPushes(19)
                        BY ONLY <1>10, <4>1, <5>1, <6>1
                    <6>3. StubPushes(19) = <<"error_code", 0>>
                        BY ONLY <1>6, <6>1
                    <6> QED
                        BY ONLY <5>1, <6>2, <6>3
                <5> QED
                    BY <5>3, <5>4
            <4>2. CASE mm # 19
                <5>1. r - 18 \in 1 .. l /\ r - 18 <= l
                    BY <1>18, <4>2
                <5> QED
                    BY <1>10, <3>2, <5>1
            <4> QED
                BY <4>1, <4>2
        <3> QED
            BY <1>10, <3>1, <3>2, <3>3
    <2>5. t.regs = r /\ t.rsp = p /\ StubWords(t.vector) = q
        BY DEF p, q, r
    <2> QED
        BY ONLY <2>1, <2>2, <2>3, <2>4, <2>5 DEF FrameAt
<1>12. /\ cpu' \in [Names -> Word]
       /\ \A k \in 1 .. 17 : k <= r - lim => cpu'[Popped[k]] = t.cpu[Popped[k]]
    <2>1. mm + 1 - n \in 1 .. 19 /\ r - lim = mm - n /\ mm - n < mm
        BY <1>18
    <2>2. StubPushes(mm + 1 - n) \in Word
        BY <1>6, <2>1
    <2>3. cpu' \in [Names -> Word]
        BY <1>4, <1>5, <2>2
    <2>4. ASSUME NEW k \in 1 .. 17, k <= mm - n
          PROVE  cpu'[Popped[k]] = t.cpu[Popped[k]]
        <3>1. cpu[Popped[k]] = t.cpu[Popped[k]]
            BY <1>3, <1>7, <2>4
        <3>2. CASE mm - n < 2
            <4>1. k # 17 /\ Popped[17] = "rax" /\ 17 \in 1 .. 17
                BY <1>3, <2>4, <3>2, NamesArePopped
            <4>2. Popped[k] # "rax" /\ Popped[k] \in Names
                BY <4>1, NamesArePopped
            <4> QED
                BY <1>4, <1>5, <3>1, <3>2, <4>2
        <3>3. CASE ~ (mm - n < 2)
            BY <1>4, <3>1, <3>3
        <3> QED
            BY <3>2, <3>3
    <2> QED
        BY <2>1, <2>3, <2>4
<1>13. \A i \in 1 .. Top.rsp : stack'[i] = stack[i]
    <2>1. \A i \in 1 .. t.rsp : i \in 1 .. l
        BY <1>2
    <2> QED
        BY <1>10, <2>1 DEF t
<1>14. taken' \in Seq(Taken) /\ Len(taken') = Len(taken) /\ taken'[Len(taken)] = t
    BY <1>1 DEF StackInv, t, Top, Depth
<1>15. t.at # "exit" /\ t.at # "handler"
    BY <1>1
<1>16. t.vector = Top.vector /\ t.cpu = Top.cpu /\ t.rsp = Top.rsp /\ t.regs = Top.regs /\ r = t.regs
    BY DEF t, r
<1>17. Len(stack') = lim
    BY <1>18
<1> QED
    BY <1>1, <1>2, <1>10, <1>11, <1>12, <1>13, <1>14, <1>15, <1>16, <1>17, TopSteps

LEMMA CallKeepsStack ==
    ASSUME StackInv, CallHandler
    PROVE  StackInv'
<1>1. taken # <<>> /\ Missing = 0 /\ GoOn("handler") /\ cpu' = InHandler /\ stack' = stack
    BY DEF CallHandler, Running
<1>2. /\ Depth \in Nat /\ Top \in Taken /\ FrameAt(stack, Top, Len(stack)) /\ Len(stack) \in Nat
      /\ Top.rsp + 5 <= Len(stack) /\ Top.regs <= Len(stack) + StubWords(Top.vector) /\ Top.regs \in Nat
      /\ Len(stack) = Top.regs - 0
    <2>1. Len(stack) = Top.regs - Missing
        BY <1>1, TopFrame
    <2> QED
        BY <1>1, <2>1, TopFrame
<1>3. PICK u : u = [Top EXCEPT !.at = "handler"]
    OBVIOUS
<1>4. /\ u \in Taken /\ u.vector = Top.vector /\ u.cpu = Top.cpu /\ u.rsp = Top.rsp
      /\ u.regs = Top.regs /\ u.at = "handler"
      /\ taken' \in Seq(Taken) /\ Len(taken') = Len(taken) /\ taken'[Len(taken)] = u
      /\ \A i \in 1 .. Len(taken) - 1 : taken'[i] = taken[i]
    BY <1>1, <1>3, GoesOn
<1>5. cpu' \in [Names -> Word]
    <2>1. \A r \in Names : InHandler[r] \in Word
        BY <1>2 DEF InHandler, Word, StackInv
    <2> QED
        BY <1>1, <2>1 DEF InHandler
<1>6. FrameAt(stack', u, Len(stack'))
    <2> DEFINE s == stack
               m == Len(stack)
               t == Top
    <2>1. t \in Taken /\ FrameAt(s, t, m) /\ m \in Nat /\ t.rsp + 5 <= m /\ t.regs <= m + StubWords(t.vector)
          /\ m <= m /\ m <= Len(s) /\ \A i \in 1 .. m : s[i] = s[i]
        BY <1>2
    <2>2. u.vector = t.vector /\ u.cpu = t.cpu /\ u.rsp = t.rsp /\ u.regs = t.regs /\ u \in Taken
        BY <1>4
    <2> HIDE DEF s, m, t
    <2>3. FrameAt(s, u, m)
        BY ONLY <2>1, <2>2, FrameStays
    <2> QED
        BY <1>1, <2>3 DEF s, m
<1>7. Len(stack') = u.regs /\ stack' \in Seq(Word) /\ \A i \in 1 .. Top.rsp : stack'[i] = stack[i]
    BY <1>1, <1>2, <1>4 DEF StackInv
<1> QED
    BY <1>1, <1>4, <1>5, <1>6, <1>7, TopSteps

\* The handler that runs finds its vector in Registers.
LEMMA TopIsAtItsHandler ==
    ASSUME StackInv, taken # <<>>, Top.at = "handler"
    PROVE  Missing = 0 /\ Field(Top.regs, "interrupt_number")[2] = Top.vector
<1> DEFINE r == Top.regs
           l == Len(stack)
<1>1. FrameAt(stack, Top, l) /\ r \in Nat /\ l \in Nat /\ l = r
    BY TopFrame DEF StackInv
<1>2. Position(Registers, "interrupt_number") = 18
    <2>1. Registers[18] = "interrupt_number" /\ 18 \in 1 .. 24
        BY DEF Registers
    <2> QED
        BY <2>1, RegisterPositions
<1> HIDE DEF r, l
<1>3. r - 17 <= l /\ r + 1 - 18 = r - 17 /\ r - l = 0
    BY <1>1
<1>4. stack[r - 17][2] = Top.vector
    BY <1>1, <1>3 DEF FrameAt, r
<1>5. Field(r, "interrupt_number") = stack[r - 17]
    BY <1>2, <1>3 DEF Field
<1> QED
    BY <1>3, <1>4, <1>5 DEF Missing, r, l

\* A handler returns from none of the first 32 vectors.
LEMMA PopsSoftware ==
    ASSUME StackInv, Pop
    PROVE  /\ taken # <<>> /\ Top.vector >= 32 /\ GoOn("exit") /\ stack' = Front(stack)
           /\ Missing \in 0 .. 16 /\ UNCHANGED <<gdt, idt, hlt, masked, reset>>
           /\ \A k \in 1 .. 17 : k <= Missing => cpu[Popped[k]] = Top.cpu[Popped[k]]
<1>1. taken # <<>> /\ GoOn("exit") /\ stack' = Front(stack) /\ UNCHANGED <<gdt, idt, hlt, masked, reset>>
    BY DEF Pop, Running
<1> DEFINE mm == Missing
           v == Top.vector
<1>2. v \in 0 .. 255 /\ mm \in 0 .. 19
    BY <1>1, TopFrame
<1>3. CASE Running("handler") /\ ~HandlerHalts
    <2>1. mm = 0 /\ ~ (v < 32)
        BY <1>1, <1>3, TopIsAtItsHandler DEF Running, HandlerHalts
    <2> HIDE DEF mm, v
    <2>2. mm \in 0 .. 16 /\ v >= 32 /\ \A k \in 1 .. 17 : ~ (k <= mm)
        BY <1>2, <2>1
    <2> QED
        BY <1>1, <2>2 DEF mm, v
<1>4. CASE Running("exit") /\ Missing < Len(Popped)
    <2>1. mm < 17 /\ Top.at = "exit" /\ Top.at # "handler"
        BY <1>4, NamesArePopped DEF Running
    <2>2. v >= 32 /\ \A k \in 1 .. 17 : k <= mm => cpu[Popped[k]] = Top.cpu[Popped[k]]
        BY <1>1, <2>1, TopFrame DEF StackInv, Missing
    <2> HIDE DEF mm, v
    <2>3. mm \in 0 .. 16
        BY <1>2, <2>1
    <2> QED
        BY <1>1, <2>2, <2>3 DEF mm, v
<1> QED
    BY <1>3, <1>4 DEF Pop

LEMMA PopKeepsStack ==
    ASSUME StackInv, Pop
    PROVE  StackInv'
<1> DEFINE t == Top
           s == stack
           r == t.regs
           p == t.rsp
           q == StubWords(t.vector)
           l == Len(stack)
           mm == Missing
           m == l - 1
<1>1. /\ taken # <<>> /\ t.vector >= 32 /\ GoOn("exit") /\ stack' = Front(s) /\ mm \in 0 .. 16
      /\ \A k \in 1 .. 17 : k <= mm => cpu[Popped[k]] = t.cpu[Popped[k]]
    BY PopsSoftware
<1>2. /\ t \in Taken /\ FrameAt(s, t, l) /\ l \in Nat /\ r \in Nat /\ p \in Nat /\ q \in 18 .. 19
      /\ p + 24 <= r /\ l = r - mm /\ l <= Len(s)
    BY <1>1, TopFrame
<1>3. s \in Seq(Word) /\ cpu \in [Names -> Word]
    BY DEF StackInv
<1>4. cpu' = [cpu EXCEPT !["rax"] = IF Popped[mm + 1] \in {"es", "ds"} THEN Last(s) ELSE @,
                         ![Popped[mm + 1]] = Last(s)]
    BY DEF Pop
<1>5. PICK u : u = [Top EXCEPT !.at = "exit"]
    OBVIOUS
<1>6. /\ u \in Taken /\ u.vector = t.vector /\ u.cpu = t.cpu /\ u.rsp = t.rsp
      /\ u.regs = t.regs /\ u.at = "exit"
      /\ taken' \in Seq(Taken) /\ Len(taken') = Len(taken) /\ taken'[Len(taken)] = u
      /\ \A i \in 1 .. Len(taken) - 1 : taken'[i] = taken[i]
    BY <1>1, <1>5, GoesOn
<1>7. Last(s) = s[l] /\ Front(s) = SubSeq(s, 1, l - 1)
    BY DEF Last, Front
<1> HIDE DEF t, s, r, p, q, mm, l
<1>8. /\ m \in Nat /\ m <= l /\ m + 1 = l /\ p + 5 <= m /\ r <= m + q /\ r - m = mm + 1 /\ l \in 1 .. l
      /\ l = r + 1 - (mm + 1) /\ mm + 1 \in 1 .. 17
    BY <1>1, <1>2
<1>9. stack' \in Seq(Word) /\ Len(stack') = m /\ \A i \in 1 .. m : stack'[i] = s[i]
    <2>1. l = Len(s)
        BY DEF s, l
    <2> QED
        BY <1>1, <1>3, <1>7, <1>8, <2>1
<1>10. s[l] = t.cpu[Popped[mm + 1]] /\ s[l] \in Word
    <2>1. mm + 1 \in 1 .. 17 /\ r + 1 - (mm + 1) <= l
        BY <1>8
    <2>2. s[r + 1 - (mm + 1)] = t.cpu[Popped[mm + 1]]
        BY <1>2, <2>1 DEF FrameAt, r
    <2>3. l = Len(s)
        BY DEF s, l
    <2> QED
        BY <1>3, <1>8, <2>2, <2>3
<1>11. FrameAt(stack', u, m)
    <2>1. /\ t \in Taken /\ u \in Taken /\ FrameAt(s, t, l) /\ m \in Nat /\ m <= l /\ m <= Len(stack')
          /\ \A i \in 1 .. m : stack'[i] = s[i]
          /\ u.vector = t.vector /\ u.cpu = t.cpu /\ u.rsp = t.rsp /\ u.regs = t.regs
        BY <1>2, <1>6, <1>8, <1>9
    <2>2. t.rsp + 5 <= m /\ t.regs <= m + StubWords(t.vector)
        BY <1>8 DEF r, p, q
    <2> HIDE DEF m
    <2> QED
        BY ONLY <2>1, <2>2, FrameStays
<1>12. cpu' \in [Names -> Word]
    <2>1. Popped[mm + 1] \in Names /\ "rax" \in Names /\ cpu["rax"] \in Word
        BY <1>3, <1>8, NamesArePopped DEF Names, General, Scratch
    <2> DEFINE w == IF Popped[mm + 1] \in {"es", "ds"} THEN Last(s) ELSE cpu["rax"]
    <2>2. w \in Word
        BY <1>7, <1>10, <2>1
    <2>3. cpu' = [cpu EXCEPT !["rax"] = w, ![Popped[mm + 1]] = Last(s)]
        BY <1>4
    <2> HIDE DEF w
    <2> QED
        BY <1>3, <1>7, <1>10, <2>2, <2>3
<1>13. \A k \in 1 .. 17 : k <= mm + 1 => cpu'[Popped[k]] = t.cpu[Popped[k]]
    <2> TAKE k \in 1 .. 17
    <2> HAVE k <= mm + 1
    <2>1. Popped[k] \in Names /\ Popped[mm + 1] \in Names
        BY <1>8, NamesArePopped
    <2>2. CASE k = mm + 1
        BY <1>3, <1>4, <1>7, <1>10, <2>1, <2>2
    <2>3. CASE k # mm + 1
        <3>5. k <= mm
            BY <1>1, <2>3
        <3>1. k <= mm /\ Popped[k] # Popped[mm + 1]
            BY <1>8, <2>3, <3>5, NamesArePopped
        <3>2. cpu[Popped[k]] = t.cpu[Popped[k]]
            BY <1>1, <3>1
        <3>3. CASE Popped[mm + 1] \in {"es", "ds"}
            <4>1. mm + 1 <= 2
                BY <1>8, <3>3, NamesArePopped
            <4>2. k # 17
                BY <1>1, <3>1, <4>1
            <4>3. Popped[k] # "rax"
                BY <4>2, NamesArePopped
            <4> QED
                BY <1>3, <1>4, <2>1, <3>1, <3>2, <4>3
        <3>4. CASE Popped[mm + 1] \notin {"es", "ds"}
            BY <1>3, <1>4, <2>1, <3>1, <3>2, <3>4
        <3> QED
            BY <3>3, <3>4
    <2> QED
        BY <2>2, <2>3
<1>14. \A i \in 1 .. Top.rsp : stack'[i] = stack[i]
    <2>1. \A i \in 1 .. p : i \in 1 .. m
        BY <1>2, <1>8
    <2> QED
        BY <1>9, <2>1 DEF p, t, s
<1>15. u.regs - Len(stack') = mm + 1
    BY <1>6, <1>8, <1>9 DEF r
<1>16. u.at # "handler" /\ u.vector >= 32
    BY <1>1, <1>6
<1>17. FrameAt(stack', u, Len(stack'))
    BY <1>9, <1>11
<1>18. \A k \in 1 .. 17 : k <= u.regs - Len(stack') => cpu'[Popped[k]] = u.cpu[Popped[k]]
    BY <1>6, <1>13, <1>15
<1>19. u.vector = Top.vector /\ u.cpu = Top.cpu /\ u.rsp = Top.rsp /\ u.regs = Top.regs
    BY <1>6 DEF t
<1> QED
    BY <1>1, <1>6, <1>9, <1>12, <1>14, <1>16, <1>17, <1>18, <1>19, TopSteps

LEMMA DropKeepsStack ==
    ASSUME StackInv, Drop
    PROVE  StackInv'
<1> DEFINE t == Top
           s == stack
           r == t.regs
           p == t.rsp
           q == StubWords(t.vector)
           l == Len(stack)
           m == l - 2
<1>1. /\ taken # <<>> /\ t.at = "exit" /\ Missing = 17 /\ taken' = taken /\ cpu' = cpu
      /\ stack' = SubSeq(s, 1, l - 2)
    BY NamesArePopped DEF Drop, Running
<1>2. /\ t \in Taken /\ FrameAt(s, t, l) /\ l \in Nat /\ r \in Nat /\ p \in Nat /\ q \in 18 .. 19
      /\ p + 24 <= r /\ l = r - 17 /\ t.vector >= 32 /\ t.vector \in 0 .. 255
    <2>1. Len(stack) = Top.regs - Missing
        BY <1>1, TopFrame
    <2> QED
        BY <1>1, <2>1, TopFrame
<1>3. q = 19
    <2>1. t.vector \notin ISR_ERRORCODE /\ (q = 18 <=> t.vector \in ISR_ERRORCODE)
        BY <1>2, StubsAre
    <2> HIDE DEF q
    <2> QED
        BY <1>2, <2>1
<1>4. s \in Seq(Word) /\ cpu \in [Names -> Word] /\ taken \in Seq(Taken) /\ Len(taken) \in Nat \ {0}
    BY <1>1, TopFrame DEF StackInv, Depth
<1>5. \A k \in 1 .. 17 : k <= Missing => cpu[Popped[k]] = t.cpu[Popped[k]]
    BY <1>1 DEF StackInv, Missing
<1>6. t = taken[Len(taken)]
    BY DEF Top, Depth
<1> HIDE DEF t, s, r, p, q, l
<1>7. /\ m \in Nat /\ m <= l /\ m + 2 = l /\ p + 5 <= m /\ r <= m + q
    BY <1>2, <1>3
<1>8. stack' \in Seq(Word) /\ Len(stack') = m /\ \A i \in 1 .. m : stack'[i] = s[i]
    <2>1. l = Len(s)
        BY DEF s, l
    <2> QED
        BY <1>1, <1>4, <1>7, <2>1
<1>9. FrameAt(stack', t, Len(stack'))
    <2>1. /\ t \in Taken /\ FrameAt(s, t, l) /\ m \in Nat /\ m <= l /\ m <= Len(stack') /\ Len(stack') = m
          /\ \A i \in 1 .. m : stack'[i] = s[i]
          /\ t.rsp + 5 <= m /\ t.regs <= m + StubWords(t.vector)
        BY <1>2, <1>7, <1>8 DEF r, p, q
    <2> HIDE DEF m
    <2>2. t.vector = t.vector /\ t.cpu = t.cpu /\ t.rsp = t.rsp /\ t.regs = t.regs
        OBVIOUS
    <2>3. FrameAt(stack', t, m)
        BY ONLY <2>1, <2>2, FrameStays
    <2> QED
        BY <2>1, <2>3
<1>10. \A i \in 1 .. Top.rsp : stack'[i] = stack[i]
    <2>1. \A i \in 1 .. p : i \in 1 .. m
        BY <1>2, <1>7
    <2> QED
        BY <1>8, <2>1 DEF p, t, s
<1>11. t.vector = Top.vector /\ t.cpu = Top.cpu /\ t.rsp = Top.rsp /\ t.regs = Top.regs /\ t.at # "handler"
    BY <1>1 DEF t
<1>12. \A k \in 1 .. 17 : k <= t.regs - Len(stack') => cpu'[Popped[k]] = t.cpu[Popped[k]]
    <2> TAKE k \in 1 .. 17
    <2>1. k <= 17
        OBVIOUS
    <2>2. k <= Missing
        BY <1>1, <2>1
    <2> QED
        BY <1>1, <1>5, <2>2
<1>13. cpu' \in [Names -> Word] /\ taken' \in Seq(Taken) /\ Len(taken') = Len(taken) /\ taken'[Len(taken)] = t
       /\ \A i \in 1 .. Len(taken) - 1 : taken'[i] = taken[i]
    BY <1>1, <1>4, <1>6
<1> QED
    BY <1>1, <1>2, <1>8, <1>9, <1>10, <1>11, <1>12, <1>13, TopSteps

\* iretq ends only the handler of a software interrupt, and leaves the processor and the
\* stack as they were.
LEMMA ReturnRestores ==
    ASSUME StackInv, Iretq
    PROVE  /\ taken # <<>> /\ taken' = Front(taken) /\ Top.vector >= 32
           /\ cpu' = Top.cpu /\ stack' = SubSeq(stack, 1, Top.rsp) /\ Len(stack') = Top.rsp
           /\ hlt' = Top.hlt /\ masked' = FALSE /\ UNCHANGED <<gdt, idt, reset>>
<1> DEFINE t == Top
           s == stack
           r == t.regs
           p == t.rsp
           l == Len(stack)
<1>1. /\ taken # <<>> /\ t.at = "exit" /\ t.at # "handler" /\ Missing = 19 /\ taken' = Front(taken)
      /\ hlt' = Top.hlt /\ masked' = FALSE /\ UNCHANGED <<gdt, idt, reset>>
      /\ cpu' = [cpu EXCEPT !["rip"] = s[l - 0], !["cs"] = s[l - 1], !["rflags"] = s[l - 2],
                            !["ss"] = s[l - 4]]
      /\ stack' = SubSeq(s, 1, s[l - 3][2])
    BY NamesArePopped DEF Iretq, Running
<1>2. /\ t \in Taken /\ FrameAt(s, t, l) /\ l \in Nat /\ r \in Nat /\ p \in Nat
      /\ p + 24 <= r /\ l = r - 19 /\ t.vector >= 32 /\ t.vector \in 0 .. 255 /\ p + 5 <= l
    <2>1. Len(stack) = Top.regs - Missing
        BY <1>1, TopFrame
    <2> QED
        BY <1>1, <2>1, TopFrame
<1>3. s \in Seq(Word) /\ cpu \in [Names -> Word]
    BY DEF StackInv
<1>4. \A k \in 1 .. 17 : k <= Missing => cpu[Popped[k]] = t.cpu[Popped[k]]
    BY <1>1 DEF StackInv, Missing
<1>5. \A k \in 1 .. 17 : cpu[Popped[k]] = t.cpu[Popped[k]]
    <2> TAKE k \in 1 .. 17
    <2>1. k <= 19
        OBVIOUS
    <2>2. k <= Missing
        BY <1>1, <2>1
    <2> QED
        BY <1>4, <2>2
<1>6. l = Len(s) /\ Top = t
    OBVIOUS
<1> HIDE DEF t, s, r, p, l
<1>7. /\ s[r - 19] = t.cpu["rip"] /\ s[r - 20] = t.cpu["cs"]
      /\ s[r - 21] = t.cpu["rflags"] /\ s[r - 22][2] = p /\ s[r - 23] = t.cpu["ss"]
    <2>1. t.vector \notin {29, 30}
        BY <1>2
    <2> QED
        BY <1>2, <2>1 DEF FrameAt, r, p
<1>8. l - 0 = r - 19 /\ l - 1 = r - 20 /\ l - 2 = r - 21 /\ l - 3 = r - 22 /\ l - 4 = r - 23
    BY <1>2
<1>9. cpu' = [cpu EXCEPT !["rip"] = t.cpu["rip"], !["cs"] = t.cpu["cs"], !["rflags"] = t.cpu["rflags"],
                         !["ss"] = t.cpu["ss"]]
      /\ stack' = SubSeq(s, 1, p)
    BY <1>1, <1>7, <1>8
<1>10. Len(stack') = p
    BY <1>2, <1>3, <1>6, <1>9
<1>11. cpu' = t.cpu
    <2>1. t.cpu \in [Names -> Word]
        BY <1>2 DEF Taken
    <2>2. \A n \in General : n \in Names /\ n \notin {"rip", "cs", "rflags", "ss"} /\ cpu[n] = t.cpu[n]
        <3> TAKE n \in General
        <3>1. PICK k \in 1 .. 17 : Popped[k] = n
            BY NamesArePopped
        <3>2. n \in Names /\ n \notin {"rip", "cs", "rflags", "ss"}
            BY <3>1, NamesArePopped DEF Names
        <3> QED
            BY <1>5, <3>1, <3>2
    <2>3. \A n \in Names : cpu'[n] = t.cpu[n]
        <3> TAKE n \in Names
        <3>1. CASE n \in {"rip", "cs", "rflags", "ss"}
            BY <1>3, <1>9, <3>1
        <3>2. CASE n \notin {"rip", "cs", "rflags", "ss"}
            <4>1. n \in General
                BY <3>2 DEF Names
            <4> QED
                BY <1>3, <1>9, <2>2, <3>2, <4>1
        <3> QED
            BY <3>1, <3>2
    <2>4. cpu' = [n \in Names |-> cpu'[n]] /\ t.cpu = [n \in Names |-> t.cpu[n]]
        BY <1>3, <1>9, <2>1
    <2> QED
        BY <2>3, <2>4
<1> QED
    BY <1>1, <1>2, <1>6, <1>9, <1>10, <1>11 DEF t, s, p

LEMMA Beginning ==
    ASSUME NEW S, NEW s \in Seq(S), NEW k \in 0 .. Len(s)
    PROVE  /\ SubSeq(s, 1, k) \in Seq(S) /\ Len(SubSeq(s, 1, k)) = k
           /\ \A i \in 1 .. k : SubSeq(s, 1, k)[i] = s[i]
OBVIOUS

LEMMA ReturnKeepsStack == StackInv /\ Iretq => StackInv'
<1> SUFFICES ASSUME StackInv, Iretq
             PROVE  StackInv'
    OBVIOUS
<1> DEFINE n == Len(taken)
           k == n - 1
           p == Top.rsp
<1>1. /\ taken # <<>> /\ taken' = Front(taken) /\ Top.vector >= 32
      /\ cpu' = Top.cpu /\ stack' = SubSeq(stack, 1, p) /\ Len(stack') = p
    BY ReturnRestores
<1>2. /\ n \in Nat \ {0} /\ Top \in Taken /\ Top = taken[n] /\ p \in Nat /\ p + 5 <= Len(stack) /\ Len(stack) \in Nat
    BY <1>1, TopFrame DEF Depth, Top
<1>3. /\ \A i \in 1 .. n :
            /\ taken[i] \in Taken /\ Lim(i) \in Nat /\ Lim(i) <= Len(stack)
            /\ taken[i].rsp \in Nat /\ taken[i].regs \in Nat /\ taken[i].rsp + 5 <= Lim(i)
            /\ Lim(i) <= taken[i].regs /\ taken[i].regs <= Lim(i) + StubWords(taken[i].vector)
      /\ \A i \in 1 .. n - 1 : Lim(i) = taken[i + 1].rsp /\ Lim(i) <= p
    BY <1>2, Limits
<1>4. stack \in Seq(Word) /\ taken \in Seq(Taken)
    BY DEF StackInv
<1>5. stack' \in Seq(Word) /\ \A i \in 1 .. p : stack'[i] = stack[i]
    <2>1. p \in 0 .. Len(stack)
        <3> HIDE DEF p
        <3> QED
            BY <1>2
    <2> QED
        BY <1>1, <1>4, <2>1, Beginning
<1>6. cpu' \in [Names -> Word]
    BY <1>1, <1>2 DEF Taken
<1>7. k \in Nat /\ k < n /\ k \in 0 .. n /\ \A i \in 1 .. k : i \in 1 .. n
    <2> HIDE DEF n
    <2> QED
        BY <1>2
<1>8. taken' \in Seq(Taken) /\ Len(taken') = k /\ \A i \in 1 .. k : taken'[i] = taken[i]
    BY <1>1, <1>4, <1>7, Beginning DEF Front
<1>9. \A i \in 1 .. k : FrameAt(stack', taken[i], Lim(i))
    <2> TAKE i \in 1 .. k
    <2> DEFINE m == Lim(i)
               f == taken[i]
               s == stack
    <2>1. f \in Taken /\ FrameAt(s, f, m) /\ m \in Nat /\ f.rsp + 5 <= m /\ f.regs <= m + StubWords(f.vector)
        BY <1>3, <1>7 DEF StackInv
    <2>2. m <= p
        BY <1>3
    <2>3. Len(stack') = p /\ \A j \in 1 .. p : stack'[j] = s[j]
        BY <1>1, <1>5
    <2> HIDE DEF m, f, s, p
    <2>4. m <= m /\ m <= Len(stack') /\ \A j \in 1 .. m : stack'[j] = s[j]
        BY <1>2, <2>1, <2>2, <2>3
    <2>5. FrameAt(stack', f, m)
        BY ONLY <2>1, <2>4, FrameStays
    <2> QED
        BY <2>5 DEF m, f
<1>10. \A i \in 1 .. k : Lim(i)' = Lim(i)
    <2> TAKE i \in 1 .. k
    <2>1. Lim(i) = taken[i + 1].rsp
        BY <1>3
    <2>2. CASE i = k
        <3>1. Lim(i)' = p
            BY <1>1, <1>8, <2>2 DEF Lim
        <3>2. i + 1 = n
            <4> HIDE DEF n
            <4> QED
                BY <1>2, <2>2
        <3> QED
            BY <1>2, <2>1, <3>1, <3>2
    <2>3. CASE i # k
        <3>1. Lim(i)' = taken'[i + 1].rsp
            BY <1>8, <2>3 DEF Lim
        <3>2. i + 1 \in 1 .. k
            <4> HIDE DEF k
            <4> QED
                BY <1>7, <2>3
        <3> QED
            BY <1>8, <2>1, <3>1, <3>2
    <2> QED
        BY <2>2, <2>3
<1>11. \A i \in 1 .. k : FrameAt(stack', taken'[i], Lim(i)')
    BY <1>8, <1>9, <1>10
<1>12. \A i \in 1 .. k : taken'[i].at = "exit" => taken'[i].vector >= 32
    BY <1>7, <1>8 DEF StackInv
<1>13. \A i \in 1 .. k - 1 :
        IF taken'[i].at = "handler" THEN taken'[i + 1].rsp = taken'[i].regs ELSE taken'[i + 1].vector = 2
    <2> TAKE i \in 1 .. k - 1
    <2>1. i \in 1 .. k /\ i + 1 \in 1 .. k /\ i \in 1 .. n - 1
        <3> HIDE DEF n
        <3> QED
            BY <1>2
    <2>2. IF taken[i].at = "handler" THEN taken[i + 1].rsp = taken[i].regs ELSE taken[i + 1].vector = 2
        BY <2>1 DEF StackInv
    <2>3. taken'[i] = taken[i] /\ taken'[i + 1] = taken[i + 1]
        BY <1>8, <2>1
    <2> QED
        BY <2>2, <2>3
<1>14. \A i, j \in 1 .. k : i < j => taken'[i].rsp <= taken'[j].rsp
    BY <1>7, <1>8 DEF StackInv
<1>15. ASSUME k # 0
       PROVE  Top' = taken[k] /\ taken[k].at = "handler" /\ p = taken[k].regs
    <2>1. k \in 1 .. k /\ k \in 1 .. n - 1 /\ k + 1 = n
        <3> HIDE DEF n
        <3> QED
            BY <1>2, <1>15
    <2>2. Top' = taken[k]
        BY <1>8, <2>1 DEF Top, Depth
    <2>3. taken[k].at = "handler"
        <3>1. CASE taken[k].at # "handler"
            <4>1. taken[k + 1].vector = 2
                BY <2>1, <3>1 DEF StackInv
            <4>2. Top.vector = 2
                BY <1>2, <2>1, <4>1
            <4> QED
                BY <1>1, <4>2
        <3> QED
            BY <3>1
    <2>4. taken[k + 1].rsp = taken[k].regs
        BY <2>1, <2>3 DEF StackInv
    <2> QED
        BY <1>2, <2>1, <2>2, <2>3, <2>4
<1>16. taken' # <<>> => Top'.at = "handler" /\ Len(stack') = Top'.regs
    <2>1. taken' # <<>> => k # 0
        BY <1>8
    <2> QED
        BY <1>1, <1>15, <2>1
<1> HIDE DEF k
<1> QED
    BY <1>5, <1>6, <1>8, <1>11, <1>12, <1>13, <1>14, <1>16 DEF StackInv

\* Each handler sees all of its frame.
LEMMA FramesTellTruth == StackInv => FrameTellsTruth
<1> SUFFICES ASSUME StackInv, NEW i \in 1 .. Len(taken), taken[i].at = "handler",
                    taken[i].vector \notin {29, 30}
             PROVE  LET t == taken[i]
                    IN  /\ t.regs % 2 = 0
                        /\ Field(t.regs, "interrupt_number")[2] = t.vector
                        /\ Field(t.regs, "error_code")[2] = IF t.vector \in PushesErrorCode THEN t.vector ELSE 0
                        /\ Field(t.regs, "original_rsp")[2] = t.rsp
                        /\ \A r \in Names : Field(t.regs, r) = t.cpu[r]
    <2>1. DOMAIN taken = 1 .. Len(taken)
        BY DEF StackInv
    <2> QED
        BY <2>1 DEF FrameTellsTruth
<1> DEFINE t == taken[i]
           regs == t.regs
           lim == Lim(i)
<1>1. FrameAt(stack, t, lim) /\ regs \in Nat /\ lim \in Nat
    BY Limits DEF StackInv
<1>2. lim = regs
    <2>1. Len(taken) \in Nat
        BY Limits
    <2>2. CASE i = Len(taken)
        BY <2>1, <2>2 DEF StackInv, Top, Depth, Lim
    <2>3. CASE i # Len(taken)
        <3>1. i \in 1 .. Len(taken) - 1
            BY <2>1, <2>3
        <3>2. lim = taken[i + 1].rsp
            BY <3>1, Limits
        <3>3. taken[i + 1].rsp = taken[i].regs
            BY <3>1 DEF StackInv
        <3> QED
            BY <3>2, <3>3
    <2> QED
        BY <2>2, <2>3
<1> HIDE DEF lim, regs
<1>3. /\ \A k \in 1 .. 17 : regs + 1 - k <= lim
      /\ regs - 17 <= lim /\ regs - 18 <= lim
    BY <1>1, <1>2
<1>4. /\ Registers[18] = "interrupt_number" /\ Registers[19] = "error_code" /\ Registers[20] = "rip"
      /\ Registers[21] = "cs" /\ Registers[22] = "rflags" /\ Registers[23] = "original_rsp"
      /\ Registers[24] = "ss"
    BY DEF Registers
<1>5. /\ Position(Registers, "interrupt_number") = 18 /\ Position(Registers, "error_code") = 19
      /\ Position(Registers, "rip") = 20 /\ Position(Registers, "cs") = 21
      /\ Position(Registers, "rflags") = 22 /\ Position(Registers, "original_rsp") = 23
      /\ Position(Registers, "ss") = 24
    BY <1>4, RegisterPositions, SMTT(30)
<1>6. /\ Field(regs, "interrupt_number") = stack[regs - 17] /\ Field(regs, "error_code") = stack[regs - 18]
      /\ Field(regs, "rip") = stack[regs - 19] /\ Field(regs, "cs") = stack[regs - 20]
      /\ Field(regs, "rflags") = stack[regs - 21] /\ Field(regs, "original_rsp") = stack[regs - 22]
      /\ Field(regs, "ss") = stack[regs - 23]
    <2>1. /\ regs + 1 - 18 = regs - 17 /\ regs + 1 - 19 = regs - 18 /\ regs + 1 - 20 = regs - 19
          /\ regs + 1 - 21 = regs - 20 /\ regs + 1 - 22 = regs - 21 /\ regs + 1 - 23 = regs - 22
          /\ regs + 1 - 24 = regs - 23
        BY <1>1
    <2> QED
        BY <1>5, <2>1 DEF Field
<1>7. /\ regs % 2 = 0
      /\ Field(regs, "interrupt_number")[2] = t.vector
      /\ Field(regs, "error_code")[2] = IF t.vector \in PushesErrorCode THEN t.vector ELSE 0
      /\ Field(regs, "original_rsp")[2] = t.rsp
      /\ \A r \in {"rip", "cs", "rflags", "ss"} : Field(regs, r) = t.cpu[r]
    <2>1. /\ regs % 2 = 0
          /\ stack[regs - 17][2] = t.vector
          /\ stack[regs - 18][2] = IF t.vector \in PushesErrorCode THEN t.vector ELSE 0
          /\ stack[regs - 22][2] = t.rsp
        BY <1>1, <1>3, SMTT(30) DEF FrameAt, regs
    <2>2. /\ stack[regs - 19] = t.cpu["rip"] /\ stack[regs - 20] = t.cpu["cs"]
          /\ stack[regs - 21] = t.cpu["rflags"] /\ stack[regs - 23] = t.cpu["ss"]
        BY <1>1, <1>3, SMTT(30) DEF FrameAt, regs
    <2> HIDE DEF t
    <2> QED
        BY ONLY <2>1, <2>2, <1>6
<1>8. \A r \in General : Field(regs, r) = t.cpu[r]
    <2> TAKE r \in General
    <2>1. PICK k \in 1 .. 17 : Popped[k] = r
        BY NamesArePopped
    <2>5. k \in 1 .. 24
        OBVIOUS
    <2>6. Registers[k] = Popped[k]
        BY RegisterPositions
    <2>2. k \in 1 .. 24 /\ Registers[k] = r
        BY <2>1, <2>5, <2>6
    <2>3. Position(Registers, r) = k
        BY <2>2, RegisterPositions
    <2>4. stack[regs + 1 - k] = t.cpu[Popped[k]]
        BY <1>1, <1>3 DEF FrameAt, regs
    <2> QED
        BY <2>1, <2>3, <2>4 DEF Field
<1>9. \A r \in Names : Field(regs, r) = t.cpu[r]
    BY <1>7, <1>8 DEF Names
<1> QED
    BY <1>7, <1>9 DEF t, regs

-----------------------------------------------------------------------------
(* The processor. *)

CpuInv ==
    /\ StackInv
    /\ hlt \in BOOLEAN /\ masked \in BOOLEAN /\ reset \in BOOLEAN
    /\ Depth <= MaxDepth

\* What is true of every step of the processor: it resets only without its tables, and
\* nothing but iretq ends an interrupt.
Steady == (idt /\ gdt => reset' = reset) /\ (Len(taken') < Len(taken) => Iretq)

LEMMA CpuStays ==
    ASSUME CpuInv, UNCHANGED <<cpu, stack, taken, reset>>, hlt' \in BOOLEAN, masked' \in BOOLEAN
    PROVE  CpuInv' /\ Steady
<1>1. Len(taken) \in Nat
    BY DEF CpuInv, StackInv
<1>2. ~ (Len(taken') < Len(taken))
    BY <1>1
<1> QED
    BY <1>2 DEF CpuInv, Steady, StackInv, Top, Depth, Lim

LEMMA TakeKeeps ==
    ASSUME CpuInv, NEW v \in 0 .. 255, Take(v), v = 2 \/ (taken # <<>> => Top.at = "handler")
    PROVE  CpuInv' /\ Steady /\ UNCHANGED <<gdt, idt>>
<1>1. StackInv'
    BY TakeKeepsStack DEF CpuInv
<1>2. Len(taken) \in Nat /\ taken \in Seq(Taken) /\ MaxDepth \in Nat
    BY VectorsAssumption DEF CpuInv, StackInv
<1>3. Depth' <= MaxDepth
    BY <1>2 DEF Take, Depth, CpuInv
<1>4. ~ (Len(taken') < Len(taken))
    BY <1>2 DEF Take
<1>5. hlt' \in BOOLEAN /\ masked' \in BOOLEAN /\ reset' \in BOOLEAN /\ UNCHANGED <<gdt, idt>>
    BY DEF Take, CpuInv
<1>6. idt /\ gdt => reset' = reset
    BY DEF Take
<1> QED
    BY <1>1, <1>3, <1>4, <1>5, <1>6 DEF CpuInv, Steady

LEMMA PageFaultKeeps ==
    ASSUME CpuInv, taken = <<>>, PageFault
    PROVE  CpuInv' /\ Steady /\ UNCHANGED <<gdt, idt>>
BY TakeKeeps DEF PageFault

LEMMA InterruptKeeps ==
    CpuInv /\ (Exception \/ SoftwareInterrupt) => CpuInv' /\ Steady /\ UNCHANGED <<gdt, idt>>
<1> SUFFICES ASSUME CpuInv, Exception \/ SoftwareInterrupt
             PROVE  CpuInv' /\ Steady /\ UNCHANGED <<gdt, idt>>
    OBVIOUS
<1>1. PICK v \in Exceptions \cup Software : Take(v) /\ (v = 2 \/ Executing)
    BY DEF Exception, SoftwareInterrupt
<1>2. v \in 0 .. 255
    BY VectorsAssumption
<1>3. v = 2 \/ (taken # <<>> => Top.at = "handler")
    BY <1>1 DEF Executing
<1> QED
    BY <1>1, <1>2, <1>3, TakeKeeps

LEMMA StubStepKeeps == CpuInv /\ StubStep => CpuInv' /\ Steady /\ UNCHANGED <<gdt, idt>>
<1> SUFFICES ASSUME CpuInv, StubStep
             PROVE  CpuInv' /\ Steady /\ UNCHANGED <<gdt, idt>>
    OBVIOUS
<1>1. StackInv /\ Len(taken) \in Nat /\ taken \in Seq(Taken) /\ MaxDepth \in Nat /\ Depth <= MaxDepth
    BY VectorsAssumption DEF CpuInv, StackInv
<1>2. ASSUME StackInv', Len(taken') = Len(taken), UNCHANGED <<gdt, idt, hlt, masked, reset>>
      PROVE  CpuInv' /\ Steady /\ UNCHANGED <<gdt, idt>>
    BY <1>1, <1>2 DEF CpuInv, Steady, Depth
<1>3. CASE Push
    <2>1. StackInv'
        BY <1>1, <1>3, PushKeepsStack
    <2> QED
        BY <1>2, <1>3, <2>1 DEF Push
<1>4. CASE CallHandler
    <2>1. StackInv' /\ taken # <<>> /\ GoOn("handler")
        BY <1>1, <1>4, CallKeepsStack DEF CallHandler, Running
    <2>2. Len(taken') = Len(taken)
        BY <1>1, <2>1, GoesOn
    <2> QED
        BY <1>2, <1>4, <2>1, <2>2 DEF CallHandler
<1>5. CASE Pop
    <2>1. StackInv' /\ taken # <<>> /\ GoOn("exit") /\ UNCHANGED <<gdt, idt, hlt, masked, reset>>
        BY <1>1, <1>5, PopKeepsStack, PopsSoftware
    <2>2. Len(taken') = Len(taken)
        BY <1>1, <2>1, GoesOn
    <2> QED
        BY <1>2, <2>1, <2>2
<1>6. CASE Drop
    <2>1. StackInv'
        BY <1>1, <1>6, DropKeepsStack
    <2> QED
        BY <1>2, <1>6, <2>1 DEF Drop
<1>7. CASE Iretq
    <2>1. StackInv' /\ taken' = Front(taken) /\ taken # <<>> /\ hlt' = Top.hlt /\ masked' = FALSE
          /\ UNCHANGED <<gdt, idt, reset>>
        BY <1>1, <1>7, ReturnKeepsStack, ReturnRestores
    <2>2. Depth' <= MaxDepth
        <3>1. Len(taken) - 1 \in 0 .. Len(taken)
            BY <1>1, <2>1
        <3>2. Len(taken') = Len(taken) - 1
            BY <1>1, <2>1, <3>1, Beginning DEF Front
        <3> QED
            BY <1>1, <3>2 DEF Depth
    <2>3. hlt' \in BOOLEAN
        BY <1>1, <2>1, TopFrame DEF Taken
    <2> QED
        BY <1>7, <2>1, <2>2, <2>3 DEF CpuInv, Steady
<1> QED
    BY <1>3, <1>4, <1>5, <1>6, <1>7 DEF StubStep

LEMMA HaltKeeps == CpuInv /\ Halt => CpuInv' /\ Steady /\ UNCHANGED <<gdt, idt>>
<1> SUFFICES ASSUME CpuInv, Halt
             PROVE  CpuInv' /\ Steady /\ UNCHANGED <<gdt, idt>>
    OBVIOUS
<1>1. UNCHANGED <<gdt, idt, cpu, stack, masked, taken, reset>> /\ hlt' \in BOOLEAN
    BY DEF Halt
<1>2. masked' \in BOOLEAN
    BY <1>1 DEF CpuInv
<1> QED
    BY <1>1, <1>2, CpuStays

\* A call of uACPI's leaves the processor alone, or is a page fault, or a halt.
LEMMA GlueCallShape == GlueCall => UNCHANGED <<gdt, idt, cpuVars>> \/ PageFault \/ Halt
<1>1. ASSUME NEW object, Make(object)
      PROVE  UNCHANGED <<gdt, idt, cpuVars>> \/ PageFault
    BY <1>1 DEF Make
<1>2. uacpi_kernel_io_map => UNCHANGED <<gdt, idt, cpuVars>> \/ PageFault
    BY <1>1 DEF uacpi_kernel_io_map
<1>3. uacpi_kernel_create_mutex => UNCHANGED <<gdt, idt, cpuVars>> \/ PageFault
    BY DEF uacpi_kernel_create_mutex, Make
<1>4. uacpi_kernel_alloc => UNCHANGED <<gdt, idt, cpuVars>> \/ PageFault
    BY DEF uacpi_kernel_alloc, Make
<1>5. uacpi_kernel_io_unmap => UNCHANGED <<gdt, idt, cpuVars>>
    BY DEF uacpi_kernel_io_unmap, GiveBack
<1>6. uacpi_kernel_free => UNCHANGED <<gdt, idt, cpuVars>> \/ Halt
    BY DEF uacpi_kernel_free, GiveBack
<1>7. uacpi_kernel_free_mutex \/ uacpi_kernel_io_access => UNCHANGED <<gdt, idt, cpuVars>>
    BY DEF uacpi_kernel_free_mutex, uacpi_kernel_io_access
<1>8. uacpi_kernel_acquire_mutex \/ uacpi_kernel_release_mutex => UNCHANGED <<gdt, idt, cpuVars>>
    BY DEF uacpi_kernel_acquire_mutex, uacpi_kernel_release_mutex, SetHeld
<1> QED
    BY <1>2, <1>3, <1>4, <1>5, <1>6, <1>7, <1>8 DEF GlueCall

LEMMA GlueCallKeepsCpu ==
    CpuInv /\ taken = <<>> /\ GlueCall => CpuInv' /\ Steady /\ UNCHANGED <<gdt, idt>>
<1> SUFFICES ASSUME CpuInv, taken = <<>>, GlueCall
             PROVE  CpuInv' /\ Steady /\ UNCHANGED <<gdt, idt>>
    OBVIOUS
<1>1. CASE UNCHANGED <<gdt, idt, cpuVars>>
    BY <1>1, CpuStays DEF cpuVars, CpuInv
<1>2. CASE PageFault
    BY <1>2, PageFaultKeeps
<1>3. CASE Halt
    BY <1>3, HaltKeeps
<1> QED
    BY <1>1, <1>2, <1>3, GlueCallShape

-----------------------------------------------------------------------------
(* The order of the boot. *)

OrderInv ==
    /\ firmware \in Firmwares
    /\ gdt \in BOOLEAN /\ idt \in BOOLEAN /\ gsbase \in BOOLEAN
    /\ error \in {"MemoryMisaligned", "OutOfMemory"}
    /\ range \in [start : 0 .. TwoTo[Bits] - 1, length : 0 .. TwoTo[Bits] - 1]
    /\ pc \notin Early => gdt /\ idt /\ gsbase
    /\ pc = "init_idt" => gdt /\ gsbase
    /\ pc = "init_gdt" => gsbase
    /\ reset => pc \in Early
    /\ pc \notin Early \cup {"init_pma", "hcf"} => firmware.memmap /\ firmware.hhdm
    /\ pc \notin Early \cup {"init_pma", "init_vma", "hcf"} => firmware.kernel_address
    /\ pc \in HeapUsers \cup {"init_heap", "init_early_acpi"} => range = VirtualRange
    /\ pc \in HeapUsers \cup {"init_early_acpi"} => heap_base = range.start /\ HeapSize <= range.length
    /\ pc \in HeapUsers => firmware.rsdp

\* Addresses are cut to their width.
LEMMA Width == TwoTo[Bits] \in Nat \ {0}
BY TwoToAt, WidthAssumption

LEMMA RangeIsTyped ==
    ASSUME firmware \in Firmwares
    PROVE  VirtualRange \in [start : 0 .. TwoTo[Bits] - 1, length : 0 .. TwoTo[Bits] - 1]
<1> DEFINE W == TwoTo[Bits]
           a == (Slide + firmware.highest) % W
           start == Align(a)
           length == (Align(KernelBase) - start) % W
<1>1. W \in Nat \ {0} /\ PageSize \in Nat \ {0}
    BY Width, SizesAssumption
<1>2. Slide \in Nat /\ KernelBase \in Nat /\ firmware.highest \in Nat
    BY Width, SizesAssumption, FirmwareAssumption
<1> HIDE DEF W
<1>3. a \in 0 .. W - 1
    BY <1>1, <1>2
<1> HIDE DEF a
<1>4. start \in 0 .. a
    <2>1. a % PageSize \in 0 .. a
        BY <1>1, <1>3, Remainder
    <2> QED
        BY <1>1, <1>3, <2>1 DEF Align
<1>5. Align(KernelBase) \in Int
    BY <1>1, <1>2 DEF Align
<1> HIDE DEF start
<1>6. start \in 0 .. W - 1 /\ length \in 0 .. W - 1
    BY <1>1, <1>3, <1>4, <1>5
<1> QED
    BY <1>6 DEF VirtualRange, W, a, start

LEMMA InitOrder == Init => CpuInv /\ OrderInv
<1> SUFFICES ASSUME Init
             PROVE  CpuInv /\ OrderInv
    OBVIOUS
<1>1. Init_Interrupts
    BY DEF Init
<1>2. CpuInv
    <2>1. StackInv /\ hlt = FALSE /\ masked = FALSE /\ reset = FALSE
        BY <1>1, InitStack DEF Init_Interrupts
    <2>2. Len(taken) = 0 /\ MaxDepth \in Nat
        BY <1>1, VectorsAssumption DEF Init_Interrupts
    <2>3. hlt \in BOOLEAN /\ masked \in BOOLEAN /\ reset \in BOOLEAN
        BY <2>1
    <2>4. Len(taken) <= MaxDepth
        BY <2>2
    <2> QED
        BY <2>1, <2>3, <2>4 DEF CpuInv, Depth
<1>3. 0 \in 0 .. TwoTo[Bits] - 1
    BY Width
<1>4. OrderInv
    BY <1>1, <1>3 DEF Init, Init_Interrupts, OrderInv, Early, HeapUsers
<1> QED
    BY <1>2, <1>4

\* A step that is of the processor alone keeps the order.
LEMMA OrderStays ==
    ASSUME OrderInv, UNCHANGED bootVars, UNCHANGED <<gdt, idt>>, Steady
    PROVE  OrderInv'
<1>1. UNCHANGED <<firmware, pc, gsbase, error, range, heap_base>>
    BY DEF bootVars, percpuVars, memoryVars
<1>2. VirtualRange' = VirtualRange
    BY <1>1 DEF VirtualRange, Align
<1> QED
    BY <1>1, <1>2 DEF OrderInv, Steady

\* Each step of the boot leaves the processor's frames alone and keeps the order.
LEMMA KernelStepKeeps ==
    ASSUME CpuInv, OrderInv, KernelStep
    PROVE  CpuInv' /\ OrderInv'
<1> USE DEF Early, HeapUsers
<1>1. ASSUME NEW from, NEW to, Step(from, to)
      PROVE  /\ CpuInv' /\ pc = from /\ pc' = to /\ ~reset' /\ firmware' = firmware
             /\ VirtualRange' = VirtualRange
    <2>1. /\ UNCHANGED <<cpu, stack, taken, reset, firmware>> /\ ~reset /\ pc = from /\ pc' = to
          /\ hlt' \in BOOLEAN /\ masked' \in BOOLEAN
        BY <1>1 DEF Step, At, cpuVars, CpuInv
    <2>2. VirtualRange' = VirtualRange
        BY <2>1 DEF VirtualRange, Align
    <2> QED
        BY <2>1, <2>2, CpuStays
<1>2. ASSUME NEW from, NEW to, At(from), Hcf(to)
      PROVE  /\ CpuInv' /\ pc = from /\ pc' = to /\ ~reset' /\ UNCHANGED <<firmware, gdt, idt>>
             /\ VirtualRange' = VirtualRange
    <2>1. UNCHANGED <<reset, gdt, idt, firmware>> /\ ~reset /\ pc = from /\ pc' = to /\ Halt
        BY <1>2 DEF Hcf, At, Halt
    <2>2. VirtualRange' = VirtualRange
        BY <2>1 DEF VirtualRange, Align
    <2> QED
        BY <2>1, <2>2, HaltKeeps
<1>3. ASSUME taken = <<>>, Fault
      PROVE  CpuInv' /\ OrderInv'
    BY <1>3, PageFaultKeeps, OrderStays DEF Fault
<1>4. CASE RunConstructors
    BY <1>1, <1>4 DEF RunConstructors, OrderInv, percpuVars, memoryVars
<1>5. CASE SetupBspPercpu
    BY <1>1, <1>5 DEF SetupBspPercpu, OrderInv, percpuVars, memoryVars
<1>6. CASE InitGdt
    BY <1>1, <1>6 DEF InitGdt, OrderInv, percpuVars, memoryVars
<1>7. CASE InitIdt
    BY <1>1, <1>7 DEF InitIdt, OrderInv, percpuVars, memoryVars
<1>8. CASE InitPma
    <2>1. CASE firmware.memmap /\ firmware.hhdm
        BY <1>1, <1>8, <2>1 DEF InitPma, OrderInv, percpuVars, memoryVars
    <2>3. CASE firmware.memmap /\ ~ firmware.hhdm
        BY <1>3, <1>8, <2>3 DEF InitPma, At
    <2>2. CASE ~ firmware.memmap
        BY <1>2, <1>8, <2>2 DEF InitPma, OrderInv, percpuVars, memoryVars
    <2> QED
        BY <2>1, <2>2, <2>3
<1>9. CASE InitVma
    <2>1. VirtualRange \in [start : 0 .. TwoTo[Bits] - 1, length : 0 .. TwoTo[Bits] - 1]
        BY RangeIsTyped DEF OrderInv
    <2>2. CASE firmware.hhdm /\ firmware.kernel_address
        BY <1>1, <1>9, <2>1, <2>2 DEF InitVma, OrderInv, percpuVars
    <2>3. CASE ~ (firmware.hhdm /\ firmware.kernel_address)
        BY <1>3, <1>9, <2>3 DEF InitVma, At
    <2> QED
        BY <2>2, <2>3
<1>10. CASE InitHeap
    <2>1. CASE HeapSize <= range.length
        BY <1>1, <1>10, <2>1 DEF InitHeap, OrderInv, percpuVars
    <2>2. CASE ~ (HeapSize <= range.length)
        BY <1>1, <1>10, <2>2 DEF InitHeap, OrderInv, percpuVars
    <2> QED
        BY <2>1, <2>2
<1>11. CASE HeapFailed
    <2>1. At("heap_failed") /\ gsbase
        BY <1>11 DEF HeapFailed, OrderInv, At
    <2>2. Hcf("hcf") /\ error' = "OutOfMemory" /\ UNCHANGED <<gsbase, memoryVars>>
        BY <1>11, <2>1 DEF HeapFailed
    <2> QED
        BY <1>2, <2>1, <2>2 DEF OrderInv, memoryVars
<1>12. CASE InitEarlyAcpi
    <2>1. CASE firmware.rsdp
        BY <1>1, <1>12, <2>1 DEF InitEarlyAcpi, OrderInv, percpuVars, memoryVars
    <2>2. CASE ~ firmware.rsdp
        BY <1>3, <1>12, <2>2 DEF InitEarlyAcpi, At
    <2> QED
        BY <2>1, <2>2
<1>13. CASE UacpiCalls
    BY <1>13, GlueCallKeepsCpu, OrderStays DEF UacpiCalls, At
<1>14. CASE UacpiReturns
    <2>1. UNCHANGED <<percpuVars, memoryVars>>
        BY <1>14 DEF UacpiReturns
    <2>2. CASE At("uacpi") /\ Hcf("hcf")
        BY <1>2, <2>1, <2>2 DEF OrderInv, percpuVars, memoryVars
    <2>3. CASE At("uacpi") /\ pc' = "clocksource" /\ UNCHANGED <<firmware, gdt, idt, cpuVars>>
        <3>1. CpuInv' /\ ~reset'
            BY <2>3, CpuStays DEF cpuVars, CpuInv, At
        <3>2. VirtualRange' = VirtualRange
            BY <2>3 DEF VirtualRange, Align
        <3> QED
            BY <2>1, <2>3, <3>1, <3>2 DEF OrderInv, percpuVars, memoryVars, At
    <2> QED
        BY <1>14, <2>2, <2>3 DEF UacpiReturns
<1>15. CASE InitClocksource
    BY <1>1, <1>15 DEF InitClocksource, OrderInv, percpuVars, memoryVars
<1>16. CASE InitIrqs
    <2>1. CASE firmware.madt # NoTable
        BY <1>1, <1>16, <2>1 DEF InitIrqs, OrderInv, percpuVars, memoryVars
    <2>2. CASE firmware.madt = NoTable
        BY <1>2, <1>16, <2>2 DEF InitIrqs, OrderInv, percpuVars, memoryVars
    <2> QED
        BY <2>1, <2>2
<1>17. CASE LoadEntry
    <2>3. taken = <<>>
        BY <1>17 DEF LoadEntry, At
    <2>1. CASE Fault
        BY <1>3, <2>1, <2>3
    <2>2. CASE UNCHANGED <<firmware, pc, percpuVars, memoryVars, gdt, idt, cpuVars>>
        <3>1. CpuInv' /\ UNCHANGED <<reset, firmware, pc, gsbase, error, range, heap_base, gdt, idt>>
            BY <2>2, CpuStays DEF cpuVars, CpuInv, percpuVars, memoryVars
        <3>2. VirtualRange' = VirtualRange
            BY <3>1 DEF VirtualRange, Align
        <3> QED
            BY <3>1, <3>2 DEF OrderInv
    <2> QED
        BY <1>17, <2>1, <2>2 DEF LoadEntry, File
<1>18. CASE Idle
    BY <1>2, <1>18 DEF Idle, OrderInv, percpuVars, memoryVars
<1> QED
    BY <1>4, <1>5, <1>6, <1>7, <1>8, <1>9, <1>10, <1>11, <1>12, <1>13, <1>14, <1>15, <1>16, <1>17,
       <1>18 DEF KernelStep

LEMMA NextKeepsOrder ==
    ASSUME CpuInv, OrderInv, [Next]_vars
    PROVE  CpuInv' /\ OrderInv'
<1>1. CASE KernelStep
    BY <1>1, KernelStepKeeps
<1>2. CASE HandlerHalt
    BY <1>2, HaltKeeps, OrderStays DEF HandlerHalt, InterruptHalt
<1>3. CASE Stub
    BY <1>3, StubStepKeeps, OrderStays DEF Stub
<1>4. CASE Interrupt
    BY <1>4, InterruptKeeps, OrderStays DEF Interrupt
<1>5. CASE UNCHANGED vars
    <2>1. /\ UNCHANGED bootVars /\ UNCHANGED <<gdt, idt>> /\ UNCHANGED <<cpu, stack, taken, reset>>
          /\ hlt' \in BOOLEAN /\ masked' \in BOOLEAN
        BY <1>5 DEF vars, cpuVars, CpuInv
    <2> QED
        BY <2>1, CpuStays, OrderStays
<1> QED
    BY <1>1, <1>2, <1>3, <1>4, <1>5 DEF Next

\* The heap's place, computed with addresses that wrap, where memory ends on a page.
LEMMA HeapLiesApart == OrderInv => HeapApart
<1> SUFFICES ASSUME OrderInv, pc \in HeapUsers,
                    firmware.highest % PageSize = 0, Slide + firmware.highest <= KernelBase
             PROVE  Slide + firmware.highest <= heap_base /\ heap_base + HeapSize <= KernelBase
    BY DEF HeapApart
<1> DEFINE W == TwoTo[Bits]
           h == firmware.highest
           a == Slide + h
<1>1. W \in Nat \ {0} /\ PageSize \in Nat \ {0} /\ HeapSize \in Nat
    BY Width, SizesAssumption
<1>2. Slide \in Nat /\ KernelBase \in 0 .. W - 1 /\ h \in Nat /\ Slide % PageSize = 0 /\ KernelBase % PageSize = 0
      /\ h % PageSize = 0
    BY Width, SizesAssumption, FirmwareAssumption DEF OrderInv
<1>3. heap_base = VirtualRange.start /\ HeapSize <= VirtualRange.length
    BY DEF OrderInv
<1> HIDE DEF W, h
<1>4. a \in 0 .. W - 1 /\ a <= KernelBase
    BY <1>1, <1>2 DEF h
<1>5. a % PageSize = 0
    BY <1>1, <1>2, SumOfMultiples
<1>6. a % W = a
    BY <1>1, <1>4
<1> HIDE DEF a
<1>7. Align(a % W) = a /\ Align(KernelBase) = KernelBase
    BY <1>2, <1>4, <1>5, <1>6 DEF Align
<1>8. VirtualRange.start = a /\ VirtualRange.length = (KernelBase - a) % W
    BY <1>7 DEF VirtualRange, W, a, h
<1>9. (KernelBase - a) % W = KernelBase - a
    BY <1>1, <1>2, <1>4
<1>10. a <= heap_base /\ heap_base + HeapSize <= KernelBase
    BY <1>1, <1>2, <1>3, <1>4, <1>8, <1>9
<1> QED
    BY <1>10 DEF a, h

-----------------------------------------------------------------------------
(* uACPI's objects. *)

Object == [kind : {"io", "lock", "memory"}, window : Nat \X Nat, held : BOOLEAN]

\* The result of an access to a window.
AccessOf(w, offset, width) ==
    [window |-> w, offset |-> offset, width |-> width, ok |-> InWindow(offset, width, w[2]),
     ports |-> IF InWindow(offset, width, w[2])
               THEN {(w[1] + offset + k) % TwoTo[PortBits] : k \in 0 .. width - 1} ELSE {}]

GlueInv ==
    /\ DOMAIN objects \subseteq 1 .. MaxObjects /\ handles \subseteq DOMAIN objects
    /\ \A h \in DOMAIN objects :
        /\ objects[h] \in Object
        /\ objects[h].kind = "io" => objects[h].window \in Windows
        /\ h \notin handles => objects[h].kind = "lock" /\ ~objects[h].held
    /\ calls \in 0 .. MaxCalls
    /\ \/ access = NoAccess
       \/ \E w \in Windows, offset \in Offsets, width \in {1, 2, 4} : access = AccessOf(w, offset, width)

LEMMA WindowsAreNumbers ==
    /\ \A w \in Windows : w \in Nat \X Nat /\ w[1] \in Nat /\ w[2] \in Nat
    /\ \A o \in Offsets : o \in Nat
BY Width, WidthAssumption

LEMMA InitObjects == Init_Glue => GlueInv
BY WidthAssumption DEF Init_Glue, GlueInv

LEMMA CallCounts == GlueInv /\ Call => calls' \in 0 .. MaxCalls
BY WidthAssumption DEF GlueInv, Call

\* A new object is at a free handle, the least.
LEMMA MakeKeeps ==
    ASSUME GlueInv, NEW object \in Object, object.kind = "io" => object.window \in Windows, Make(object)
    PROVE  GlueInv'
<1> DEFINE h == CHOOSE n \in FreshHandles : \A m \in FreshHandles : n <= m
<1>1. calls' \in 0 .. MaxCalls /\ access' = NoAccess
    BY CallCounts DEF Make
<1>2. CASE UNCHANGED <<objects, handles>>
    BY <1>1, <1>2 DEF GlueInv
<1>3. CASE /\ FreshHandles # {} /\ handles' = handles \cup {h}
           /\ objects' = [n \in DOMAIN objects \cup {h} |-> IF n = h THEN object ELSE objects[n]]
    <2>1. h \in FreshHandles
        <3>1. FreshHandles \in SUBSET Nat
            BY WidthAssumption DEF FreshHandles
        <3>2. \E n \in FreshHandles : \A m \in FreshHandles : n <= m
            BY <1>3, <3>1, LeastNumber
        <3> QED
            BY <3>2
    <2>2. h \in 1 .. MaxObjects /\ h \notin DOMAIN objects
        BY <2>1 DEF FreshHandles
    <2> HIDE DEF h
    <2>3. /\ DOMAIN objects' = DOMAIN objects \cup {h} /\ objects'[h] = object
          /\ \A n \in DOMAIN objects : objects'[n] = objects[n]
        BY <1>3, <2>2
    <2> QED
        BY <1>1, <1>3, <2>2, <2>3 DEF GlueInv
<1> QED
    BY <1>2, <1>3 DEF Make

LEMMA GiveBackKeeps ==
    ASSUME GlueInv, NEW h \in handles, GiveBack(h)
    PROVE  GlueInv'
<1>1. objects' = [n \in DOMAIN objects \ {h} |-> objects[n]]
    BY DEF GiveBack, Restrict
<1>2. /\ DOMAIN objects' = DOMAIN objects \ {h}
      /\ \A n \in DOMAIN objects \ {h} : objects'[n] = objects[n]
    BY <1>1
<1> QED
    BY <1>2 DEF GiveBack, GlueInv

LEMMA SetHeldKeeps ==
    ASSUME GlueInv, NEW h \in handles, NEW held \in BOOLEAN, SetHeld(h, held), calls' \in 0 .. MaxCalls
    PROVE  GlueInv'
<1>1. h \in DOMAIN objects /\ objects[h] \in Object
    BY DEF GlueInv
<1>2. objects' = [objects EXCEPT ![h] = [objects[h] EXCEPT !.held = held]]
    BY DEF SetHeld
<1>3. /\ DOMAIN objects' = DOMAIN objects
      /\ \A n \in DOMAIN objects : n # h => objects'[n] = objects[n]
      /\ objects'[h] \in Object /\ objects'[h].kind = objects[h].kind
      /\ objects'[h].window = objects[h].window
    BY <1>1, <1>2 DEF Object
<1>4. handles' = handles /\ access' = NoAccess
    BY DEF SetHeld
<1>5. /\ objects[h].kind = "io" => objects[h].window \in Windows
      /\ \A n \in DOMAIN objects : n \notin handles => n # h
    BY <1>1 DEF GlueInv
<1>6. ASSUME NEW n \in DOMAIN objects'
      PROVE  /\ objects'[n] \in Object
             /\ objects'[n].kind = "io" => objects'[n].window \in Windows
             /\ n \notin handles' => objects'[n].kind = "lock" /\ ~objects'[n].held
    <2>1. CASE n = h
        BY <1>3, <1>4, <1>5, <2>1
    <2>2. CASE n # h
        BY <1>3, <1>4, <2>2 DEF GlueInv
    <2> QED
        BY <2>1, <2>2
<1> QED
    BY <1>3, <1>4, <1>6 DEF GlueInv

LEMMA AccessKeeps == GlueInv /\ uacpi_kernel_io_access => GlueInv'
<1> SUFFICES ASSUME GlueInv, uacpi_kernel_io_access
             PROVE  GlueInv'
    OBVIOUS
<1>1. PICK h \in Has("io"), offset \in Offsets, width \in {1, 2, 4} :
            access' = AccessOf(objects[h].window, offset, width)
    BY DEF uacpi_kernel_io_access, AccessOf
<1>2. objects[h].window \in Windows
    BY DEF GlueInv, Has
<1>3. calls' \in 0 .. MaxCalls /\ UNCHANGED <<objects, handles>>
    BY CallCounts DEF uacpi_kernel_io_access
<1> QED
    BY <1>1, <1>2, <1>3 DEF GlueInv

LEMMA GlueStays == GlueInv /\ UNCHANGED glueVars => GlueInv'
BY DEF GlueInv, glueVars

LEMMA GlueCallKeeps == GlueInv /\ GlueCall => GlueInv'
<1> SUFFICES ASSUME GlueInv, GlueCall
             PROVE  GlueInv'
    OBVIOUS
<1>1. CASE uacpi_kernel_io_map
    <2>1. PICK w \in Windows : Make(IoMap(w))
        BY <1>1 DEF uacpi_kernel_io_map
    <2>2. IoMap(w) \in Object /\ IoMap(w).window \in Windows
        BY WindowsAreNumbers DEF IoMap, Object
    <2> QED
        BY <2>1, <2>2, MakeKeeps
<1>2. CASE uacpi_kernel_create_mutex
    <2>1. Spinlock \in Object /\ Spinlock.kind # "io"
        BY DEF Spinlock, Object
    <2> QED
        BY <1>2, <2>1, MakeKeeps DEF uacpi_kernel_create_mutex
<1>3. CASE uacpi_kernel_alloc
    <2>1. Memory \in Object /\ Memory.kind # "io"
        BY DEF Memory, Object
    <2>2. CASE Make(Memory)
        BY <2>1, <2>2, MakeKeeps
    <2>3. CASE Call /\ access' = NoAccess /\ UNCHANGED <<objects, handles>>
        BY <2>3, CallCounts DEF GlueInv
    <2> QED
        BY <1>3, <2>2, <2>3 DEF uacpi_kernel_alloc
<1>4. CASE uacpi_kernel_io_unmap \/ uacpi_kernel_free
    <2>1. PICK h \in handles : GiveBack(h) \/ UNCHANGED glueVars
        BY <1>4 DEF uacpi_kernel_io_unmap, uacpi_kernel_free, Has
    <2> QED
        BY <2>1, GiveBackKeeps, GlueStays
<1>5. CASE uacpi_kernel_free_mutex
    BY <1>5 DEF uacpi_kernel_free_mutex, Has, GlueInv
<1>6. CASE uacpi_kernel_io_access
    BY <1>6, AccessKeeps
<1>7. CASE uacpi_kernel_acquire_mutex
    <2>1. PICK h \in handles : SetHeld(h, TRUE)
        BY <1>7 DEF uacpi_kernel_acquire_mutex, Has
    <2>2. calls' \in 0 .. MaxCalls
        BY <1>7, CallCounts DEF uacpi_kernel_acquire_mutex
    <2> QED
        BY <2>1, <2>2, SetHeldKeeps
<1>8. CASE uacpi_kernel_release_mutex
    <2>1. PICK h \in handles : SetHeld(h, FALSE)
        BY <1>8 DEF uacpi_kernel_release_mutex, Has
    <2>2. calls' \in 0 .. MaxCalls
        BY <1>8 DEF uacpi_kernel_release_mutex, GlueInv
    <2> QED
        BY <2>1, <2>2, SetHeldKeeps
<1> QED
    BY <1>1, <1>2, <1>3, <1>4, <1>5, <1>6, <1>7, <1>8 DEF GlueCall

LEMMA NextKeepsObjects ==
    ASSUME GlueInv, [Next]_vars
    PROVE  GlueInv'
<1>1. ASSUME NEW step, Hcf(step)
      PROVE  UNCHANGED glueVars
    BY <1>1 DEF Hcf
<1>2. ASSUME NEW from, NEW to, Step(from, to)
      PROVE  UNCHANGED glueVars
    BY <1>2 DEF Step
<1>3. Fault => UNCHANGED glueVars
    BY DEF Fault
<1>4. RunConstructors \/ SetupBspPercpu \/ InitGdt \/ InitIdt \/ InitPma \/ InitVma \/ InitHeap
        \/ HeapFailed \/ InitEarlyAcpi \/ InitClocksource \/ InitIrqs \/ Idle => UNCHANGED glueVars
    BY <1>1, <1>2, <1>3 DEF RunConstructors, SetupBspPercpu, InitGdt, InitIdt, InitPma, InitVma, InitHeap,
        HeapFailed, InitEarlyAcpi, InitClocksource, InitIrqs, Idle
<1>5. LoadEntry => UNCHANGED glueVars
    BY <1>3 DEF LoadEntry, File, glueVars
<1>6. UacpiCalls => GlueInv'
    BY GlueCallKeeps DEF UacpiCalls
<1>7. UacpiReturns => GlueInv'
    <2> SUFFICES ASSUME UacpiReturns
                 PROVE  GlueInv'
        OBVIOUS
    <2>1. UNCHANGED glueVars \/ (access' = NoAccess /\ calls' = 0 /\ UNCHANGED <<objects, handles>>)
        BY <1>1 DEF UacpiReturns
    <2>2. 0 \in 0 .. MaxCalls
        BY WidthAssumption
    <2> QED
        BY <2>1, <2>2, GlueStays DEF GlueInv
<1>8. HandlerHalt \/ Stub \/ Interrupt \/ UNCHANGED vars => UNCHANGED glueVars
    BY DEF HandlerHalt, Stub, Interrupt, vars
<1> QED
    BY <1>4, <1>5, <1>6, <1>7, <1>8, GlueStays DEF Next, KernelStep

\* Only locks that are free are left without a handle.
LEMMA LocksLeak == GlueInv => OnlyLocksLeak
BY DEF GlueInv, OnlyLocksLeak

\* An access that is granted stays within its window.
LEMMA PortsStay ==
    ASSUME GlueInv
    PROVE  PortsInWindow
<1> DEFINE W == TwoTo[Bits]
           P == TwoTo[PortBits]
<1>1. W \in Nat \ {0} /\ P \in Nat \ {0}
    BY Width, TwoToAt, WidthAssumption
<1>2. CASE access = NoAccess
    BY <1>2 DEF PortsInWindow, NoAccess
<1>3. ASSUME NEW w \in Windows, NEW offset \in Offsets, NEW width \in {1, 2, 4},
             access = AccessOf(w, offset, width)
      PROVE  PortsInWindow
    <2> DEFINE base == w[1]
               len == w[2]
               first == base + offset
    <2>1. base \in Nat /\ len \in Nat /\ offset \in Nat /\ width \in Nat /\ width >= 1
        BY WindowsAreNumbers
    <2>2. /\ access.window = w /\ access.offset = offset /\ access.width = width
          /\ access.ok = InWindow(offset, width, len)
          /\ access.ok => access.ports = {(base + offset + k) % P : k \in 0 .. width - 1}
        BY <1>3 DEF AccessOf
    <2> SUFFICES ASSUME access.ok, offset + width <= W, base + len <= P
                 PROVE  /\ access.ports \subseteq base .. base + len - 1
                        /\ Cardinality(access.ports) = width
        BY <2>2 DEF PortsInWindow
    <2> HIDE DEF base, len, W, P
    <2>3. offset + width - 1 < len
        <3>1. (offset + width - 1) % W < len
            BY <2>2 DEF InWindow, W
        <3>2. offset + width - 1 \in 0 .. W - 1
            BY <1>1, <2>1
        <3>3. (offset + width - 1) % W = offset + width - 1
            BY <1>1, <3>2
        <3> QED
            BY <3>1, <3>3
    <2>4. \A k \in 0 .. width - 1 : (base + offset + k) % P = first + k
        <3> TAKE k \in 0 .. width - 1
        <3>1. base + offset + k \in 0 .. P - 1
            BY <1>1, <2>1, <2>3
        <3>2. (base + offset + k) % P = base + offset + k
            BY <1>1, <3>1
        <3> QED
            BY <3>2
    <2>5. first \in Nat
        BY <2>1
    <2>6. access.ports = first .. first + width - 1
        <3>1. access.ports = {first + k : k \in 0 .. width - 1}
            BY <2>2, <2>4
        <3> HIDE DEF first
        <3>2. \A p \in first .. first + width - 1 : p - first \in 0 .. width - 1 /\ p = first + (p - first)
            BY <2>1, <2>5
        <3>3. \A k \in 0 .. width - 1 : first + k \in first .. first + width - 1
            BY <2>1, <2>5
        <3> QED
            BY <3>1, <3>2, <3>3
    <2>7. Cardinality(first .. first + width - 1) = width
        <3>1. first \in Int /\ first + width - 1 \in Int /\ first <= first + width - 1
            BY <2>1, <2>5
        <3>2. (first + width - 1) - first + 1 = width
            BY <2>1, <2>5
        <3> HIDE DEF first
        <3> QED
            BY <3>1, <3>2, FS_Interval
    <2>8. first .. first + width - 1 \subseteq base .. base + len - 1
        BY <2>1, <2>3
    <2> QED
        BY <2>6, <2>7, <2>8
<1> QED
    BY <1>2, <1>3 DEF GlueInv

-----------------------------------------------------------------------------
(* The walk of the MADT. *)

Entry == [kind : STRING, length : Nat]

\* What the recursive definition of Bytes computes.
LEMMA BytesAt ==
    ASSUME NEW entries \in Seq(Entry)
    PROVE  LET n == Len(entries)
               b == Bytes(entries)
           IN  /\ b \in [0 .. n -> Nat] /\ b[0] = 0
               /\ \A i \in 1 .. n : b[i] = b[i - 1] + entries[i].length
<1> DEFINE len == Len(entries)
           zero == 0
           step == [n \in Nat |-> [x \in Nat |-> IF n + 1 \in 1 .. len THEN x + entries[n + 1].length ELSE x]]
           Solves(b) == b = [n \in 0 .. len |-> IF n = 0 THEN 0 ELSE b[n - 1] + entries[n].length]
<1>1. len \in Nat /\ \A i \in 1 .. len : entries[i].length \in Nat
    <2>1. len \in Nat /\ \A i \in 1 .. len : entries[i] \in Entry
        OBVIOUS
    <2> HIDE DEF len
    <2> QED
        BY <2>1 DEF Entry
<1>2. zero \in Nat /\ step \in [Nat -> [Nat -> Nat]]
    <2>1. \A n, x \in Nat : (IF n + 1 \in 1 .. len THEN x + entries[n + 1].length ELSE x) \in Nat
        BY <1>1
    <2> QED
        BY <2>1
<1>3. \A i \in 1 .. len : \A x \in Nat : step[i - 1][x] = x + entries[i].length
    <2> TAKE i \in 1 .. len
    <2> TAKE x \in Nat
    <2>1. i - 1 \in Nat /\ (i - 1) + 1 = i
        BY <1>1
    <2> QED
        BY <2>1
<1> HIDE DEF zero, step
<1>4. PICK f : IsRecursion(f, Nat, zero, step)
    BY <1>2, Recursion
<1>5. f \in [Nat -> Nat] /\ f[0] = 0
    BY <1>4 DEF IsRecursion, zero
<1>6. \A i \in 1 .. len : f[i] = f[i - 1] + entries[i].length
    <2> TAKE i \in 1 .. len
    <2>1. i - 1 \in Nat /\ (i - 1) + 1 = i
        BY <1>1
    <2>2. f[(i - 1) + 1] = step[i - 1][f[i - 1]]
        BY <1>4, <2>1 DEF IsRecursion
    <2>3. f[i - 1] \in Nat
        BY <1>5, <2>1
    <2> QED
        BY <1>3, <2>1, <2>2, <2>3
<1> DEFINE g == [n \in 0 .. len |-> f[n]]
<1>7. Solves(g)
    <2>1. \A n \in 0 .. len : g[n] = IF n = 0 THEN 0 ELSE g[n - 1] + entries[n].length
        <3> TAKE n \in 0 .. len
        <3>1. n # 0 => n \in 1 .. len /\ n - 1 \in 0 .. len
            BY <1>1
        <3> QED
            BY <1>5, <1>6, <3>1
    <2>2. g = [n \in 0 .. len |-> g[n]]
        OBVIOUS
    <2> HIDE DEF g
    <2> QED
        BY <2>1, <2>2
<1>8. Bytes(entries) = CHOOSE b : Solves(b)
    BY DEF Bytes
<1>9. Solves(Bytes(entries))
    <2> HIDE DEF Solves
    <2> QED BY <1>7, <1>8
<1> DEFINE b == Bytes(entries)
<1>10. /\ b[0] = 0 /\ \A n \in 1 .. len : b[n] = b[n - 1] + entries[n].length
       /\ b = [n \in 0 .. len |-> b[n]]
    <2> HIDE DEF b
    <2>1. \A n \in 0 .. len : b[n] = IF n = 0 THEN 0 ELSE b[n - 1] + entries[n].length
        BY <1>9 DEF b
    <2>2. b = [n \in 0 .. len |-> b[n]]
        BY <1>9 DEF b
    <2>3. 0 \in 0 .. len /\ \A n \in 1 .. len : n \in 0 .. len /\ n # 0
        BY <1>1
    <2> QED
        BY <2>1, <2>2, <2>3
<1> HIDE DEF b
<1>11. \A n \in 0 .. len : n \in {m \in 0 .. len : b[m] \in Nat}
    <2> DEFINE S == {m \in 0 .. len : b[m] \in Nat}
    <2>1. 0 \in S
        BY <1>1, <1>10
    <2>2. \A n \in 0 .. len - 1 : n \in S => n + 1 \in S
        <3> TAKE n \in 0 .. len - 1
        <3>1. n + 1 \in 1 .. len /\ (n + 1) - 1 = n
            BY <1>1
        <3>2. b[n + 1] = b[n] + entries[n + 1].length
            BY <1>10, <3>1
        <3> QED
            BY <1>1, <3>1, <3>2
    <2> HIDE DEF S
    <2>3. \A n \in 0 .. len : n \in S
        BY <1>1, <2>1, <2>2, BoundedInduction
    <2> QED
        BY <2>3 DEF S
<1>12. b \in [0 .. len -> Nat]
    BY <1>10, <1>11
<1> QED
    BY <1>10, <1>12 DEF b

\* An entry begins after those before it.
LEMMA BytesGrow ==
    ASSUME NEW entries \in Seq(Entry), NEW p \in 0 .. Len(entries)
    PROVE  \A n \in p .. Len(entries) : Bytes(entries)[p] <= Bytes(entries)[n]
<1> DEFINE len == Len(entries)
           b == Bytes(entries)
           S == {d \in 0 .. len - p : b[p] <= b[p + d]}
<1>1. len \in Nat /\ b \in [0 .. len -> Nat] /\ \A i \in 1 .. len : b[i] = b[i - 1] + entries[i].length
    BY BytesAt
<1>2. \A i \in 1 .. len : entries[i].length \in Nat
    <2>1. \A i \in 1 .. len : entries[i] \in Entry
        OBVIOUS
    <2> HIDE DEF len
    <2> QED
        BY <2>1 DEF Entry
<1> HIDE DEF b, len
<1>3. p \in 0 .. len
    BY DEF len
<1>4. 0 \in S
    BY <1>1, <1>3
<1>5. \A d \in 0 .. (len - p) - 1 : d \in S => d + 1 \in S
    <2> TAKE d \in 0 .. (len - p) - 1
    <2> HAVE d \in S
    <2>1. p + (d + 1) \in 1 .. len /\ (p + (d + 1)) - 1 = p + d /\ p + d \in 0 .. len /\ d + 1 \in 0 .. len - p
        BY <1>1, <1>3
    <2>2. b[p + (d + 1)] = b[p + d] + entries[p + (d + 1)].length
        BY <1>1, <2>1
    <2>3. b[p] \in Nat /\ b[p + d] \in Nat /\ entries[p + (d + 1)].length \in Nat /\ b[p] <= b[p + d]
        BY <1>1, <1>2, <1>3, <2>1
    <2> QED
        BY <2>1, <2>2, <2>3
<1> HIDE DEF S
<1>6. \A d \in 0 .. len - p : d \in S
    <2>1. len - p \in Nat
        BY <1>1, <1>3
    <2> QED
        BY <1>4, <1>5, <2>1, BoundedInduction
<1>7. \A n \in p .. len : b[p] <= b[n]
    <2> TAKE n \in p .. len
    <2>1. n - p \in 0 .. len - p /\ p + (n - p) = n
        BY <1>1, <1>3
    <2> QED
        BY <1>6, <2>1 DEF S
<1> QED
    BY <1>7 DEF b, len

\* s lists the elements of S in their order.
Lists(s, S) == Range(s) = S /\ \A i, j \in DOMAIN s : i < j => s[i] < s[j]

\* The first p entries were read.  One that has no length is read again and again.
HasRead(p) ==
    /\ read = Bytes(Entries)[p]
    /\ \A m \in 0 .. p - 1 : Bytes(Entries)[m] < read /\ Bytes(Entries)[m] < table_entries_size
    /\ \/ read < table_entries_size /\ p < Len(Entries) /\ Entries[p + 1].length = 0
       \/ \A k \in Kinds : Lists(tables[k], {i \in 1 .. p : Entries[i].kind = k})

Walking == pc \in {"load_entries", "idle"}

WalkInv ==
    /\ tables \in [Kinds -> Seq(Nat)] /\ Found <= MaxEntries
    /\ ~ Walking => read = 0 /\ tables = [k \in Kinds |-> <<>>]
    /\ Walking => firmware.madt # NoTable /\ \E p \in 0 .. Len(Entries) : HasRead(p)
    /\ pc = "idle" => read >= table_entries_size

LEMMA MadtIsTyped ==
    ASSUME firmware \in Firmwares, firmware.madt # NoTable
    PROVE  /\ Entries \in Seq(Entry) /\ Len(Entries) \in Nat /\ table_entries_size \in Nat
           /\ firmware.madt.length \in Nat /\ MadtHeader \in Nat /\ TwoTo[Bits] \in Nat \ {0}
           /\ firmware.madt.length <= MadtHeader + Bytes(Entries)[Len(Entries)]
           /\ MadtHeader + Bytes(Entries)[Len(Entries)] < TwoTo[Bits]
<1> DEFINE length == firmware.madt.length
           h == MadtHeader
           W == TwoTo[Bits]
<1>1. Entries \in Seq(Entry) /\ Len(Entries) \in Nat
    BY FirmwareAssumption DEF Entries, Entry
<1>2. /\ length \in Nat /\ h \in Nat
      /\ length <= h + Bytes(Entries)[Len(Entries)] /\ h + Bytes(Entries)[Len(Entries)] < W
    BY FirmwareAssumption DEF Entries
<1>3. W \in Nat \ {0}
    BY Width
<1>4. (length - h) % W \in Nat
    <2> HIDE DEF length, h, W
    <2> QED
        BY <1>2, <1>3
<1> QED
    BY <1>1, <1>2, <1>3, <1>4 DEF table_entries_size

\* A list that goes on with a number above its own.
LEMMA ListGrows ==
    ASSUME NEW s \in Seq(Nat), NEW S, NEW p \in Nat, Lists(s, S), \A i \in S : i < p
    PROVE  Lists(Append(s, p), S \cup {p})
<1> DEFINE n == Len(s)
           w == Append(s, p)
<1>1. n \in Nat /\ DOMAIN s = 1 .. n /\ DOMAIN w = 1 .. n + 1 /\ w[n + 1] = p /\ \A i \in 1 .. n : w[i] = s[i]
    OBVIOUS
<1> HIDE DEF n, w
<1>2. \A i \in 1 .. n : s[i] \in S
    BY <1>1 DEF Lists, Range
<1>3. Range(w) = S \cup {p}
    <2>1. \A x \in Range(w) : x \in S \cup {p}
        <3> TAKE x \in Range(w)
        <3>1. PICK i \in 1 .. n + 1 : x = w[i]
            BY <1>1 DEF Range
        <3> QED
            BY <1>1, <1>2, <3>1
    <2>2. ASSUME NEW x \in S
          PROVE  x \in Range(w)
        <3>1. PICK i \in 1 .. n : x = s[i]
            BY <1>1 DEF Lists, Range
        <3>2. i \in 1 .. n + 1 /\ w[i] = x
            BY <1>1, <3>1
        <3> QED
            BY <1>1, <3>2 DEF Range
    <2>3. p \in Range(w)
        <3>1. n + 1 \in 1 .. n + 1
            BY <1>1
        <3> QED
            BY <1>1, <3>1 DEF Range
    <2> QED
        BY <2>1, <2>2, <2>3
<1>4. \A i, j \in 1 .. n + 1 : i < j => w[i] < w[j]
    <2> TAKE i, j \in 1 .. n + 1
    <2> HAVE i < j
    <2>1. i \in 1 .. n
        BY <1>1
    <2>2. CASE j = n + 1
        BY <1>1, <1>2, <2>1, <2>2
    <2>3. CASE j # n + 1
        <3>1. j \in 1 .. n
            BY <1>1, <2>3
        <3> QED
            BY <1>1, <2>1, <3>1 DEF Lists
    <2> QED
        BY <2>2, <2>3
<1> QED
    BY <1>1, <1>3, <1>4 DEF Lists, w

\* Which entry is next, where there is memory.
LEMMA CurrentIs ==
    ASSUME firmware \in Firmwares, firmware.madt # NoTable, NEW p \in 0 .. Len(Entries), HasRead(p), Mapped
    PROVE  p + 1 \in DOMAIN Entries /\ Current = p + 1
<1> DEFINE len == Len(Entries)
           b == Bytes(Entries)
           IsNext(i) == Begin(i) = read /\ \A m \in 1 .. i - 1 : Begin(m) < read
<1>1. Entries \in Seq(Entry) /\ len \in Nat
    BY MadtIsTyped
<1>2. b \in [0 .. len -> Nat] /\ DOMAIN Entries = 1 .. len
    BY <1>1, BytesAt
<1>3. read = b[p] /\ \A m \in 0 .. p - 1 : b[m] < read
    BY DEF HasRead
<1>4. \A i \in 1 .. len : Begin(i) = b[i - 1]
    BY DEF Begin
<1>6. PICK j \in 1 .. len : Begin(j) = read
    BY <1>2 DEF Mapped
<1> HIDE DEF len, b
<1>5. p \in 0 .. len
    BY DEF len
<1>7. p + 1 \in 1 .. len
    <2>1. b[j - 1] = read /\ read \in Nat
        BY <1>2, <1>3, <1>4, <1>5, <1>6
    <2>2. ~ (j - 1 < p)
        <3> SUFFICES ASSUME j - 1 < p
                     PROVE  FALSE
            OBVIOUS
        <3>1. j - 1 \in 0 .. p - 1
            BY <1>1, <1>5
        <3> QED
            BY <1>3, <2>1, <3>1
    <2> QED
        BY <1>1, <1>5, <2>2
<1>8. IsNext(p + 1)
    <2>1. (p + 1) - 1 = p
        BY <1>5
    <2>2. Begin(p + 1) = read
        BY <1>3, <1>4, <1>7, <2>1
    <2>3. \A m \in 1 .. p : Begin(m) < read
        <3> TAKE m \in 1 .. p
        <3>1. m \in 1 .. len /\ m - 1 \in 0 .. p - 1
            BY <1>1, <1>5
        <3> QED
            BY <1>3, <1>4, <3>1
    <2> QED
        BY <2>1, <2>2, <2>3
<1>9. ASSUME NEW i \in 1 .. len, NEW n \in 1 .. len, IsNext(i), IsNext(n)
      PROVE  ~ (i < n)
    <2> SUFFICES ASSUME i < n
                 PROVE  FALSE
        OBVIOUS
    <2>1. i \in 1 .. n - 1
        BY <1>1
    <2>2. Begin(i) < read /\ Begin(i) = read
        BY <1>9, <2>1
    <2>3. read \in Nat
        BY <1>2, <1>3, <1>5
    <2> QED
        BY <2>2, <2>3
<1>10. \A i \in 1 .. len : IsNext(i) => i = p + 1
    <2> TAKE i \in 1 .. len
    <2> HAVE IsNext(i)
    <2>1. ~ (i < p + 1) /\ ~ (p + 1 < i)
        <3> HIDE DEF IsNext
        <3> QED BY <1>7, <1>8, <1>9
    <2> QED
        BY <1>7, <2>1
<1>11. Current = CHOOSE i \in 1 .. len : IsNext(i)
    BY <1>2 DEF Current
<1> HIDE DEF IsNext
<1> QED
    BY <1>2, <1>7, <1>8, <1>10, <1>11

LEMMA KindsAre == Kinds = {"lapic", "lapic_nmi", "interrupt_source_override", "ioapic"}
BY DEF Kinds

\* A round of the walk adds what it found at the end of its list.
LEMMA TablesGrow ==
    ASSUME tables \in [Kinds -> Seq(Nat)], Found <= MaxEntries, NEW kind \in Kinds, Found # MaxEntries,
           NEW i \in Nat, tables' = [tables EXCEPT ![kind] = Append(@, i)]
    PROVE  tables' \in [Kinds -> Seq(Nat)] /\ Found' <= MaxEntries
<1>1. tables' \in [Kinds -> Seq(Nat)]
    <2>1. Append(tables[kind], i) \in Seq(Nat)
        OBVIOUS
    <2> QED
        BY <2>1
<1>2. \A k \in Kinds : Len(tables[k]) \in Nat /\ Len(tables'[k]) = Len(tables[k]) + (IF k = kind THEN 1 ELSE 0)
    <2> TAKE k \in Kinds
    <2>1. tables[k] \in Seq(Nat) /\ Len(tables[k]) \in Nat
        OBVIOUS
    <2>2. CASE k = kind
        <3>1. tables'[k] = Append(tables[k], i)
            BY <2>2
        <3> QED
            BY <2>1, <2>2, <3>1
    <2>3. CASE k # kind
        BY <2>1, <2>3
    <2> QED
        BY <2>2, <2>3
<1>3. MaxEntries \in Nat
    BY FirmwareAssumption
<1> DEFINE a == Len(tables["lapic"])
           b == Len(tables["lapic_nmi"])
           c == Len(tables["interrupt_source_override"])
           d == Len(tables["ioapic"])
<1>4. a \in Nat /\ b \in Nat /\ c \in Nat /\ d \in Nat /\ Found = a + b + c + d
    BY <1>2 DEF Found, Kinds
<1>5. Found' = Found + 1
    <2>1. /\ Len(tables'["lapic"]) = a + (IF kind = "lapic" THEN 1 ELSE 0)
          /\ Len(tables'["lapic_nmi"]) = b + (IF kind = "lapic_nmi" THEN 1 ELSE 0)
          /\ Len(tables'["interrupt_source_override"])
                = c + (IF kind = "interrupt_source_override" THEN 1 ELSE 0)
          /\ Len(tables'["ioapic"]) = d + (IF kind = "ioapic" THEN 1 ELSE 0)
        BY <1>2, KindsAre
    <2>2. Found' = Len(tables'["lapic"]) + Len(tables'["lapic_nmi"])
                    + Len(tables'["interrupt_source_override"]) + Len(tables'["ioapic"])
        BY DEF Found
    <2> HIDE DEF a, b, c, d
    <2>3. CASE kind = "lapic"
        BY <1>4, <2>1, <2>2, <2>3
    <2>4. CASE kind = "lapic_nmi"
        BY <1>4, <2>1, <2>2, <2>4
    <2>5. CASE kind = "interrupt_source_override"
        BY <1>4, <2>1, <2>2, <2>5
    <2>6. CASE kind = "ioapic"
        BY <1>4, <2>1, <2>2, <2>6
    <2> QED
        BY <2>3, <2>4, <2>5, <2>6, KindsAre
<1>6. Found \in Nat
    <2> HIDE DEF a, b, c, d
    <2> QED BY <1>4
<1> QED
    BY <1>1, <1>3, <1>5, <1>6

LEMMA EntryIsRead ==
    ASSUME firmware \in Firmwares, firmware.madt # NoTable, NEW p \in 0 .. Len(Entries), HasRead(p),
           tables \in [Kinds -> Seq(Nat)], read < table_entries_size, p + 1 \in DOMAIN Entries,
           firmware' = firmware, read' = read + Entries[p + 1].length,
           tables' = IF Entries[p + 1].kind \in Kinds
                     THEN [tables EXCEPT ![Entries[p + 1].kind] = Append(@, p + 1)] ELSE tables
    PROVE  \E q \in 0 .. Len(Entries) : HasRead(q)'
<1> DEFINE len == Len(Entries)
           b == Bytes(Entries)
           e == Entries[p + 1]
<1>1. table_entries_size \in Nat /\ Entries \in Seq(Entry) /\ len \in Nat
    BY MadtIsTyped
<1>2. b \in [0 .. len -> Nat] /\ DOMAIN Entries = 1 .. len /\ \A i \in 1 .. len : b[i] = b[i - 1] + Entries[i].length
    BY <1>1, BytesAt
<1>3. p + 1 \in 1 .. len /\ p \in 0 .. len /\ (p + 1) - 1 = p
    BY <1>1, <1>2
<1>4. e.length \in Nat
    <2>1. e \in Entry
        BY <1>1, <1>2
    <2> QED
        BY <2>1 DEF Entry
<1>5. read = b[p] /\ read \in Nat /\ read' = read + e.length /\ read' = b[p + 1]
    BY <1>2, <1>3 DEF HasRead
<1>6. Entries' = Entries /\ table_entries_size' = table_entries_size
    BY DEF Entries, table_entries_size
<1>7. \A m \in 0 .. p - 1 : b[m] < read /\ b[m] < table_entries_size
    BY DEF HasRead
<1>8. CASE e.length = 0
    <2>1. read' = read
        BY <1>5, <1>8
    <2>2. p < len
        BY <1>3
    <2> HIDE DEF b, e
    <2>3. /\ read' = b[p]
          /\ \A m \in 0 .. p - 1 : b[m] < read' /\ b[m] < table_entries_size
          /\ read' < table_entries_size /\ p < len /\ e.length = 0
        BY <1>5, <1>7, <1>8, <2>1, <2>2
    <2>4. HasRead(p)'
        BY <1>6, <2>3 DEF HasRead, b, e
    <2> QED
        BY <1>6, <2>4
<1>9. CASE e.length # 0
    <2>1. \A k \in Kinds : Lists(tables[k], {i \in 1 .. p : Entries[i].kind = k})
        BY <1>9 DEF HasRead
    <2>2. \A k \in Kinds : Lists(tables'[k], {i \in 1 .. p + 1 : Entries[i].kind = k})
        <3> TAKE k \in Kinds
        <3> DEFINE S == {i \in 1 .. p : Entries[i].kind = k}
                   T == {i \in 1 .. p + 1 : Entries[i].kind = k}
        <3> SUFFICES Lists(tables'[k], T)
            OBVIOUS
        <3>1. p \in Nat /\ 1 .. p + 1 = (1 .. p) \cup {p + 1}
            BY <1>1, <1>3, SMTT(30)
        <3>2. Lists(tables[k], S)
            BY <2>1
        <3>3. CASE e.kind = k
            <4>1. T = S \cup {p + 1}
                BY <3>1, <3>3
            <4>2. tables'[k] = Append(tables[k], p + 1)
                BY <3>3
            <4>3. tables[k] \in Seq(Nat) /\ p + 1 \in Nat /\ \A i \in S : i < p + 1
                BY <3>1
            <4> HIDE DEF S, T
            <4> DEFINE s == tables[k]
                       i == p + 1
            <4>4. s \in Seq(Nat) /\ i \in Nat /\ (\A x \in S : x < i) /\ Lists(s, S)
                BY <3>2, <4>3
            <4> HIDE DEF s, i
            <4>5. Lists(Append(s, i), S \cup {i})
                BY <4>4, ListGrows
            <4> QED
                BY <4>1, <4>2, <4>5 DEF s, i
        <3>4. CASE e.kind # k
            <4>1. T = S
                BY <3>1, <3>4
            <4>2. tables'[k] = tables[k]
                BY <3>4
            <4> HIDE DEF S, T
            <4> QED
                BY <3>2, <4>1, <4>2
        <3> QED
            BY <3>3, <3>4
    <2>3. \A m \in 0 .. p : b[m] < read' /\ b[m] < table_entries_size
        <3> TAKE m \in 0 .. p
        <3>1. read < read' /\ read' \in Nat
            BY <1>4, <1>5, <1>9
        <3>2. b[m] \in Nat
            <4>1. m \in 0 .. len
                BY <1>3
            <4> QED
                BY ONLY <1>2, <4>1
        <3>3. CASE m = p
            BY <1>1, <1>5, <3>1, <3>3
        <3>4. CASE m # p
            <4>1. m \in 0 .. p - 1
                BY <1>3, <3>4
            <4> QED
                BY <1>5, <1>7, <3>1, <3>2, <4>1
        <3> QED
            BY <3>3, <3>4
    <2> HIDE DEF b
    <2>4. /\ read' = b[p + 1] /\ \A m \in 0 .. (p + 1) - 1 : b[m] < read' /\ b[m] < table_entries_size
          /\ \A k \in Kinds : Lists(tables'[k], {i \in 1 .. p + 1 : Entries[i].kind = k})
        BY <1>3, <1>5, <2>2, <2>3
    <2>5. HasRead(p + 1)'
        BY <1>6, <2>4 DEF HasRead, b, Lists, Range
    <2> QED
        BY <1>3, <1>6, <2>5
<1> QED
    BY <1>8, <1>9

LEMMA InitWalk == Init => WalkInv
<1> SUFFICES ASSUME Init
             PROVE  WalkInv
    OBVIOUS
<1>1. read = 0 /\ tables = [k \in Kinds |-> <<>>] /\ pc = "run_constructors"
    BY DEF Init
<1>2. tables \in [Kinds -> Seq(Nat)] /\ ~ Walking
    BY <1>1 DEF Walking
<1>3. Found <= MaxEntries
    <2>1. /\ tables["lapic"] = <<>> /\ tables["lapic_nmi"] = <<>> /\ tables["ioapic"] = <<>>
          /\ tables["interrupt_source_override"] = <<>>
        BY <1>1, KindsAre
    <2>2. Found = 0 + 0 + 0 + 0
        BY <2>1 DEF Found
    <2> QED
        BY <2>2, FirmwareAssumption
<1> QED
    BY <1>1, <1>2, <1>3 DEF WalkInv

LEMMA WalkStays ==
    ASSUME WalkInv, UNCHANGED <<firmware, madtVars>>, pc' = pc \/ (~ Walking /\ ~ Walking')
    PROVE  WalkInv'
<1>1. UNCHANGED <<read, tables, firmware>>
    BY DEF madtVars
<1>2. /\ Entries' = Entries /\ Found' = Found /\ (Walking' <=> Walking)
      /\ table_entries_size' = table_entries_size
    BY <1>1 DEF Entries, Found, Walking, table_entries_size
<1>3. \A p : HasRead(p)' <=> HasRead(p)
    BY <1>1, <1>2 DEF HasRead, Lists, Range
<1>4. pc' = "idle" => pc = "idle"
    BY DEF Walking
<1>5. (\E p \in 0 .. Len(Entries) : HasRead(p)) => (\E p \in 0 .. Len(Entries') : HasRead(p)')
    BY <1>2, <1>3
<1> QED
    BY <1>1, <1>2, <1>4, <1>5 DEF WalkInv

\* The walk begins with no entry read.
LEMMA WalkBegins ==
    ASSUME WalkInv, firmware \in Firmwares, firmware.madt # NoTable,
           UNCHANGED <<firmware, madtVars>>, ~ Walking, pc' = "load_entries"
    PROVE  WalkInv'
<1>1. UNCHANGED <<read, tables, firmware>>
    BY DEF madtVars
<1>2. Entries' = Entries /\ Found' = Found /\ table_entries_size' = table_entries_size
    BY <1>1 DEF Entries, Found, table_entries_size
<1>3. Entries \in Seq(Entry) /\ Len(Entries) \in Nat
    BY MadtIsTyped
<1>4. Bytes(Entries)[0] = 0
    BY <1>3, BytesAt
<1>5. read = 0 /\ \A k \in Kinds : tables[k] = <<>>
    BY DEF WalkInv
<1>6. HasRead(0)
    <2>1. \A m \in 0 .. 0 - 1 : FALSE
        OBVIOUS
    <2>2. \A k \in Kinds : Lists(tables[k], {i \in 1 .. 0 : Entries[i].kind = k})
        BY <1>5 DEF Lists, Range
    <2> QED
        BY <1>4, <1>5, <2>1, <2>2 DEF HasRead
<1>7. HasRead(0)'
    <2>1. \A p : HasRead(p)' <=> HasRead(p)
        BY <1>1, <1>2 DEF HasRead, Lists, Range
    <2> QED
        BY <1>6, <2>1
<1> QED
    BY <1>1, <1>2, <1>3, <1>7 DEF WalkInv, Walking

LEMMA LoadEntryKeeps ==
    ASSUME WalkInv, firmware \in Firmwares, LoadEntry
    PROVE  WalkInv'
<1>1. CASE Fault
    BY <1>1, WalkStays DEF Fault, bootVars
<1>2. CASE ~ Fault
    <2>1. At("load_entries") /\ read < table_entries_size /\ Walking /\ pc # "idle"
        BY DEF LoadEntry, At, Walking
    <2>2. firmware.madt # NoTable
        BY <2>1 DEF WalkInv
    <2>3. PICK p \in 0 .. Len(Entries) : HasRead(p)
        BY <2>1 DEF WalkInv
    <2>4. p + 1 \in DOMAIN Entries /\ Current = p + 1
        <3>1. Mapped
            BY <1>2 DEF LoadEntry
        <3> QED
            BY <2>2, <2>3, <3>1, CurrentIs
    <2> DEFINE kind == Entries[p + 1].kind
    <2>5. /\ ~ (kind \in Kinds /\ Found = MaxEntries)
          /\ read' = read + Entries[p + 1].length
          /\ tables' = IF kind \in Kinds THEN [tables EXCEPT ![kind] = Append(@, p + 1)] ELSE tables
          /\ UNCHANGED <<firmware, pc>>
        BY <1>2, <2>4 DEF LoadEntry, File, HeapFull
    <2>6. tables \in [Kinds -> Seq(Nat)] /\ Found <= MaxEntries
        BY DEF WalkInv
    <2>7. tables' \in [Kinds -> Seq(Nat)] /\ Found' <= MaxEntries
        <3>1. CASE kind \in Kinds
            <4>1. p + 1 \in Nat
                OBVIOUS
            <4>2. tables' = [tables EXCEPT ![kind] = Append(@, p + 1)] /\ Found # MaxEntries
                BY <2>5, <3>1
            <4> HIDE DEF kind
            <4> QED
                BY <2>6, <3>1, <4>1, <4>2, TablesGrow
        <3>2. CASE kind \notin Kinds
            BY <2>5, <2>6, <3>2 DEF Found
        <3> QED
            BY <3>1, <3>2
    <2>8. \E q \in 0 .. Len(Entries) : HasRead(q)'
        BY <2>1, <2>2, <2>3, <2>4, <2>5, <2>6, EntryIsRead
    <2>9. Entries' = Entries /\ Walking' /\ pc' # "idle"
        BY <2>1, <2>5 DEF Entries, Walking
    <2> QED
        BY <2>2, <2>5, <2>7, <2>8, <2>9 DEF WalkInv
<1> QED
    BY <1>1, <1>2

LEMMA IdleKeeps ==
    ASSUME WalkInv, Idle
    PROVE  WalkInv'
<1>1. /\ pc = "load_entries" /\ pc' = "idle" /\ read >= table_entries_size
      /\ UNCHANGED <<firmware, read, tables>>
    BY DEF Idle, At, Hcf, madtVars
<1>2. /\ Entries' = Entries /\ Found' = Found /\ Walking /\ Walking'
      /\ table_entries_size' = table_entries_size
    BY <1>1 DEF Entries, Found, Walking, table_entries_size
<1>3. PICK p \in 0 .. Len(Entries) : HasRead(p)
    BY <1>2 DEF WalkInv
<1>4. HasRead(p)'
    BY <1>1, <1>2, <1>3 DEF HasRead, Lists, Range
<1> QED
    BY <1>1, <1>2, <1>4 DEF WalkInv

LEMMA NextKeepsWalk ==
    ASSUME WalkInv, firmware \in Firmwares, [Next]_vars
    PROVE  WalkInv'
<1>1. ASSUME NEW from, NEW to, Step(from, to), UNCHANGED madtVars,
             from \notin {"load_entries", "idle"}, to \notin {"load_entries", "idle"}
      PROVE  WalkInv'
    BY <1>1, WalkStays DEF Step, At, Walking
<1>2. ASSUME NEW from, At(from), Hcf("hcf"), UNCHANGED madtVars, from \notin {"load_entries", "idle"}
      PROVE  WalkInv'
    BY <1>2, WalkStays DEF Hcf, At, Walking
<1>3. Fault => WalkInv'
    BY WalkStays DEF Fault, bootVars
<1>4. RunConstructors \/ SetupBspPercpu \/ InitGdt \/ InitIdt \/ InitHeap \/ InitClocksource => WalkInv'
    BY <1>1 DEF RunConstructors, SetupBspPercpu, InitGdt, InitIdt, InitHeap, InitClocksource
<1>5. InitPma \/ InitVma \/ HeapFailed \/ InitEarlyAcpi => WalkInv'
    BY <1>1, <1>2, <1>3 DEF InitPma, InitVma, HeapFailed, InitEarlyAcpi
<1>6. UacpiCalls => WalkInv'
    BY WalkStays DEF UacpiCalls, bootVars
<1>7. ASSUME UacpiReturns
      PROVE  WalkInv'
    <2>1. CASE At("uacpi") /\ Hcf("hcf")
        BY <1>2, <1>7, <2>1 DEF UacpiReturns
    <2>2. CASE At("uacpi") /\ pc' = "clocksource" /\ UNCHANGED firmware
        BY <1>7, <2>2, WalkStays DEF UacpiReturns, At, Walking
    <2> QED
        BY <1>7, <2>1, <2>2 DEF UacpiReturns
<1>8. ASSUME InitIrqs
      PROVE  WalkInv'
    <2>1. CASE firmware.madt # NoTable
        BY <1>8, <2>1, WalkBegins DEF InitIrqs, Step, At, Walking
    <2>2. CASE firmware.madt = NoTable
        BY <1>2, <1>8, <2>2 DEF InitIrqs
    <2> QED
        BY <2>1, <2>2
<1>9. HandlerHalt \/ Stub \/ Interrupt \/ UNCHANGED vars => WalkInv'
    BY WalkStays DEF HandlerHalt, Stub, Interrupt, vars, bootVars
<1> QED
    BY <1>4, <1>5, <1>6, <1>7, <1>8, <1>9, LoadEntryKeeps, IdleKeeps DEF Next, KernelStep

\* The walk ends only where the table is not shorter than its header: the size has wrapped
\* otherwise, and memory ends before that.
LEMMA SizeIsExact ==
    ASSUME firmware \in Firmwares, firmware.madt # NoTable, NEW p \in 0 .. Len(Entries), HasRead(p),
           read >= table_entries_size
    PROVE  /\ MadtHeader <= firmware.madt.length
           /\ table_entries_size = firmware.madt.length - MadtHeader
<1> DEFINE b == Bytes(Entries)
           len == Len(Entries)
           length == firmware.madt.length
           h == MadtHeader
           W == TwoTo[Bits]
           size == table_entries_size
<1>1. /\ Entries \in Seq(Entry) /\ len \in Nat /\ length \in Nat /\ h \in Nat /\ W \in Nat \ {0}
      /\ length <= h + b[len] /\ h + b[len] < W /\ size = (length - h) % W
    BY MadtIsTyped DEF table_entries_size
<1>2. b \in [0 .. len -> Nat] /\ \A n \in p .. len : b[p] <= b[n]
    BY <1>1, BytesAt, BytesGrow
<1>3. read = b[p] /\ read >= size
    BY DEF HasRead
<1> HIDE DEF b, len, length, h, W, size
<1>4. p \in 0 .. len
    BY DEF len
<1>5. b[p] \in Nat /\ b[len] \in Nat /\ b[p] <= b[len]
    <2>1. len \in p .. len /\ len \in 0 .. len
        BY <1>1, <1>4
    <2> QED
        BY <1>2, <1>4, <2>1
<1>6. CASE length < h
    <2>1. length - h + W \in 0 .. W - 1 /\ length - h = W * (-1) + (length - h + W) /\ length - h \in Int /\ -1 \in Int
        BY <1>1, <1>5, <1>6
    <2>2. (length - h) % W = length - h + W
        <3> DEFINE r == length - h + W
                   a == length - h
                   q == -1
        <3>1. r \in 0 .. W - 1 /\ a = W * q + r /\ a \in Int /\ q \in Int
            BY <2>1
        <3> HIDE DEF r, a, q
        <3>2. a % W = r
            BY <1>1, <3>1, ResidueIs
        <3> QED
            BY <3>2 DEF r, a
    <2> QED
        BY <1>1, <1>3, <1>5, <2>2
<1>7. CASE ~ (length < h)
    <2>1. length - h \in 0 .. W - 1
        BY <1>1, <1>5, <1>7
    <2>2. (length - h) % W = length - h
        BY <1>1, <2>1
    <2> QED
        BY <1>1, <1>7, <2>2, SMTT(30) DEF length, h, size
<1> QED
    BY <1>6, <1>7

\* At the end every entry has been read that begins within the table.
LEMMA WalkEnds == WalkInv /\ firmware \in Firmwares => CollectsEveryEntry
<1> SUFFICES ASSUME WalkInv, firmware \in Firmwares, pc = "idle"
             PROVE  CollectsEveryEntry
    BY DEF CollectsEveryEntry
<1> DEFINE len == Len(Entries)
           b == Bytes(Entries)
           length == firmware.madt.length
           h == MadtHeader
           size == table_entries_size
<1>1. firmware.madt # NoTable /\ read >= size
    BY DEF WalkInv, Walking
<1>2. PICK p \in 0 .. len : HasRead(p)
    BY DEF WalkInv, Walking
<1>3. size \in Nat /\ Entries \in Seq(Entry) /\ len \in Nat /\ length \in Nat /\ h \in Nat
    BY <1>1, MadtIsTyped
<1>4. b \in [0 .. len -> Nat] /\ DOMAIN Entries = 1 .. len
    BY <1>3, BytesAt
<1>5. \A n \in p .. len : b[p] <= b[n]
    BY <1>3, BytesGrow
<1>6. read = b[p] /\ \A m \in 0 .. p - 1 : b[m] < size
    BY <1>2 DEF HasRead
<1>7. read \in Nat
    BY <1>4, <1>6
<1>8. \A k \in Kinds : Lists(tables[k], {i \in 1 .. p : Entries[i].kind = k})
    <2>1. ~ (read < size)
        BY <1>1, <1>3, <1>7
    <2> QED
        BY <1>2, <2>1 DEF HasRead
<1>9. h <= length /\ size = length - h
    BY <1>1, <1>2, SizeIsExact
<1>10. \A i \in 1 .. len : i \in 1 .. p <=> h + Begin(i) < length
    <2> TAKE i \in 1 .. len
    <2>1. Begin(i) = b[i - 1]
        BY DEF Begin
    <2> HIDE DEF b, len, size, length, h
    <2>2. CASE i <= p
        <3>1. i - 1 \in 0 .. p - 1 /\ i - 1 \in 0 .. len
            BY <1>3, <2>2
        <3>2. b[i - 1] \in Nat /\ b[i - 1] < size
            BY <1>4, <1>6, <3>1
        <3> QED
            BY <1>3, <1>9, <2>1, <2>2, <3>2
    <2>3. CASE ~ (i <= p)
        <3>1. i - 1 \in p .. len /\ i - 1 \in 0 .. len
            BY <1>3, <2>3
        <3>2. b[p] <= b[i - 1] /\ b[i - 1] \in Nat
            BY <1>4, <1>5, <3>1
        <3> QED
            BY <1>1, <1>3, <1>6, <1>7, <1>9, <2>1, <2>3, <3>2
    <2> QED
        BY <2>2, <2>3
<1>11. \A k \in Kinds :
        {i \in 1 .. p : Entries[i].kind = k} = {i \in DOMAIN Entries : Entries[i].kind = k /\ h + Begin(i) < length}
    <2>1. \A i \in 1 .. p : i \in 1 .. len
        BY <1>3
    <2> QED
        BY <1>4, <1>10, <2>1
<1>12. h <= length
    BY <1>9
<1> QED
    BY <1>8, <1>11, <1>12 DEF Lists, CollectsEveryEntry

-----------------------------------------------------------------------------
(* The theorems. *)

IInv == CpuInv /\ OrderInv /\ GlueInv /\ WalkInv

\* Frames on the stack, the order of the boot, uACPI's objects and the walk of the MADT: each
\* step of the kernel, of uACPI and of the processor keeps what the properties need of them.
THEOREM InductiveInvariant == Spec => []IInv
<1>1. Init => IInv
    BY InitOrder, InitObjects, InitWalk DEF IInv, Init
<1>2. IInv /\ [Next]_vars => IInv'
    <2> SUFFICES ASSUME IInv, [Next]_vars
                 PROVE  IInv'
        OBVIOUS
    <2>1. CpuInv' /\ OrderInv'
        BY NextKeepsOrder DEF IInv
    <2>2. GlueInv'
        BY NextKeepsObjects DEF IInv
    <2>3. WalkInv'
        BY NextKeepsWalk DEF IInv, OrderInv
    <2> QED
        BY <2>1, <2>2, <2>3 DEF IInv
<1> QED
    BY <1>1, <1>2, PTL DEF Spec

\* Whatever was interrupted, and however deep, and in the middle of a stub too, a handler is
\* called on an aligned stack and finds in Registers the vector, the error code and what the
\* processor held.
THEOREM FramesTruth == Spec => []FrameTellsTruth
<1>1. IInv => FrameTellsTruth
    BY FramesTellTruth DEF IInv, CpuInv
<1> QED
    BY <1>1, InductiveInvariant, PTL

\* Only the handler of a software interrupt returns, and to what it was taken from.
THEOREM Returns == Spec => ReturnsWhereTaken
<1>1. IInv /\ [Next]_vars =>
        [Len(taken') < Len(taken) =>
            /\ taken' = Front(taken) /\ Top.vector >= 32
            /\ cpu' = Top.cpu /\ Len(stack') = Top.rsp /\ stack' = SubSeq(stack, 1, Top.rsp)]_cpuVars
    <2> SUFFICES ASSUME IInv, [Next]_vars, Len(taken') < Len(taken)
                 PROVE  /\ taken' = Front(taken) /\ Top.vector >= 32
                        /\ cpu' = Top.cpu /\ Len(stack') = Top.rsp /\ stack' = SubSeq(stack, 1, Top.rsp)
        OBVIOUS
    <2>1. Len(taken) \in Nat /\ taken \in Seq(Taken)
        BY DEF IInv, CpuInv, StackInv
    <2>2. ASSUME NEW v \in 0 .. 255, Take(v)
          PROVE  FALSE
        <3>1. taken' = taken \/ \E t : taken' = Append(taken, t)
            BY <2>2 DEF Take
        <3>2. Len(taken') = Len(taken) \/ Len(taken') = Len(taken) + 1
            BY <2>1, <3>1
        <3> QED
            BY <2>1, <3>2
    <2>3. taken' # taken
        BY <2>1
    <2>4. ~ PageFault /\ ~ Halt
        BY <2>2, <2>3 DEF PageFault, Halt
    <2>5. ~ KernelStep
        <3>1. \A from, to : ~ Step(from, to)
            BY <2>3 DEF Step, cpuVars
        <3>2. \A step : ~ Hcf(step)
            BY <2>4 DEF Hcf
        <3>3. ~ Fault /\ ~ GlueCall
            BY <2>3, <2>4, GlueCallShape DEF Fault, cpuVars
        <3>4. ~ RunConstructors /\ ~ SetupBspPercpu /\ ~ InitGdt /\ ~ InitIdt /\ ~ InitPma /\ ~ InitVma
            BY <3>1, <3>2, <3>3 DEF RunConstructors, SetupBspPercpu, InitGdt, InitIdt, InitPma, InitVma
        <3>5. ~ InitHeap /\ ~ HeapFailed /\ ~ InitEarlyAcpi /\ ~ UacpiCalls /\ ~ InitClocksource /\ ~ InitIrqs
            BY <3>1, <3>2, <3>3 DEF InitHeap, HeapFailed, InitEarlyAcpi, UacpiCalls, InitClocksource, InitIrqs
        <3>6. ~ UacpiReturns /\ ~ LoadEntry /\ ~ Idle
            BY <2>3, <3>2, <3>3 DEF UacpiReturns, LoadEntry, File, Idle, cpuVars
        <3> QED
            BY <3>4, <3>5, <3>6 DEF KernelStep
    <2>6. ~ Interrupt /\ ~ HandlerHalt /\ ~ UNCHANGED vars
        <3>1. Exception \/ SoftwareInterrupt => \E v \in Exceptions \cup Software : Take(v)
            BY DEF Exception, SoftwareInterrupt
        <3>2. \A v \in Exceptions \cup Software : v \in 0 .. 255
            BY VectorsAssumption
        <3>3. ~ Interrupt
            BY <2>2, <3>1, <3>2 DEF Interrupt
        <3> QED
            BY <2>3, <2>4, <3>3 DEF HandlerHalt, InterruptHalt, vars, cpuVars
    <2>7. Stub
        BY <2>5, <2>6 DEF Next
    <2>8. Iretq
        BY <2>7, StubStepKeeps DEF IInv, Stub, Steady
    <2> QED
        BY <2>8, ReturnRestores DEF IInv, CpuInv
<1> QED
    BY <1>1, InductiveInvariant, PTL DEF Spec, ReturnsWhereTaken

\* Each step of the boot finds what those before it were to provide, whatever is missing and
\* whatever arrives.
THEOREM Order == Spec => []BootOrder
<1>1. IInv => BootOrder
    <2> SUFFICES ASSUME IInv
                 PROVE  BootOrder
        OBVIOUS
    <2>1. TypeOK
        <3>1. /\ DOMAIN cpu = Names /\ Depth <= MaxDepth
              /\ hlt \in BOOLEAN /\ masked \in BOOLEAN /\ reset \in BOOLEAN
            BY DEF IInv, CpuInv, StackInv
        <3>2. \A h \in DOMAIN objects : h <= MaxObjects /\ objects[h].kind \in {"io", "lock", "memory"}
            BY DEF IInv, GlueInv, Object
        <3>3. range.start \in 0 .. TwoTo[Bits] - 1 /\ range.length \in 0 .. TwoTo[Bits] - 1
            BY DEF IInv, OrderInv
        <3> QED
            BY <3>1, <3>2, <3>3 DEF IInv, OrderInv, GlueInv, WalkInv, TypeOK
    <2>2. ReadyWhenUsed
        BY DEF IInv, OrderInv, ReadyWhenUsed, HeapUsers, Early
    <2>3. ResetsOnlyEarly
        BY DEF IInv, OrderInv, ResetsOnlyEarly
    <2> QED
        BY <2>1, <2>2, <2>3 DEF BootOrder
<1> QED
    BY <1>1, InductiveInvariant, PTL

\* The heap is between what the direct map covers and the kernel.
THEOREM HeapPlaced == Spec => []HeapApart
<1>1. IInv => HeapApart
    BY HeapLiesApart DEF IInv
<1> QED
    BY <1>1, InductiveInvariant, PTL

\* What uACPI cannot reach any more is a lock that is free.
THEOREM NothingElseLeaks == Spec => []OnlyLocksLeak
<1>1. IInv => OnlyLocksLeak
    BY LocksLeak DEF IInv
<1> QED
    BY <1>1, InductiveInvariant, PTL

\* An access by a window touches that window's ports.
THEOREM PortsOfTheWindow == Spec => []PortsInWindow
<1>1. IInv => PortsInWindow
    BY PortsStay DEF IInv
<1> QED
    BY <1>1, InductiveInvariant, PTL

\* A boot that ends well has filed every entry of the MADT, once and in order.
THEOREM EveryEntryCollected == Spec => []CollectsEveryEntry
<1>1. IInv => CollectsEveryEntry
    BY WalkEnds DEF IInv, OrderInv
<1> QED
    BY <1>1, InductiveInvariant, PTL

==============================================================================
