----------------------------- MODULE Deployment -----------------------------
(***************************************************************************)
(* Initcode run as the frame of a CREATE by the EVM, which is outside the  *)
(* repository (revm): the instructions a prologue is made of.  Anything    *)
(* else, or too few operands, stops the frame short of returning.          *)
(***************************************************************************)
EXTENDS Deployer

VARIABLES
  ip,        \* offset of the next instruction
  stack,     \* operand stack, top first
  memory,    \* the frame's memory
  returned,  \* the frame has returned
  deployed   \* the code it returned

frame == <<ip, stack, memory, returned, deployed>>

ByteAt(c, i) == IF i + 1 \in 1 .. Len(c) THEN c[i + 1] ELSE 0
Slice(c, at, len) == [i \in 1 .. len |-> ByteAt(c, at + i - 1)]

\* What the digits of an immediate stand for.
Value(digits) ==
  LET V[i \in 0 .. Len(digits)] ==
        IF i = 0 THEN 0 ELSE V[i - 1] * ByteBase + digits[i]
  IN  V[Len(digits)]

Fetch(opcodes) == ~returned /\ initcode # <<>> /\ ByteAt(initcode, ip) \in opcodes
Pop(n)         == SubSeq(stack, n + 1, Len(stack))

ExecPush ==
  /\ Fetch(95 .. 95 + MaxWidth)
  /\ LET n == initcode[ip + 1] - 95
     IN  /\ stack' = <<Value(Slice(initcode, ip + 1, n))>> \o stack
         /\ ip' = ip + 1 + n
  /\ UNCHANGED <<memory, returned, deployed>>

ExecDup1 ==
  /\ Fetch({128}) /\ Len(stack) >= 1
  /\ stack' = <<stack[1]>> \o stack
  /\ ip' = ip + 1
  /\ UNCHANGED <<memory, returned, deployed>>

\* CODECOPY to offset zero, the only destination a prologue names.
ExecCodeCopy ==
  /\ Fetch({57}) /\ Len(stack) >= 3 /\ stack[1] = 0
  /\ memory' = Slice(initcode, stack[2], stack[3])
  /\ stack' = Pop(3)
  /\ ip' = ip + 1
  /\ UNCHANGED <<returned, deployed>>

ExecReturn ==
  /\ Fetch({243}) /\ Len(stack) >= 2
  /\ deployed' = Slice(memory, stack[1], stack[2])
  /\ returned' = TRUE
  /\ stack' = Pop(2)
  /\ UNCHANGED <<ip, memory>>

DeployInit ==
  Init /\ ip = 0 /\ stack = <<>> /\ memory = <<>> /\ returned = FALSE /\ deployed = <<>>
=============================================================================
