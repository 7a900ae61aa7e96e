------------------------------- MODULE Tracer -------------------------------
(***************************************************************************)
(* The inspector that records a trace (evm-testkit, trace.rs), as          *)
(* operators on its state, a record t.  A step keeps what the frames and   *)
(* the gas of a trace are told by; its pc, mnemonic and stack are copied   *)
(* from the interpreter and left out.                                      *)
(***************************************************************************)
EXTENDS EvmIsa, Integers, FiniteSetsExt

NewTracer == [steps |-> <<>>, depth |-> 0, frames |-> <<>>, frames_seen |-> 0]

saturating_sub(a, b) == IF a >= b THEN a - b ELSE 0

\* A fault: a frame known by its depth, which two siblings share.
enter_frame_ByDepth(t) ==
  [t EXCEPT !.frames = Append(@, t.depth + 1), !.depth = @ + 1]

enter_frame(t) ==
  [t EXCEPT !.frames_seen = @ + 1, !.frames = Append(@, t.frames_seen + 1), !.depth = @ + 1]

leave_frame(t) ==
  [t EXCEPT !.frames = SubSeq(@, 1, Len(@) - 1), !.depth = saturating_sub(@, 1)]

\* The hooks around an instruction, given the gas left before and after it.
step(t, opcode, remaining) ==
  LET frame == IF t.frames = <<>> THEN 0 ELSE t.frames[Len(t.frames)]
  IN  [t EXCEPT !.steps = Append(@, [depth |-> t.depth, frame |-> frame, opcode |-> opcode,
                                     gas_remaining |-> remaining, gas_cost |-> 0])]

step_end(t, remaining) ==
  [t EXCEPT !.steps[Len(t.steps)].gas_cost =
     saturating_sub(t.steps[Len(t.steps)].gas_remaining, remaining)]

opens_frame(opcode) == Defined(opcode) /\ by_byte(opcode).category = "Call"

\* A fault: the next instruction of any frame at the same depth.
charge_frame_openers_ByDepth(steps) ==
  [i \in DOMAIN steps |->
     LET later == { j \in i + 1 .. Len(steps) : steps[j].depth = steps[i].depth }
     IN  IF opens_frame(steps[i].opcode) /\ later # {}
           THEN [steps[i] EXCEPT !.gas_cost =
                   saturating_sub(steps[i].gas_remaining, steps[Min(later)].gas_remaining)]
           ELSE steps[i]]

\* From the last step back, next_in_frame holds the next step of each frame.
charge_frame_openers(steps) ==
  [i \in DOMAIN steps |->
     LET later == { j \in i + 1 .. Len(steps) : steps[j].frame = steps[i].frame }
     IN  IF opens_frame(steps[i].opcode) /\ later # {}
           THEN [steps[i] EXCEPT !.gas_cost =
                   saturating_sub(steps[i].gas_remaining, steps[Min(later)].gas_remaining)]
           ELSE steps[i]]

\* Depths are rebased on the shallowest.
finish(t) ==
  LET charged == charge_frame_openers(t.steps)
      depths  == { charged[i].depth : i \in DOMAIN charged }
  IN  [i \in DOMAIN charged |-> [charged[i] EXCEPT !.depth = @ - Min(depths)]]
=============================================================================
