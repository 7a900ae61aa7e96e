---------------------------- MODULE FunctionBody ----------------------------
(***************************************************************************)
(* What building a function promises, without arenas or handles: a list of *)
(* blocks, each a list of instructions that only grows at its end and only *)
(* until the block is closed; one block at a time is written; the first    *)
(* mistake is remembered, after it no block changes, and a function comes  *)
(* out only if there was none.                                             *)
(***************************************************************************)
EXTENDS Naturals, Sequences

CONSTANT NoError

VARIABLES
    bodies,     \* per block its instructions, and whether it is closed
    target,     \* the block being written, or 0
    mistake,    \* the first one, or NoError
    delivered   \* "no" until the builder is consumed, then "function" or "error"

bvars == <<bodies, target, mistake, delivered>>

Empty == [code |-> <<>>, closed |-> FALSE]

Init ==
    /\ bodies = <<Empty>>
    /\ target = 1
    /\ mistake = NoError
    /\ delivered = "no"

Writable == mistake = NoError /\ target # 0 /\ ~bodies[target].closed

NewBlock == bodies' = Append(bodies, Empty) /\ UNCHANGED <<target, mistake, delivered>>

Target == target' \in 1 .. Len(bodies) /\ UNCHANGED <<bodies, mistake, delivered>>

\* One instruction more, whichever it is.
Extend ==
    /\ Writable
    /\ Len(bodies'[target].code) = Len(bodies[target].code) + 1
    /\ LET instruction == bodies'[target].code[Len(bodies[target].code) + 1]
       IN  bodies' = [bodies EXCEPT ![target].code = Append(@, instruction)]
    /\ UNCHANGED <<target, mistake, delivered>>

Close ==
    /\ Writable
    /\ bodies' = [bodies EXCEPT ![target].closed = TRUE]
    /\ target' = 0
    /\ UNCHANGED <<mistake, delivered>>

Mistake ==
    /\ mistake = NoError
    /\ mistake' # NoError
    /\ UNCHANGED <<bodies, target, delivered>>

Deliver ==
    /\ delivered' = IF mistake = NoError THEN "function" ELSE "error"
    /\ UNCHANGED <<bodies, target, mistake>>

Next == delivered = "no" /\ (NewBlock \/ Target \/ Extend \/ Close \/ Mistake \/ Deliver)

Spec == Init /\ [][Next]_bvars
=============================================================================
