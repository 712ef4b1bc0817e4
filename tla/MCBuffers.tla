------------------------------- MODULE MCBuffers -------------------------------
(***************************************************************************)
(* The containers built on utils/buffer.c, each in a behaviour of its own: *)
(* the pipe with writers and readers that register, the pipe with readers  *)
(* that copy and writers that reserve, the dual buffer, and the allocation *)
(* of all of them.  Which one it is, is chosen at the beginning.           *)
(***************************************************************************)
EXTENDS PipeBuffer, DualBuffer, Allocation

VARIABLE use

mcvars == <<buffers, pipe, dual, allocation, use>>

MCInit ==
  /\ PipeInit /\ DualInit /\ AllocInit
  /\ use \in {"pipe", "copies", "dual", "allocation"}

InPipe  == use \in {"pipe", "copies"} /\ UNCHANGED <<bvars, dual, allocation, use>>
InDual  == use = "dual" /\ UNCHANGED <<pipe, allocation, use>>
InAlloc == use = "allocation" /\ UNCHANGED <<buffers, pipe, dual, use>>

MCPipeStep(t) == PipeStep(t) /\ InPipe
MCDualStep(t) == DualStep(t) /\ InDual

MCNext ==
  \/ \E t \in Threads :
       \/ use = "pipe" /\ ReadStart(t) /\ InPipe
       \/ use = "copies" /\ (CopyToUser(t) \/ PipeReserve(t)) /\ InPipe
       \/ CopyFromUser(t) /\ InPipe
       \/ Killed(t) /\ InPipe
       \/ MCPipeStep(t)
       \/ DualCall(t) /\ InDual
       \/ MCDualStep(t)
  \/ AllocNext /\ InAlloc

MCSpec == MCInit /\ [][MCNext]_mcvars

=============================================================================
