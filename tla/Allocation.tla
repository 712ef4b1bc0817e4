------------------------------ MODULE Allocation ------------------------------
(***************************************************************************)
(* How the containers of utils/ are allocated and freed.  Each get_...     *)
(* function is a ladder: it allocates its parts one after the other, and   *)
(* when one fails, it jumps to the label that frees those before it and    *)
(* returns NULL, which its caller takes for a failed part.  Memory is      *)
(* counted in blocks, one for each kmalloc.                                *)
(***************************************************************************)
EXTENDS Integers, SequencesExt

CONSTANTS
  Wanted,   (* the containers that are asked for                           *)
  MaxGets   (* bound: calls                                                *)

(* The parts of each, in the order they are allocated in: the struct, its  *)
(* implementation and what that holds.                                     *)
RingParts   == <<"block", "block", "block">>
BufferParts == <<"block", "block", "block">>
PipeParts   == <<"block", "block", "buffer">>
DualParts   == <<"block", "block", "buffer", "buffer">>
DuplexRingParts == <<"block", "block", "ring", "ring", "block", "block">>
DuplexPipeParts == <<"block", "block", "pipe", "pipe", "block", "block">>

Parts == [ring |-> RingParts, buffer |-> BufferParts, pipe |-> PipeParts, dual |-> DualParts,
          duplex_ring |-> DuplexRingParts, duplex_pipe |-> DuplexPipeParts]
Kinds == DOMAIN Parts
Duplex == {"duplex_ring", "duplex_pipe"}

ASSUME AllocationAssumption == Wanted \subseteq Kinds

(* What put_... frees: all parts, but not the ends of a duplex.            *)
PutParts(k) == IF k \in Duplex THEN SubSeq(Parts[k], 1, 4) ELSE Parts[k]

Put[p \in Kinds \cup {"block"}] ==
  IF p = "block" THEN 1 ELSE FoldSeq(LAMBDA q, n : Put[q] + n, 0, PutParts(p))

(* Slip: the label below the right one.                                    *)
UndoneLess(k, rung) ==
  FoldSeq(LAMBDA p, n : Put[p] + n, 0, SubSeq(Parts[k], 1, rung - 2))

(* What the labels free when a part fails: those before it, as put does,   *)
(* except that a dual buffer gives back its first buffer with kfree.       *)
Undone(k, rung) ==
  IF k = "dual" /\ rung = 4 THEN 3
  ELSE FoldSeq(LAMBDA p, n : Put[p] + n, 0, SubSeq(Parts[k], 1, rung - 1))

VARIABLES
  live,     (* blocks allocated and not freed                              *)
  ladders,  (* the calls under way, the innermost one first                *)
  failing,  (* a part has failed                                           *)
  owned,    (* history: the containers got and not put                     *)
  puts,     (* history: the duplexes put                                   *)
  torn,     (* history: the dual buffers that got one buffer only          *)
  gets      (* history: calls                                              *)

allocation == <<live, ladders, failing, owned, puts, torn, gets>>

AllocInit ==
  /\ live = 0 /\ ladders = <<>> /\ failing = FALSE
  /\ owned = [k \in Kinds |-> 0]
  /\ puts = 0 /\ torn = 0 /\ gets = 0

Frame(k) == [kind |-> k, rung |-> 1]
Top == Head(ladders)
Part == Parts[Top.kind][Top.rung]
Climb(s) == [s EXCEPT ![1].rung = @ + 1]
Climbing == ladders # <<>> /\ ~failing
OnRung == Climbing /\ Top.rung <= Len(Parts[Top.kind])

Get(k) ==
  /\ ladders = <<>> /\ gets < MaxGets
  /\ ladders' = <<Frame(k)>>
  /\ gets' = gets + 1
  /\ UNCHANGED <<live, failing, owned, puts, torn>>

Kmalloc ==
  /\ OnRung /\ Part = "block"
  /\ \/ live' = live + 1 /\ ladders' = Climb(ladders) /\ UNCHANGED failing
     \/ failing' = TRUE /\ UNCHANGED <<live, ladders>>
  /\ UNCHANGED <<owned, puts, torn, gets>>

GetPart ==
  /\ OnRung /\ Part # "block"
  /\ ladders' = <<Frame(Part)>> \o ladders
  /\ UNCHANGED <<live, failing, owned, puts, torn, gets>>

Return ==
  /\ Climbing /\ Top.rung > Len(Parts[Top.kind])
  /\ ladders' = IF Len(ladders) = 1 THEN <<>> ELSE Climb(Tail(ladders))
  /\ owned' = IF Len(ladders) = 1 THEN [owned EXCEPT ![Top.kind] = @ + 1] ELSE owned
  /\ UNCHANGED <<live, failing, puts, torn, gets>>

Unwind ==
  /\ failing
  /\ live' = live - Undone(Top.kind, Top.rung)
  /\ torn' = IF Top.kind = "dual" /\ Top.rung = 4 THEN torn + 1 ELSE torn
  /\ ladders' = Tail(ladders)
  /\ failing' = (Len(ladders) > 1)
  /\ UNCHANGED <<owned, puts, gets>>

PutBack(k) ==
  /\ ladders = <<>> /\ owned[k] > 0
  /\ live' = live - Put[k]
  /\ owned' = [owned EXCEPT ![k] = @ - 1]
  /\ puts' = IF k \in Duplex THEN puts + 1 ELSE puts
  /\ UNCHANGED <<ladders, failing, torn, gets>>

AllocNext ==
  Kmalloc \/ GetPart \/ Return \/ Unwind \/ \E k \in Wanted : Get(k) \/ PutBack(k)

AllocSpec == AllocInit /\ [][AllocNext]_allocation

(* Between two calls the memory in use is what the containers that were    *)
(* got and not put consist of, and nothing more, whatever failed, but for  *)
(* two kinds of blocks: both ends of every duplex that was put, and two    *)
(* blocks of the first buffer of every dual buffer that got no second one. *)
Blocks[p \in Kinds \cup {"block"}] ==
  IF p = "block" THEN 1 ELSE FoldSeq(LAMBDA q, n : Blocks[q] + n, 0, Parts[p])

HeapExact ==
  ladders = <<>> =>
    live = FoldFunction(LAMBDA a, b : a + b, 0, [k \in Kinds |-> owned[k] * Blocks[k]])
           + 2 * puts + 2 * torn

=============================================================================
