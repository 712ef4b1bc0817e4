------------------------------- MODULE ByteFifo -------------------------------
(***************************************************************************)
(* What a ring of bytes promises the threads that share it: a bounded      *)
(* first-in first-out channel.  The bytes accepted from all the writers    *)
(* are numbered 0, 1, 2, ... in the order of acceptance; the channel holds *)
(* the bytes taken .. sent - 1, and a reader is always handed the next     *)
(* ones, in order.  One slot stays free, so that a full channel is never   *)
(* taken for an empty one.                                                 *)
(*                                                                         *)
(* The promise is made to callers that keep the contract of the ring: the  *)
(* first call that breaks it clears ok, and from then on nothing is        *)
(* promised.                                                               *)
(***************************************************************************)
EXTENDS Integers

CONSTANTS
  Capacity,  (* slots of the channel                                       *)
  Clients,   (* the threads that read                                      *)
  DstLen,    (* bytes of a reader's destination buffer                     *)
  Blank      (* what a destination buffer holds before anything is read    *)

VARIABLES
  sent,      (* bytes accepted so far                                      *)
  taken,     (* bytes handed to readers so far                             *)
  out,       (* the destination buffer of each reader                      *)
  ok         (* every call so far has kept the contract                    *)

fifoVars == <<sent, taken, out, ok>>

Init ==
  /\ sent = 0
  /\ taken = 0
  /\ out = [c \in Clients |-> [j \in 0 .. DstLen - 1 |-> Blank]]
  /\ ok = TRUE

(* n more bytes enter; one slot stays free.                                *)
Accept(n) ==
  /\ ok
  /\ (sent - taken) + n < Capacity
  /\ sent' = sent + n
  /\ UNCHANGED <<taken, out, ok>>

(* Reader c gets the next n bytes at the start of its buffer.              *)
Deliver(c, n) ==
  /\ ok
  /\ taken + n <= sent
  /\ taken' = taken + n
  /\ out' = [out EXCEPT ![c] =
               [j \in 0 .. DstLen - 1 |-> IF j < n THEN taken + j ELSE out[c][j]]]
  /\ UNCHANGED <<sent, ok>>

(* The contract is broken, or was broken before: anything may happen.      *)
Broken == ok' = FALSE

Next ==
  \/ \E n \in 0 .. Capacity - 1 : Accept(n)
  \/ \E c \in Clients, n \in 0 .. DstLen : Deliver(c, n)
  \/ Broken

Spec == Init /\ [][Next]_fifoVars

=============================================================================
