------------------------------ MODULE RingIndex ------------------------------
(***************************************************************************)
(* The index arithmetic of utils/ring_buffer.c: how _write_impl and        *)
(* _read_impl split a request into a chunk at the current index and a      *)
(* chunk at the beginning of the ring, and what the two unlocked queries   *)
(* answer.  All of it is computed on C unsigned ints: a difference that    *)
(* would be negative wraps around modulo Word.                             *)
(***************************************************************************)
EXTENDS Integers

CONSTANTS
  Size,   (* ring->size, the number of bytes of the ring                   *)
  Word    (* the modulus of unsigned int, 2^32 in the build                *)

(* get_duplex_ring_buffer allocates rings of size/2, size an unsigned int. *)
ASSUME RingAssumption ==
  /\ Size \in Nat \ {0}
  /\ Word \in Nat
  /\ 2 * Size < Word

Index == 0 .. Size - 1

UMin(a, b) == IF a < b THEN a ELSE b
USub(a, b) == (a - b) % Word

(* Slips: the modulo taken as a mask would be; no modulo.                  *)
AdvanceMasked(idx, n) == ((idx + n) % Word) % (Size - 1)
AdvanceUnwrapped(idx, n) == (idx + n) % Word

(* The index after n more bytes, as both implementations store it.         *)
Advance(idx, n) == ((idx + n) % Word) % Size

-----------------------------------------------------------------------------
(* ring_buffer_n_bytes_readable and ring_buffer_n_bytes_writable.          *)

Readable(rd, wr) == IF rd > wr THEN Size - (rd - wr) ELSE wr - rd
Writable(rd, wr) == IF rd > wr THEN rd - wr ELSE Size - (wr - rd)

(* Slip: the first chunk may be as long as the ring.                       *)
WriteFromIdxUncut(rd, wr, n) ==
  IF rd > wr THEN UMin(rd - wr, n) ELSE UMin(n, Size)

(* bytes_to_write_from_idx and bytes_to_write_from_start of _write_impl.   *)
WriteFromIdx(rd, wr, n) ==
  IF rd > wr THEN UMin(rd - wr, n) ELSE UMin(n, Size - wr)

WriteFromStart(rd, wr, n) ==
  LET at == WriteFromIdx(rd, wr, n)
  IN  IF rd <= wr /\ at < n THEN UMin(n - at, wr - rd) ELSE 0

(* Slip: an empty ring is taken for a full one.                            *)
ReadFromIdxEmpty(rd, wr, n) ==
  IF rd >= wr THEN UMin(n, Size - rd) ELSE UMin(USub(rd, wr), n)

(* bytes_to_read_from_idx and bytes_to_read_from_start of _read_impl.  The *)
(* differences rd - wr and wr - rd are the ones that wrap around.          *)
ReadFromIdx(rd, wr, n) ==
  IF rd > wr THEN UMin(n, Size - rd) ELSE UMin(USub(rd, wr), n)

ReadFromStart(rd, wr, n) ==
  LET at == ReadFromIdx(rd, wr, n)
  IN  IF rd > wr /\ at < n THEN UMin(n - at, USub(wr, rd)) ELSE 0

=============================================================================
