------------------------------ MODULE SeqAlloc ------------------------------
(***************************************************************************)
(* The arithmetic of sequence numbers: what SeqManager.Allocate            *)
(* (conn/seq.go) does to its counter.  Sequence numbers start at 1, 0 means *)
(* "no sequence number", and the counter wraps at MaxSeq, which is         *)
(* MaxSeq16 = 2^16-1 or MaxSeq32 = 2^32-1 in the code.  The counter is a   *)
(* uint32; its only overflow, 2^32-1 + 1, gives 0 before the modulo and    *)
(* (2^32-1 + 1) % (2^32-1) = 1 after it: both become 1, so the arithmetic  *)
(* below is the code's for both lengths.                                   *)
(***************************************************************************)
EXTENDS Naturals

CONSTANT MaxSeq

ASSUME MaxSeqAssumption == MaxSeq \in Nat /\ MaxSeq > 1

\* Every sequence number Allocate can return.
Seqs == 1..MaxSeq

\* A plausible slip: the wrap lands on 0, the value that means "none".
AdvanceToZero(n) == (n + 1) % MaxSeq

\* sm.next++, the modulo, and the skip of 0.
Advance(n) == LET m == (n + 1) % MaxSeq IN IF m = 0 THEN 1 ELSE m

\* A plausible slip: the counter is not advanced.
AllocationRepeats(n, used) == [seq |-> n, next |-> n]

(***************************************************************************)
(* The number handed out when the counter is n and the numbers in used are *)
(* pending, with the counter's new value.  On a conflict the code takes    *)
(* the next number without looking whether that one is pending too, and    *)
(* steps the counter once more without the modulo.                         *)
(***************************************************************************)
Allocation(n, used) ==
  IF n \in used
  THEN [seq |-> Advance(n), next |-> Advance(n) + 1]
  ELSE [seq |-> n,          next |-> Advance(n)]

-----------------------------------------------------------------------------
\* A conflict is skipped by one step, so an allocation can only repeat a
\* pending number when that number and the one before it are both pending.
RepeatNeedsTwoPending(n, used) ==
  Allocation(n, used).seq \in used => {n, Advance(n)} \subseteq used

\* DESIGN.md 6.1 and the comment in Allocate: a number that is pending is
\* not handed out again.  The code does it even when another one is free:
\* ClientProofs shows where.
FreshWhileOneIsFree(n, used) ==
  ~(1..(MaxSeq - 1) \subseteq used) => Allocation(n, used).seq \notin used
=============================================================================
