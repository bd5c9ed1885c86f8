----------------------------- MODULE OrderNumber -----------------------------
(***************************************************************************)
(* The arithmetic of order numbers in common/src/state/drafts.rs: a u16    *)
(* that counts and wraps around, shown to people as a letter and three     *)
(* digits, "A-001" to "Z-999".                                             *)
(***************************************************************************)
EXTENDS Integers

CONSTANT MaxQueueSeq    \* MAX_QUEUE_SEQ, 25974 in the code

PerLetter == 999
Letters == 26

ASSUME QueueAssumption == MaxQueueSeq \in 1..(Letters * PerLetter)

\* A number that next_queue can hand out, and one that the counter can hold:
\* 0 only before the first.
QueueSeq == 1..MaxQueueSeq
Counter == 0..MaxQueueSeq

\* Variants for control runs: the counter wraps around to its initial value, or
\* not at all.
NextSeqZero(current) == IF current = MaxQueueSeq THEN 0 ELSE current + 1
NextSeqUnwrapped(current) == current + 1

\* The pure part of next_queue.
NextSeq(current) == IF current = MaxQueueSeq THEN 1 ELSE current + 1

\* Variant for a control run: the sequence is taken as if it started at 0.
OrderNumberShifted(seq) ==
    [letter |-> (seq \div PerLetter) % 256, number |-> (seq % PerLetter) + 1]

\* convert_queue_seq_to_order_number; letter 0 is 'A'.  The subtraction is on
\* a u16 and the quotient is cut to a u8.
OrderNumberOf(seq) ==
    LET s == (seq - 1) % 65536
    IN  [letter |-> (s \div PerLetter) % 256, number |-> (s % PerLetter) + 1]
-----------------------------------------------------------------------------
\* What people read: A to Z and 001 to 999, one number after the other.
Readable(number) == number \in [letter : 0..(Letters - 1), number : 1..PerLetter]

Follows(a, b) ==
    IF a.number < PerLetter
    THEN b = [a EXCEPT !.number = @ + 1]
    ELSE b = [letter |-> a.letter + 1, number |-> 1]
=============================================================================
