--------------------------- MODULE PollingInterval ---------------------------
(***************************************************************************)
(* The arithmetic of PollingFrequencer.cs, as operators of the interval it *)
(* keeps: what reading Current and calling Decrease do to the private      *)
(* field "current".  PollingFrequencer is the object; the consumers'       *)
(* polling loops (MessagePollQueueConsumer and its likes) use the same     *)
(* operators for the frequencer each of them owns.                         *)
(***************************************************************************)
EXTENDS Integers

\* Int32.MaxValue: C# doubles in an unchecked 32-bit context.
MaxInt == 2147483647

\* What a Thread.Sleep accepts.
IsInterval(x) == x \in Nat /\ x <= MaxInt

\* current *= 2, unchecked.  Written so that no intermediate value leaves the 32 bits.
Twice(c) == IF c > MaxInt \div 2 THEN 2 * (c - MaxInt - 1)
            ELSE IF c < -(MaxInt \div 2) - 1 THEN 2 * (c + MaxInt + 1)
            ELSE 2 * c

\* Mutant: doubles without looking at the ceiling.
AfterRead_NoCeiling(c, ceiling) == Twice(c)

\* The field after a read of Current: it doubles until it reaches the ceiling.
AfterRead(c, ceiling) == IF c < ceiling THEN Twice(c) ELSE c

\* Mutant: the gradual decrease forgets the floor.
AfterDecrease_NoFloor(c, floor, useGradualDecrease) ==
    IF useGradualDecrease THEN c \div 2 ELSE floor

\* The field after Decrease(): one halving, or straight to the floor.  Above the
\* floor the interval is positive, where C#'s division and \div agree.
AfterDecrease(c, floor, useGradualDecrease) ==
    IF useGradualDecrease /\ c > floor THEN c \div 2 ELSE floor
=============================================================================
