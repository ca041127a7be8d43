----------------------------- MODULE TimeArith -----------------------------
(***************************************************************************)
(* The arithmetic on timespec_t in src/common/util.c.                      *)
(***************************************************************************)
EXTENDS Integers, Sequences, SequencesExt

CONSTANT NsecPerSec     \* nanoseconds in a second, 10^9 in the code

ASSUME TimeAssumption == NsecPerSec \in Nat \ {0}

ReadClock(t) == [tv_sec |-> t \div NsecPerSec, tv_nsec |-> t % NsecPerSec]

(* What a timespec_t stands for, in nanoseconds. *)
Nanoseconds(ts) == ts.tv_sec * NsecPerSec + ts.tv_nsec

delta_without_borrow(start, end) ==     \* faulty: the seconds are not borrowed from
    [tv_sec  |-> end.tv_sec - start.tv_sec,
     tv_nsec |-> (end.tv_nsec - start.tv_nsec) % NsecPerSec]

(* The nanoseconds borrow a second if they have to. *)
timespec_delta(start, end) ==
    IF end.tv_nsec - start.tv_nsec < 0
    THEN [tv_sec  |-> end.tv_sec - start.tv_sec - 1,
          tv_nsec |-> end.tv_nsec - start.tv_nsec + NsecPerSec]
    ELSE [tv_sec  |-> end.tv_sec - start.tv_sec,
          tv_nsec |-> end.tv_nsec - start.tv_nsec]

SumOf(seq) == FoldLeft(LAMBDA total, x : total + x, 0, seq)

average_dropping_rest(tsarray) ==   \* faulty: what is left of the seconds is dropped
    [tv_sec  |-> SumOf([k \in DOMAIN tsarray |-> tsarray[k].tv_sec]) \div Len(tsarray),
     tv_nsec |-> SumOf([k \in DOMAIN tsarray |-> tsarray[k].tv_nsec]) \div Len(tsarray)]

(***************************************************************************)
(* The average of at least one delta: what is left of the seconds is       *)
(* averaged with the nanoseconds.  The carry is taken for more than a      *)
(* second, so tv_nsec may come out as a whole one.                         *)
(***************************************************************************)
timespec_avg(tsarray) ==
    LET len       == Len(tsarray)
        summ_sec  == SumOf([k \in DOMAIN tsarray |-> tsarray[k].tv_sec])
        summ_nsec == SumOf([k \in DOMAIN tsarray |-> tsarray[k].tv_nsec])
        avg_sec   == summ_sec \div len
        avg_nsec  == (summ_nsec + (summ_sec % len) * NsecPerSec) \div len
    IN  IF avg_nsec > NsecPerSec
        THEN [tv_sec |-> avg_sec + avg_nsec \div NsecPerSec, tv_nsec |-> avg_nsec % NsecPerSec]
        ELSE [tv_sec |-> avg_sec, tv_nsec |-> avg_nsec]
=============================================================================
