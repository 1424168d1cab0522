---------------------------- MODULE HybridClock ----------------------------
(***************************************************************************)
(* The hybrid logical clock that stamps document versions                  *)
(* (LiteCore/Support/HybridClock.cc).  A logicalTime packs a wall-clock    *)
(* reading and a counter into one integer: the code masks the low 16 bits  *)
(* of the nanosecond time and keeps the counter there.  CounterMod stands  *)
(* for 2^16, and a wall time is a number of such 65-microsecond ticks.     *)
(*                                                                         *)
(* _lastTime is only changed by a compare-and-swap loop that recomputes    *)
(* the new time from the value it is about to replace, so one call is one  *)
(* atomic step, written here as an operator from the last time and the     *)
(* wall clock to the new last time.                                        *)
(***************************************************************************)
EXTENDS Integers, FiniteSetsExt

CONSTANTS
    CounterMod,     \* how many counter values a wall tick has (2^16)
    MaxClockSkew    \* kMaxClockSkew: how far ahead a peer's time may be

ASSUME ClockAssumption == CounterMod \in Nat \ {0, 1} /\ MaxClockSkew \in Nat

none == 0

\* hybridComponents: packing and unpacking a logicalTime.
LogicalTime(wall, counter) == wall * CounterMod + (counter % CounterMod)
Wall(t) == t \div CounterMod
Counter(t) == t % CounterMod

\* The wall clock reads at least kMinValidTime, one tick here.  A time beyond
\* kMaxValidTime, the other limit, is also more than MaxClockSkew ahead of any
\* wall clock, so that seenTime() refuses it: the limit is left out.
validTime(t) == Wall(t) >= 1

(***************************************************************************)
(* HybridClock::now: the wall clock when it has moved on, and otherwise    *)
(* the last time with its counter, an unsigned 16-bit integer, stepped.    *)
(***************************************************************************)
now(last, wall) ==
    IF wall > Wall(last) THEN LogicalTime(wall, 0)
                         ELSE LogicalTime(Wall(last), Counter(last) + 1)

(***************************************************************************)
(* HybridClock::seenTime without its skipPast: the latest of the last time,*)
(* the wall clock and the time seen, or none when that is too far ahead.   *)
(***************************************************************************)
seenTime(last, wall, seen) ==
    LET latest == Max({Wall(seen), Wall(last), wall})
        counter(t) == IF Wall(t) = latest THEN Counter(t) ELSE 0
    IN  IF Wall(seen) > wall + MaxClockSkew THEN none
        ELSE LogicalTime(latest, Max({counter(last), counter(seen)}))

\* HybridClock::see: is the time acceptable, and what is then the last time?
\* A time too far ahead breaks off the update and leaves _lastTime alone.
see(last, wall, seen) ==
    IF ~validTime(seen) \/ seen <= last
        THEN [ok |-> validTime(seen), last |-> last]
        ELSE LET t == seenTime(last, wall, seen)
             IN  [ok |-> t # none, last |-> IF t = none THEN last ELSE t]
=============================================================================
