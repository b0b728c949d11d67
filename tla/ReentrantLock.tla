---------------------------- MODULE ReentrantLock ----------------------------
(* What a re-entrant lock promises: one owner, who may take it again and    *)
(* gives it back as often.                                                  *)
EXTENDS Naturals

CONSTANTS Thread, Nobody

VARIABLES owner, count

Init == owner = Nobody /\ count = 0

Acquire(t) == owner \in {Nobody, t} /\ owner' = t /\ count' = count + 1

Release(t) == /\ owner = t
              /\ count' = count - 1
              /\ owner' = IF count' = 0 THEN Nobody ELSE t

Next == \E t \in Thread : Acquire(t) \/ Release(t)

Spec == Init /\ [][Next]_<<owner, count>>
=============================================================================
