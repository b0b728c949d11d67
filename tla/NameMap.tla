------------------------------- MODULE NameMap -------------------------------
(* What a hash table promises: a function from names to payloads, of which *)
(* every payload that leaves the map is given to the deallocator once.     *)
EXTENDS FiniteSets

CONSTANTS Name, Payload

VARIABLES
  map,      \* the payloads by name
  answer,   \* what the last call returned
  freed     \* the payloads the last call deallocated

Init == map = <<>> /\ answer = <<"none">> /\ freed = {}

With(n, p) == [m \in DOMAIN map \cup {n} |-> IF m = n THEN p ELSE map[m]]

Without(n) == [m \in DOMAIN map \ {n} |-> map[m]]

Range == {map[n] : n \in DOMAIN map}

\* An entry that is there is not replaced.
Add == \E n \in Name, p \in Payload :
  /\ freed' = {}
  /\ IF n \in DOMAIN map THEN answer' = <<"refused">> /\ UNCHANGED map
     ELSE answer' = <<"done">> /\ map' = With(n, p)

Update == \E n \in Name, p \in Payload :
  /\ answer' = <<"done">> /\ map' = With(n, p)
  /\ freed' = IF n \in DOMAIN map THEN {map[n]} ELSE {}

Remove == \E n \in Name :
  IF n \in DOMAIN map THEN answer' = <<"done">> /\ map' = Without(n) /\ freed' = {map[n]}
  ELSE answer' = <<"refused">> /\ freed' = {} /\ UNCHANGED map

Lookup == \E n \in Name :
  /\ answer' = IF n \in DOMAIN map THEN <<"payload", map[n]>> ELSE <<"none">>
  /\ freed' = {} /\ UNCHANGED map

Count == answer' = <<"count", Cardinality(DOMAIN map)>> /\ freed' = {} /\ UNCHANGED map

\* The payloads of the names whose first string is that of n.
Collect == \E n \in Name :
  /\ answer' = <<"payloads", {map[m] : m \in {k \in DOMAIN map : k[1] = n[1]}}>>
  /\ freed' = {} /\ UNCHANGED map

\* A copy is made, or a walk begins.
Keep == answer' = <<"done">> /\ freed' = {} /\ UNCHANGED map

Clear == map' = <<>> /\ answer' = <<"done">> /\ freed' = Range

Next == Add \/ Update \/ Remove \/ Lookup \/ Count \/ Collect \/ Keep \/ Clear

Spec == Init /\ [][Next]_<<map, answer, freed>>
=============================================================================
