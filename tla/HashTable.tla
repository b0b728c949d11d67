------------------------------ MODULE HashTable ------------------------------
(***************************************************************************)
(* xml_hash.c: a table of chained entries that grows when a chain gets     *)
(* long.  The XPath context keeps its functions, variables and namespaces  *)
(* in such tables.                                                         *)
(*                                                                         *)
(* An entry is found by three strings, sequences of character codes; <<>>  *)
(* is NULL.  The first entry of a chain lies in the table itself, the      *)
(* others are linked to it.  No dictionary is attached to the tables.      *)
(***************************************************************************)
EXTENDS Naturals, SequencesExt

CONSTANTS
  HashName,      \* the names used: triples of strings
  PayloadOf,     \* the pointers that are stored under each of them
  MAX_HASH_LEN,
  MinSize,       \* 8: the table does not grow to less ...
  MaxSize,       \* 8 * 2048: ... nor to more
  NewSize,       \* the size tables are created with
  Word,          \* how many values an unsigned long has
  BitXor(_, _)   \* the operator ^ on them

Colon == 58

\* Strings are not NULL where the code dereferences them, and no prefix is empty.
ASSUME HashAssumption ==
  /\ \A n \in HashName :
       /\ n \in Seq(Nat) \X Seq(Nat) \X Seq(Nat) /\ n[1] # <<>>
       /\ \A i \in 1 .. 3 : n[i] # <<>> => Head(n[i]) # Colon
  /\ {MAX_HASH_LEN, NewSize, Word} \subseteq Nat \ {0}
  /\ \A v, w \in 0 .. Word - 1 : BitXor(v, w) \in 0 .. Word - 1

VARIABLES
  table,   \* the table
  hAnswer, \* what the last call returned
  hFreed,  \* the payloads it called the deallocator with, in order
  scan     \* the locals of nl_xmlHashScanFull

hashVars == <<table, hAnswer, hFreed, scan>>
-----------------------------------------------------------------------------
(* Keys.                                                                   *)

Mix(v, c) == BitXor(v, (32 * v + v \div 8 + c) % Word)

Mixed(v, s) == FoldLeft(Mix, v, s)

\* A function, so that the value of a name is computed once.
HashValue == [n \in HashName |->
  LET v1 == Mixed((30 * Head(n[1])) % Word, n[1])
      v2 == Mixed(Mix(v1, 0), n[2])
  IN Mixed(Mix(v2, 0), n[3])]

HashKey(size, n) == HashValue[n] % size

\* A string as the prefix before its colon, if it has one, and the rest.
QSplit(s) ==
  LET colon == SelectInSeq(s, LAMBDA c : c = Colon)
  IN [prefix |-> SubSeq(s, 1, IF colon = 0 THEN 0 ELSE colon - 1),
      name |-> SubSeq(s, colon + 1, Len(s))]

QMixed(v, q) ==
  Mixed(IF q.prefix = <<>> THEN v ELSE Mix(Mixed(v, q.prefix), Colon), q.name)

QSplit3(n) == [i \in 1 .. 3 |-> QSplit(n[i])]

HashQValue == [q \in {QSplit3(n) : n \in HashName} |->
  LET v1 == QMixed((30 * Head(IF q[1].prefix = <<>> THEN q[1].name ELSE q[1].prefix)) % Word, q[1])
      v2 == QMixed(Mix(v1, 0), q[2])
  IN QMixed(Mix(v2, 0), q[3])]

HashQKey(size, q) == HashQValue[q] % size
-----------------------------------------------------------------------------
EmptyTable(size) == [size |-> size, count |-> 0,
                     chain |-> [k \in 0 .. size - 1 |-> <<>>]]

NotScanning == [on |-> FALSE, bucket |-> 0, at |-> 0, seen |-> <<>>, all |-> {}]

HInit == /\ table = EmptyTable(NewSize)
         /\ hAnswer = <<"none">> /\ hFreed = <<>> /\ scan = NotScanning

ChainOf(t, n) == t.chain[HashKey(t.size, n)]

\* Where the chain holds the name, 0 if it does not.
Position(chain, n) == SelectInSeq(chain, LAMBDA e : e.name = n)

Flat(chain, size) == FlattenSeq([k \in 1 .. size |-> chain[k - 1]])

Entries(t) == ToSet(Flat(t.chain, t.size))

Answer(a, freed) == hAnswer' = a /\ hFreed' = freed /\ UNCHANGED scan
-----------------------------------------------------------------------------
(* Adding, and growing.                                                    *)

\* First the entries that lie in the table are copied.  No two of them get the
\* same place, for the new size is a multiple of the old one.
HeadsPlaced(t, size) ==
  LET heads == {t.chain[k][1] : k \in {j \in DOMAIN t.chain : t.chain[j] # <<>>}}
      Here(k) == {e \in heads : HashKey(size, e.name) = k}
  IN [k \in 0 .. size - 1 |-> IF Here(k) = {} THEN <<>> ELSE <<CHOOSE e \in Here(k) : TRUE>>]

\* Then the others: into the table if there is room, behind the first otherwise.
RestPlaced(chain, e) ==
  LET k == HashKey(Cardinality(DOMAIN chain), e.name)
  IN [chain EXCEPT ![k] = IF @ = <<>> THEN <<e>> ELSE <<Head(@), e>> \o Tail(@)]

Grown(t, size) ==
  LET rest == Flat([k \in DOMAIN t.chain |-> SubSeq(t.chain[k], 2, Len(t.chain[k]))], t.size)
  IN IF size < MinSize \/ size > MaxSize THEN t
     ELSE [t EXCEPT !.size = size, !.chain = FoldLeft(RestPlaced, HeadsPlaced(t, size), rest)]

\* The table with one entry more, unless the name is there.
Added(t, e) ==
  LET chain == ChainOf(t, e.name)
      more == [t EXCEPT !.count = @ + 1,
                        !.chain[HashKey(t.size, e.name)] = Append(@, e)]
  IN IF Position(chain, e.name) # 0 THEN t
     ELSE IF Len(chain) > MAX_HASH_LEN + 1 THEN Grown(more, MAX_HASH_LEN * t.size)
     ELSE more

AddEntry(n, p) ==
  /\ table' = Added(table, [name |-> n, payload |-> p])
  /\ Answer(IF Position(ChainOf(table, n), n) # 0 THEN <<"refused">> ELSE <<"done">>, <<>>)

UpdateEntry(n, p) ==
  LET k == HashKey(table.size, n)
      at == Position(table.chain[k], n)
  IN IF at # 0
     THEN /\ table' = [table EXCEPT !.chain[k][at].payload = p]
          /\ Answer(<<"done">>, <<table.chain[k][at].payload>>)
     ELSE /\ table' = [table EXCEPT !.count = @ + 1,
                                    !.chain[k] = Append(@, [name |-> n, payload |-> p])]
          /\ Answer(<<"done">>, <<>>)

\* Every entry is added to a new table of the same size.
HashCopy ==
  /\ table' = [FoldLeft(Added, EmptyTable(table.size), Flat(table.chain, table.size))
                 EXCEPT !.count = table.count]
  /\ Answer(<<"done">>, <<>>)
-----------------------------------------------------------------------------
(* Looking up.                                                             *)

HashLookup(n) ==
  LET at == Position(ChainOf(table, n), n)
  IN /\ Answer(IF at = 0 THEN <<"none">> ELSE <<"payload", ChainOf(table, n)[at].payload>>, <<>>)
     /\ UNCHANGED table

HashQLookup(n) ==
  LET q == QSplit3(n)
      chain == table.chain[HashQKey(table.size, q)]
      at == SelectInSeq(chain, LAMBDA e : QSplit3(e.name) = q)
  IN /\ Answer(IF at = 0 THEN <<"none">> ELSE <<"payload", chain[at].payload>>, <<>>)
     /\ UNCHANGED table

HashSize == Answer(<<"count", table.count>>, <<>>) /\ UNCHANGED table

\* The entries whose first string is that of n; the callback changes nothing.
ScanFull3(n) ==
  /\ Answer(<<"payloads", {e.payload : e \in {f \in Entries(table) : f.name[1] = n[1]}}>>, <<>>)
  /\ UNCHANGED table
-----------------------------------------------------------------------------
(* Removing.                                                               *)

\* Variant of Removed: the count is left alone.
RemovedUncounted(t, n) ==
  LET k == HashKey(t.size, n)
  IN [t EXCEPT !.chain[k] = RemoveAt(@, Position(@, n))]

Removed(t, n) ==
  LET k == HashKey(t.size, n)
  IN [t EXCEPT !.count = @ - 1, !.chain[k] = RemoveAt(@, Position(@, n))]

RemoveEntry(n) ==
  LET at == Position(ChainOf(table, n), n)
  IN IF at = 0 THEN Answer(<<"refused">>, <<>>) /\ UNCHANGED table
     ELSE /\ table' = Removed(table, n)
          /\ Answer(<<"done">>, <<ChainOf(table, n)[at].payload>>)

\* The chains are gone through as long as the count promises entries.  A table
\* is created in place of the one that is freed.
Freeing(f, chain) ==
  IF f.left <= 0 THEN f
  ELSE [left |-> f.left - Len(chain), freed |-> f.freed \o [i \in DOMAIN chain |-> chain[i].payload]]

HashFree ==
  LET all == FoldLeft(Freeing, [left |-> table.count, freed |-> <<>>],
                      [k \in 1 .. table.size |-> table.chain[k - 1]])
  IN table' = EmptyTable(NewSize) /\ Answer(<<"done">>, all.freed)
-----------------------------------------------------------------------------
(* nl_xmlHashScanFull with a callback that may remove the entry it is given. *)

\* The first place at or after the given one that holds an entry.
ScanAt(chain, size, bucket, at) ==
  LET later == {b \in bucket + 1 .. size - 1 : chain[b] # <<>>}
  IN IF at \in 1 .. Len(chain[bucket]) THEN [bucket |-> bucket, at |-> at]
     ELSE IF later = {} THEN [bucket |-> size, at |-> 0]
     ELSE [bucket |-> Min(later), at |-> 1]

ScanBegin ==
  LET first == ScanAt(table.chain, table.size, 0, 1)
  IN /\ first.bucket < table.size
     /\ scan' = [on |-> TRUE, bucket |-> first.bucket, at |-> first.at,
                 seen |-> <<>>, all |-> Entries(table)]
     /\ hAnswer' = <<"done">> /\ hFreed' = <<>> /\ UNCHANGED table

\* Variant of ScanNextAt: what moved into the place is passed over.
ScanPastRemoved(removed) == scan.at + 1

\* Where the scan goes on: an entry after the first has been unlinked, or the
\* first one has been overwritten with the second.
ScanNextAt(removed) == IF removed THEN scan.at ELSE scan.at + 1

ScanVisit(removes) ==
  LET e == table.chain[scan.bucket][scan.at]
      next == ScanAt(table'.chain, table.size, scan.bucket, ScanNextAt(removes))
  IN /\ scan.bucket < table.size
     /\ IF removes
        THEN table' = Removed(table, e.name) /\ hAnswer' = <<"done">> /\ hFreed' = <<e.payload>>
        ELSE UNCHANGED <<table, hAnswer, hFreed>>
     /\ scan' = [scan EXCEPT !.seen = Append(@, e), !.bucket = next.bucket, !.at = next.at]

ScanEnd ==
  /\ scan.bucket = table.size
  /\ scan' = NotScanning /\ UNCHANGED <<table, hAnswer, hFreed>>
-----------------------------------------------------------------------------
HNext ==
  \/ /\ ~scan.on
     /\ \/ \E n \in HashName : \E p \in PayloadOf[n] \ {e.payload : e \in Entries(table)} :
             AddEntry(n, p) \/ UpdateEntry(n, p)
        \/ \E n \in HashName : HashLookup(n) \/ HashQLookup(n) \/ ScanFull3(n) \/ RemoveEntry(n)
        \/ HashSize \/ HashCopy \/ HashFree \/ ScanBegin
  \/ scan.on /\ (ScanEnd \/ \E removes \in BOOLEAN : ScanVisit(removes))

HSpec == HInit /\ [][HNext]_hashVars
-----------------------------------------------------------------------------
\* The payload found under each name that has an entry.
MapIn(t) ==
  [n \in {e.name : e \in Entries(t)} |-> ChainOf(t, n)[Position(ChainOf(t, n), n)].payload]

FreedOnce(f) == IF IsInjective(f) THEN ToSet(f) ELSE {"twice"}

\* The table answers as a map from names to payloads would and deallocates what
\* leaves it once, whatever the chains have come to by growing and removing
\* (nl_xmlHashAddEntry3 to nl_xmlHashRemoveEntry3).
Map == INSTANCE NameMap WITH
  Name <- HashName,
  Payload <- UNION {PayloadOf[n] : n \in HashName},
  map <- MapIn(table), answer <- hAnswer, freed <- FreedOnce(hFreed)

ActsAsMap == Map!Spec

\* A scan hands every entry to the callback once, although the callback removes
\* entries and the head of a chain is overwritten by its successor
\* (xml_hash.c:893-903, "table was modified by the callback, be careful").
ScanVisitsOnce ==
  scan.on => /\ IsInjective(scan.seen)
             /\ scan.bucket = table.size => ToSet(scan.seen) = scan.all
=============================================================================
