----------------------------- MODULE Dictionary -----------------------------
(***************************************************************************)
(* xml_dict.c: dictionaries that keep one copy of every string, in pools,  *)
(* so that strings can be compared by their addresses.  A dictionary may   *)
(* inherit the strings of another one.                                     *)
(*                                                                         *)
(* Strings are sequences of character codes.  A QName is asked for as a    *)
(* prefix and a name, or as a whole.  dict is the dictionary in use, sub   *)
(* the one it inherits from; an address is a dictionary, a pool (counted   *)
(* from the oldest) and a place in it.                                     *)
(***************************************************************************)
EXTENDS Integers, SequencesExt

CONSTANTS
  PlainName,      \* the strings looked up as a whole
  QName,          \* the prefix-name pairs looked up as such, [prefix, name]
  MAX_CHAIN,      \* MAX_HASH_LEN of xml_dict.c
  MIN_DICT_SIZE,
  MAX_DICT_HASH,
  FirstPool,      \* 1000: the size of the first pool
  Limit,          \* the limits a dictionary may be given; 0 is none
  Seed,           \* the random number that its keys begin with, the same for the
                  \* dictionary it inherits from
  Word32,         \* the values of a uint32_t
  BitXor32(_, _)  \* the operator ^ on them

VARIABLES dict, sub

dictVars == <<dict, sub>>

Null == <<>>
Separator == 58

Whole(n) == IF n.prefix = <<>> THEN n.name ELSE n.prefix \o <<Separator>> \o n.name

Asked == {[prefix |-> <<>>, name |-> s] : s \in PlainName} \cup QName

\* A prefix that is given is not empty.
ASSUME DictAssumption ==
  /\ PlainName \subseteq Seq(Nat)
  /\ QName \subseteq [prefix : Seq(Nat) \ {<<>>}, name : Seq(Nat)]
  /\ {MAX_CHAIN, MIN_DICT_SIZE, MAX_DICT_HASH, FirstPool, Word32} \subseteq Nat \ {0}
  /\ Limit \subseteq Nat /\ Seed \in 0 .. Word32 - 1
  /\ \A v, w \in 0 .. Word32 - 1 : BitXor32(v, w) \in 0 .. Word32 - 1
-----------------------------------------------------------------------------
(* Keys.  A dictionary of the smallest size uses other keys than a larger one. *)

Sum(s) == FoldLeft(+, 0, s)

Piece(s, m, n) == SubSeq(s, m, IF Len(s) < n THEN Len(s) ELSE n)

\* Behind an empty string is its zero.
FastKey(seed, s) ==
  (seed + Sum(Piece(s, 1, 1))) * 32 + (IF Len(s) > 10 THEN Last(s) ELSE 0) + Sum(Piece(s, 2, 10))

\* The letters of the prefix are taken off the length of the name.
FastQKey(seed, prefix, name) ==
  LET long == Len(name) > 10
      offset == Len(name) - (Len(prefix) + 2)
      left == (IF long THEN 10 ELSE Len(name)) - (IF long THEN Len(Piece(prefix, 1, 10)) ELSE Len(prefix))
  IN seed + 30 * prefix[1]
     + (IF long THEN name[1 + (IF offset < 0 THEN Len(name) - 11 ELSE offset)] ELSE 0)
     + (IF long \/ Len(prefix) <= 10 THEN Sum(Piece(prefix, 1, 10)) ELSE 0)
     + (IF left > 0 THEN Separator + Sum(SubSeq(name, 1, left - 1)) ELSE 0)

Stir(h, c) ==
  LET h1 == (h + c) % Word32
      h2 == (h1 + h1 * 1024) % Word32
  IN BitXor32(h2, h2 \div 64)

\* The empty string has a key that no seed changes.
BigKey(seed, s) ==
  LET h0 == FoldLeft(Stir, seed, s)
      h1 == (h0 + h0 * 8) % Word32
      h2 == BitXor32(h1, h1 \div 2048)
  IN IF s = <<>> THEN 0 ELSE (h2 + h2 * 32768) % Word32

\* The characters of prefix, colon and name go through one after the other.
BigQKey(seed, prefix, name) == BigKey(seed, prefix \o <<Separator>> \o name)

\* Functions, so that the key of a string is computed once.
SmallKeys == [n \in Asked |->
  IF n.prefix = <<>> THEN FastKey(Seed, n.name) ELSE FastQKey(Seed, n.prefix, n.name)]

LargeKeys == [n \in Asked |->
  IF n.prefix = <<>> THEN BigKey(Seed, n.name) ELSE BigQKey(Seed, n.prefix, n.name)]

\* A string that was asked for in two parts is keyed as a whole when the
\* dictionary grows, which gives the same key.
DictKey(size, n) == IF size = MIN_DICT_SIZE THEN SmallKeys[n] ELSE LargeKeys[n]

-----------------------------------------------------------------------------
NewDict(limit) ==
  [size |-> MIN_DICT_SIZE, count |-> 0, limit |-> limit, pools |-> <<>>,
   chain |-> [k \in 0 .. MIN_DICT_SIZE - 1 |-> <<>>]]

DInit == /\ \E l \in Limit : dict = NewDict(l)
         /\ sub = NewDict(0)
-----------------------------------------------------------------------------
(* The pools.                                                              *)

\* What a new pool has room for: four times the largest, and the string four times.
PoolSize(pools, need) ==
  LET largest == FoldLeft(LAMBDA m, p : IF p.size > m THEN p.size ELSE m, 0, pools)
      size == IF largest = 0 THEN FirstPool ELSE 4 * largest
  IN IF size < 4 * need THEN 4 * need ELSE size

Usage(d) == FoldLeft(LAMBDA u, p : u + p.size, 0, d.pools)

\* Variant of HasRoom: the zero is forgotten.
HasRoomForLetters(pool, need) == pool.size - Len(pool.text) >= need

\* Room for the string and the zero behind it.
HasRoom(pool, need) == pool.size - Len(pool.text) > need

\* The newest pool that has room, a new one if none has and the limit allows,
\* otherwise 0.
PoolFor(d, need) ==
  LET old == SelectLastInSeq(d.pools, LAMBDA p : HasRoom(p, need))
  IN IF old # 0 THEN old
     ELSE IF d.limit > 0 /\ Usage(d) > d.limit THEN 0
     ELSE Len(d.pools) + 1

AddString(d, s) ==
  LET i == PoolFor(d, Len(s))
      pools == IF i \in 0 .. Len(d.pools) THEN d.pools
               ELSE Append(d.pools, [size |-> PoolSize(d.pools, Len(s)), text |-> <<>>])
  IN IF i = 0 THEN [ok |-> FALSE, pools |-> pools]
     ELSE [ok |-> TRUE, pool |-> i, at |-> Len(pools[i].text) + 1,
           pools |-> [pools EXCEPT ![i].text = @ \o s \o <<0>>]]

TextAt(d, e) == SubSeq(d.pools[e.pool].text, e.at, e.at + e.len - 1)

\* An address up to the first free place belongs to the pool.
OwnsIn(d, e) == e.pool \in DOMAIN d.pools /\ e.at \in 1 .. Len(d.pools[e.pool].text) + 1
-----------------------------------------------------------------------------
(* Growing.                                                                *)

\* Variant of NewOkey: the keys are kept.
KeptOkey(size, e) == e.okey

\* A dictionary of the smallest size has other keys: they are computed anew.
NewOkey(size, e) == IF size = MIN_DICT_SIZE THEN LargeKeys[e.of] ELSE e.okey

DPlaced(chain, e) ==
  LET k == e.okey % Cardinality(DOMAIN chain)
  IN [chain EXCEPT ![k] = IF @ = <<>> THEN <<e>> ELSE <<Head(@), e>> \o Tail(@)]

\* First the entries that lie in the table, then the others.
DictGrow(d, size) ==
  LET in(k) == d.chain[k - 1]
      heads == FlattenSeq([k \in 1 .. d.size |-> SubSeq(in(k), 1, IF in(k) = <<>> THEN 0 ELSE 1)])
      rest == FlattenSeq([k \in 1 .. d.size |-> SubSeq(in(k), 2, Len(in(k)))])
      moved == [i \in DOMAIN (heads \o rest) |->
                  LET e == (heads \o rest)[i] IN [e EXCEPT !.okey = NewOkey(d.size, e)]]
  IN [d EXCEPT !.size = size,
               !.chain = FoldLeft(DPlaced, [k \in 0 .. size - 1 |-> <<>>], moved)]
-----------------------------------------------------------------------------
(* Looking up.                                                             *)

InChain(d, n, okey) ==
  LET chain == d.chain[okey % d.size]
      at == SelectInSeq(chain, LAMBDA e :
              e.okey = okey /\ e.len = Len(Whole(n)) /\ TextAt(d, e) = Whole(n))
  IN IF at = 0 THEN Null ELSE <<[pool |-> chain[at].pool, at |-> chain[at].at]>>

\* Variant of SubKey: the key of the dictionary is used.
SameKey(n) == DictKey(dict.size, n)

\* The key for the inherited dictionary is computed anew when just one of the
\* two has the smallest size.
SubKey(n) ==
  IF (dict.size = MIN_DICT_SIZE) # (sub.size = MIN_DICT_SIZE)
  THEN DictKey(sub.size, n) ELSE DictKey(dict.size, n)

\* nl_xmlDictQLookup knows no limit to the length.
TooLong(n) == dict.limit > 0 /\ Len(Whole(n)) >= dict.limit /\ n.prefix = <<>>

\* The address of the string, in the dictionary or in the one it inherits from.
Known(n) ==
  LET own == InChain(dict, n, DictKey(dict.size, n))
      inherited == InChain(sub, n, SubKey(n))
  IN IF TooLong(n) THEN Null
     ELSE IF own # Null THEN <<"dict">> \o own
     ELSE IF inherited # Null THEN <<"sub">> \o inherited
     ELSE Null

\* How many entries the search has passed: all but the last of each chain.
Passed(d, okey) ==
  LET l == Len(d.chain[okey % d.size]) IN IF l = 0 THEN 0 ELSE l - 1

\* The dictionary with the string added, and grown if the search was long.
Entered(d, n, okey, passed, added) ==
  LET e == [of |-> n, okey |-> okey, len |-> Len(Whole(n)), pool |-> added.pool, at |-> added.at]
      more == [d EXCEPT !.count = @ + 1, !.pools = added.pools,
                        !.chain[okey % d.size] = Append(@, e)]
  IN IF passed > MAX_CHAIN /\ d.size <= (MAX_DICT_HASH \div 2) \div MAX_CHAIN
     THEN DictGrow(more, MAX_CHAIN * 2 * d.size) ELSE more

DictExists(n) == Known(n) # Null /\ UNCHANGED dictVars

DictLookup(n) ==
  LET okey == DictKey(dict.size, n)
      added == AddString(dict, Whole(n))
  IN /\ UNCHANGED sub
     /\ IF Known(n) # Null \/ TooLong(n) \/ ~added.ok THEN UNCHANGED dict
        ELSE dict' = Entered(dict, n, okey, Passed(dict, okey) + Passed(sub, SubKey(n)), added)

\* The inherited dictionary is filled by its own users.
SubLookup(n) ==
  LET okey == DictKey(sub.size, n)
  IN /\ InChain(sub, n, okey) = Null
     /\ sub' = Entered(sub, n, okey, Passed(sub, okey), AddString(sub, Whole(n)))
     /\ UNCHANGED dict

SetLimit(l) == dict' = [dict EXCEPT !.limit = l] /\ UNCHANGED sub
-----------------------------------------------------------------------------
DNext ==
  \/ \E n \in Asked : DictLookup(n) \/ SubLookup(n) \/ (n.prefix = <<>> /\ DictExists(n))
  \/ \E l \in Limit : SetLimit(l)

DSpec == DInit /\ [][DNext]_dictVars

\* No string is asked for in two ways that a dictionary which has not grown
\* gives different keys.
OneKey == \A m, n \in Asked : Whole(m) = Whole(n) => SmallKeys[m] = SmallKeys[n]

Held(d) == UNION {ToSet(d.chain[k]) : k \in DOMAIN d.chain}
-----------------------------------------------------------------------------
\* The address of a string stays what it was first said to be, whichever of the
\* two dictionaries grows and changes its keys (xml_dict.c:641, "result is
\* losing an entry and unicity guarantee"; skey in nl_xmlDictLookup).
Interned ==
  [][\A n \in Asked : Known(n) # Null /\ ~TooLong(n)' => Known(n)' = Known(n)]_dictVars

\* Every string lies in its pool unharmed, with the zero behind it, and the pool
\* is not written past its end (xmlDictAddString, xmlDictAddQString); what is
\* counted is what nl_xmlDictFree has to go through.
TextsIntact ==
  \A d \in {dict, sub} :
    /\ \A p \in ToSet(d.pools) : Len(p.text) <= p.size
    /\ \A e \in Held(d) : /\ TextAt(d, e) = Whole(e.of)
                         /\ d.pools[e.pool].text[e.at + e.len] = 0
                         /\ OwnsIn(d, e)
    /\ d.count = Cardinality(Held(d))
=============================================================================
