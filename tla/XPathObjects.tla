---------------------------- MODULE XPathObjects ----------------------------
(***************************************************************************)
(* The values of an XPath evaluation and the cache they come from and go   *)
(* back to (xml_xpath.c:2200-2820, 5216-5668).                             *)
(*                                                                         *)
(* h is the heap: the objects, whether there is a cache, how many a slot   *)
(* of it keeps, and its slots; twice and text are history, of the time     *)
(* since an evaluation began: a string was freed twice, a string was the   *)
(* result.  An operator that makes an object returns the heap and it.      *)
(* Result trees of XSLT, external objects and failing allocations are left *)
(* out: nothing here makes the first two, and Ruby's allocator raises      *)
(* instead of returning NULL.                                              *)
(***************************************************************************)
EXTENDS Integers, SequencesExt

CONSTANT Obj   \* bound: the objects there is memory for

\* A node set has nodes, nr says whether any, in an array that is small, that is with
\* room for at most 40 (xml_xpath.c:5547), or large.
NoSet == [nr |-> 0, array |-> "none"]

\* What an object holds: its type, node set and string.
Holding(type) == [type |-> type, set |-> NoSet, str |-> "none"]

Unused  == Holding("free")
Cleared == Holding("undefined")

SetVal(s) == [Holding("nodeset") EXCEPT !.set = s]
StringVal == [Holding("string") EXCEPT !.str = "own"]

Slots == {"nodeset", "string", "boolean", "number", "misc"}

NewHeap == [obj |-> [o \in Obj |-> Unused], on |-> FALSE, max |-> 0,
            slot |-> [s \in Slots |-> <<>>], lists |-> {}, twice |-> FALSE, text |-> FALSE]

HasMemory(h) == \E o \in Obj : h.obj[o].type = "free"

-----------------------------------------------------------------------------
(* Making.                                                                 *)

NewObject(h, val) ==
  LET o == CHOOSE q \in Obj : h.obj[q].type = "free"
  IN [h |-> [h EXCEPT !.obj[o] = val], o |-> o]

\* The last object of a slot.
Reused(h, s, val) ==
  LET o == Last(h.slot[s])
  IN [h |-> [h EXCEPT !.slot[s] = Front(@), !.obj[o] = val], o |-> o]

\* From the slot named, from that for all, or from memory.
FromCache(h, s, val) ==
  CASE h.on /\ h.slot[s] # <<>> -> Reused(h, s, val)
    [] h.on /\ h.slot[s] = <<>> /\ h.slot["misc"] # <<>> -> Reused(h, "misc", val)
    [] OTHER -> NewObject(h, val)

CacheWrapNodeSet(h, set) == FromCache(h, "misc", SetVal(set))
CacheNewString(h)  == FromCache(h, "string", StringVal)
CacheWrapString(h) == FromCache(h, "string", StringVal)
CacheNewBoolean(h) == FromCache(h, "boolean", Holding("boolean"))
CacheNewFloat(h)   == FromCache(h, "number", Holding("number"))

\* nl_xmlXPathNodeSetCreate, of a node or empty.
NodeSetCreate(nodes) == [nr |-> nodes, array |-> "small"]

\* The set of a cached object is used again, with its array.
CacheNewNodeSet(h, nodes) ==
  LET s == h.obj[Last(h.slot["nodeset"])].set
      filled == IF nodes = 0 THEN s ELSE [s EXCEPT !.nr = 1]
  IN IF h.on /\ h.slot["nodeset"] # <<>> THEN Reused(h, "nodeset", SetVal(filled))
     ELSE FromCache(h, "misc", SetVal(NodeSetCreate(nodes)))

\* Not from the cache; a copy of a set has an array as large as that of the original.
ObjectCopy(h, o) == NewObject(h, h.obj[o])

CacheObjectCopy(h, o) ==
  CASE h.on /\ h.obj[o].type = "nodeset" -> CacheWrapNodeSet(h, h.obj[o].set)
    [] h.on /\ h.obj[o].type = "string"  -> CacheNewString(h)
    [] h.on /\ h.obj[o].type = "boolean" -> CacheNewBoolean(h)
    [] h.on /\ h.obj[o].type = "number"  -> CacheNewFloat(h)
    [] OTHER -> ObjectCopy(h, o)

CacheNew(h, type) ==
  CASE type = "string"  -> CacheNewString(h)
    [] type = "boolean" -> CacheNewBoolean(h)
    [] type = "number"  -> CacheNewFloat(h)

-----------------------------------------------------------------------------
(* Giving back.                                                            *)

\* The string of an object; twice tells that one was freed that had been.
FreeString(h, o) ==
  [h EXCEPT !.twice = @ \/ h.obj[o].str = "gone",
            !.obj[o].str = IF @ = "none" THEN "none" ELSE "gone"]

FreeObject(h, o) ==
  LET freed == IF h.obj[o].type = "string" THEN FreeString(h, o) ELSE h
  IN [freed EXCEPT !.obj[o] = Unused]

\* Into a slot, with what stays of the object; the list is made when it is needed.
CacheAdd(h, s, o, left) == [h EXCEPT !.slot[s] = Append(@, o), !.lists = @ \cup {s}, !.obj[o] = left]

\* Variant of ReleaseObject: a cached set keeps its nodes.
ReleaseWithNodes(h, o) ==
  LET v == h.obj[o]
      f == IF v.type = "string" THEN FreeString(h, o) ELSE h
      wants(s) == s \notin h.lists \/ Len(h.slot[s]) < h.max
      kept == IF v.type = "nodeset" THEN v.set.array = "small"
              ELSE v.type \in {"string", "boolean", "number"}
  IN CASE ~h.on -> FreeObject(h, o)
       [] h.on /\ kept /\ wants(v.type) -> CacheAdd(f, v.type, o, [Cleared EXCEPT !.set = v.set])
       [] h.on /\ ~(kept /\ wants(v.type)) /\ wants("misc") -> CacheAdd(f, "misc", o, Cleared)
       [] OTHER -> [f EXCEPT !.obj[o] = Unused]

\* To the slot of its type, to that for all, or to memory.  A slot whose list was
\* never made wants an object whatever the maximum is.
ReleaseObject(h, o) ==
  LET v == h.obj[o]
      f == IF v.type = "string" THEN FreeString(h, o) ELSE h
      wants(s) == s \notin h.lists \/ Len(h.slot[s]) < h.max
      kept == IF v.type = "nodeset" THEN v.set.array = "small"
              ELSE v.type \in {"string", "boolean", "number"}
  IN CASE ~h.on -> FreeObject(h, o)
       [] h.on /\ kept /\ wants(v.type) -> CacheAdd(f, v.type, o, [Cleared EXCEPT !.set = [v.set EXCEPT !.nr = 0]])
       [] h.on /\ ~(kept /\ wants(v.type)) /\ wants("misc") -> CacheAdd(f, "misc", o, Cleared)
       [] OTHER -> [f EXCEPT !.obj[o] = Unused]

\* FreeObject of each.
FreeAll(h, os) ==
  [h EXCEPT !.twice = @ \/ \E o \in os : h.obj[o].type = "string" /\ h.obj[o].str = "gone",
            !.obj = [o \in Obj |-> IF o \in os THEN Unused ELSE h.obj[o]]]

\* nl_xmlXPathStringFunction and its like: an object of the type asked for is itself.
CacheConvert(h, o, type) ==
  LET r == CacheNew(h, type)
  IN IF h.obj[o].type = type THEN [h |-> h, o |-> o]
     ELSE IF type = "string"
       THEN CacheWrapString(ReleaseObject(h, o))
     ELSE [h |-> ReleaseObject(r.h, o), o |-> r.o]

-----------------------------------------------------------------------------
(* The cache as a whole.                                                   *)

CachedObjects(h) == UNION {ToSet(h.slot[s]) : s \in Slots}

\* The objects of a slot go with their sets; there are no strings left in them.
FreeCache(h) ==
  [h EXCEPT !.obj = [o \in Obj |-> IF o \in CachedObjects(h) THEN Unused ELSE h.obj[o]],
            !.on = FALSE, !.slot = [s \in Slots |-> <<>>], !.lists = {}]

\* A negative value asks for the default.
DefaultMax == 100

ContextSetCache(h, active, value) ==
  IF active THEN [h EXCEPT !.on = TRUE, !.max = IF value < 0 THEN DefaultMax ELSE value]
  ELSE IF h.on THEN FreeCache(h) ELSE h
=============================================================================
