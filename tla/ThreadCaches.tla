---------------------------- MODULE ThreadCaches ----------------------------
(***************************************************************************)
(* The parsers that every native thread keeps in thread-specific data:     *)
(* the CSS parser and the selectors of nl_node_find (nl_node.c), the HTML  *)
(* parser of Document.parse (nl_document.c).                               *)
(*                                                                         *)
(* Ruby's global lock is held from the reading of the keys to the end of a *)
(* search, so that a search is one step here; what differs is how it ends. *)
(* lexbor is external: its init functions may fail, its parser refuses a   *)
(* selector, and a callback that raises leaves lxb_selectors_find.         *)
(***************************************************************************)
EXTENDS Naturals, FiniteSets

CONSTANTS
  NativeThread,  \* the threads
  Address,       \* bound: the addresses of lexbor's objects
  MaxAbandoned   \* bound: searches left by an exception

VARIABLES
  memory,     \* what is at an address: "free", or the kind of an object
  specific,   \* pthread_getspecific: of a thread and a key, 0 for NULL
  alive,      \* the threads that run
  abandoned   \* the selector lists of searches that an exception left

cacheVars == <<memory, specific, alive, abandoned>>

Key == {"css_parser", "selectors", "html_parser"}

NULL == 0

ASSUME AddressAssumption == NULL \notin Address

TInit ==
  /\ memory = [a \in Address |-> "free"]
  /\ specific = [t \in NativeThread |-> [k \in Key |-> NULL]]
  /\ alive = {}
  /\ abandoned = {}

\* malloc: always the same choice, so that addresses are soon used again.
FreshAddress(m) == CHOOSE a \in Address : m[a] = "free"

CreateAt(m, kind) == [m EXCEPT ![FreshAddress(m)] = kind]

\* The destroy functions of lexbor, which take NULL.
Destroy(m, a) == IF a = NULL THEN m ELSE [m EXCEPT ![a] = "free"]

Room(n) == Cardinality({a \in Address : memory[a] = "free"}) >= n

-----------------------------------------------------------------------------
ThreadStarts ==
  /\ \E t \in NativeThread \ alive :
       /\ alive' = alive \cup {t}
       /\ specific' = [specific EXCEPT ![t] = [k \in Key |-> NULL]]
  /\ UNCHANGED <<memory, abandoned>>

\* The destructors of the keys: free_css_parser, free_selectors, free_html_parser.
ThreadEnds ==
  /\ \E t \in alive :
       /\ alive' = alive \ {t}
       /\ specific' = [specific EXCEPT ![t] = [k \in Key |-> NULL]]
       /\ memory' = [a \in Address |->
                       IF a \in {specific[t][k] : k \in Key} THEN "free" ELSE memory[a]]
  /\ abandoned' = abandoned

-----------------------------------------------------------------------------
(* nl_node_find: the cached object of a key, or a new one.                 *)

\* One object made or found: the memory and where it is.
Obtain(m, t, k) ==
  IF specific[t][k] # NULL THEN [m |-> m, a |-> specific[t][k]]
  ELSE [m |-> CreateAt(m, k), a |-> FreshAddress(m)]

Missing(t, k) == specific[t][k] = NULL

\* Variant of InitError: only the key of the selectors, whose init fails, is cleared.
InitErrorOneKey(t, m, css, sel) ==
  /\ memory' = Destroy(Destroy(m, sel), css)
  /\ specific' = [specific EXCEPT ![t].css_parser = css, ![t].selectors = NULL]

\* init_error: both objects are destroyed and both keys cleared.
InitError(t, m, css, sel) ==
  /\ memory' = Destroy(Destroy(m, sel), css)
  /\ specific' = [specific EXCEPT ![t].css_parser = NULL, ![t].selectors = NULL]

\* lxb_css_parser_init fails: the selectors are those of the key.
CssParserFails ==
  \E t \in alive :
    /\ Missing(t, "css_parser") /\ Room(1)
    /\ LET css == Obtain(memory, t, "css_parser")
       IN InitError(t, css.m, css.a, specific[t].selectors)
    /\ UNCHANGED <<alive, abandoned>>

\* lxb_selectors_init fails, when the key of the parser is set already.
SelectorsFail ==
  \E t \in alive :
    /\ Missing(t, "selectors") /\ Room(2)
    /\ LET css == Obtain(memory, t, "css_parser")
           sel == Obtain(css.m, t, "selectors")
       IN InitError(t, sel.m, css.a, sel.a)
    /\ UNCHANGED <<alive, abandoned>>

\* Both objects are there and in their keys; then the selector is parsed and the
\* tree searched.  A refused selector leaves no list, and the list is destroyed at
\* cleanup, which a callback that raises (nl_node_css_callback or
\* nl_node_at_css_callback) does not come to.
Search ==
  \E t \in alive :
    /\ Room(3)
    /\ LET css == Obtain(memory, t, "css_parser")
           sel == Obtain(css.m, t, "selectors")
       IN /\ specific' = [specific EXCEPT ![t].css_parser = css.a, ![t].selectors = sel.a]
          /\ \/ memory' = sel.m /\ abandoned' = abandoned
             \/ /\ Cardinality(abandoned) < MaxAbandoned
                /\ memory' = CreateAt(sel.m, "list")
                /\ abandoned' = abandoned \cup {FreshAddress(sel.m)}
    /\ alive' = alive

-----------------------------------------------------------------------------
(* nl_document_parse_native.                                               *)

\* lxb_html_parser_init fails: the parser is destroyed before its key is set.
HtmlParserFails ==
  \E t \in alive :
    /\ Missing(t, "html_parser") /\ Room(1)
    /\ LET html == Obtain(memory, t, "html_parser")
       IN memory' = Destroy(html.m, html.a)
    /\ UNCHANGED <<specific, alive, abandoned>>

\* The document belongs to Ruby; without one an error is raised, the parser stays.
ParseDocument ==
  \E t \in alive :
    /\ Room(1)
    /\ LET html == Obtain(memory, t, "html_parser")
       IN /\ memory' = html.m
          /\ specific' = [specific EXCEPT ![t].html_parser = html.a]
    /\ UNCHANGED <<alive, abandoned>>

TNext ==
  \/ ThreadStarts \/ ThreadEnds
  \/ CssParserFails \/ SelectorsFail \/ Search
  \/ HtmlParserFails \/ ParseDocument

TSpec == TInit /\ [][TNext]_cacheVars

-----------------------------------------------------------------------------
\* Whatever failed before: a key of a living thread is NULL or holds an object of its
\* own kind that has not been destroyed, no two keys of any threads hold the same one,
\* and an object that no key holds is a selector list that a raising search left
\* (nl_node_find's init_error clears both keys; the destructors take the rest).
CachesLive ==
  LET held == {h \in alive \X Key : specific[h[1]][h[2]] # NULL}
  IN /\ \A h \in held : memory[specific[h[1]][h[2]]] = h[2]
     /\ \A g, h \in held : specific[g[1]][g[2]] = specific[h[1]][h[2]] => g = h
     /\ \A a \in Address :
          memory[a] # "free" => a \in abandoned \cup {specific[h[1]][h[2]] : h \in held}
     /\ \A a \in abandoned : memory[a] = "list"
=============================================================================
