# A verification project for nokolexbor

nokolexbor is a Ruby gem for HTML5: a C extension (`ext/nokolexbor`) and Ruby
code above it (`lib/nokolexbor`). The extension keeps documents as the linked
node trees of the lexbor library, edits them, searches them with lexbor's CSS
selectors, and evaluates XPath with a copy of libxml2's engine that was ported
to lexbor's nodes. These modules model the parts of that code where one step
can invalidate what another step relies on. TLC checks them on small instances
and TLAPS proves the central invariants for every instance.

## 1. The system

| component | code | state | operations |
|---|---|---|---|
| tree editing | `nl_node.c`, `node.rb` | five links per node (parent, prev, next, first_child, last_child) | `new remove destroy content= parse add_child add_sibling prepend_child replace children= wrap clone` |
| CSS search | `nl_node.c` 362-567 | a result array, the order mark `node->user`, a parser and a selector engine per thread | `css at_css` of a node |
| NodeSet search | `nl_node_set.c` 361-459 | a temporary fragment, copies of the members' links | `css at_css` of a NodeSet |
| NodeSet arrays | `nl_node_set.c` 13-359, `node_set.rb` | an array of node pointers, none twice | `push delete [] slice \| & -` and what Ruby builds from them |
| DocumentFragment | `nl_document_fragment.c`, `document_fragment.rb` | a node that is a root outside the document | `new parse` |
| Document | `nl_document.c`, `document.rb` | the tree, the HTML parser of the thread | `parse title= meta_encoding= create_element` |
| attributes | `nl_attribute.c`, `node.rb` | an ordered map for each element | `[] []= delete kwattr_*` |
| Builder | `builder.rb` | the current parent, pushed and popped by blocks | one method per element name |
| XPath context | `nl_xpath_context.c` | the evaluation context, two process-wide error handlers | `evaluate register_ns register_variable` |
| XPath engine | `xml_xpath.c`, `xml_pattern.c`, `timsort.h` | a value stack, an object cache, node sets, limits | compile, evaluate, sort |
| support | `xml_hash.c xml_dict.c xml_string.c xml_buf.c xml_chvalid.c xml_error.c` | tables and buffers of one context | look up, add, grow |
| threads and globals | `xml_threads.c xml_globals.c xml_parser.c` | the initialisation flag, recursive mutexes, per-thread state | initialise, lock, unlock, get |

How they meet. Ruby code calls the extension, which runs under Ruby's global
lock and never releases it: one call is atomic for other Ruby threads, and the
interleavings that matter are those between the steps of one call and the tree
that it changes, between calls and the marks or copies that earlier calls have
left, and between a call and the exceptions that leave it half done. The tree is
shared by everything. CSS search writes to it (it regroups the members of a
NodeSet under a fragment for the time of a search) and to the field `user` of
its nodes, where the XPath order comparison would find negative marks if
anything wrote them. `xml_threads.c` is written for
native threads, and is the only part that may run in several at once.

What is hard:

* *loops over a list that the loop's own body changes*: `nl_node_add_nodes`,
  `nl_node_parse`, `nl_node_content_set`, `children=`;
* *order*: several nodes put next to a position that itself has to advance;
* *freeing*: the root of a parsed String is destroyed when its nodes have moved;
* *borrowed links*: NodeSet search links nodes into a second list without
  unlinking them from the first, and puts copies of the old pointers back;
* *stale marks*: results are sorted by marks of an earlier state of the tree;
* *failure in the middle*: `children=` with an argument of the wrong class,
  `css` with something that is no String, an error callback that raises;
* *owners that change*: objects of an evaluation go between the value stack, the
  cache, variables and the caller; nodes between the two sets of a merge;
* *tables that change shape*: a hash table or a dictionary grows under the
  strings it has given out, a scan runs on while its callback removes entries;
* *threads*: initialisation, recursive locks, per-thread caches, counted
  dictionaries.

What makes each part correct:

* tree editing: after every pointer update the links are those of an ordered
  forest, and each call as a whole does what its documentation says;
* search: every hit is returned once, in document order; the tree is as before;
* NodeSet arrays: sets that keep the order of insertion;
* Builder: the current parent after a block is the one before it;
* XPath: the optimised evaluation equals the plain one; node sets are in
  document order when the code says that they are; objects are given back;
* values: conversions, comparisons and functions are those of the XPath
  recommendation, although they work on bytes, hashes and rounded positions;
* streaming: a path fed with the nodes of the document finds what its evaluation
  would;
* tables: a hash table is a map, a dictionary keeps one copy of each string;
* threads: mutual exclusion, no lost wake-up, initialisation once, an error
  reaches the handler of its own thread.

`PROJECT.json` lists every component with what is and is not modelled, and under
"hazards" each of these dangers at its line, with the property that covers it.

## 2. The modules

| module | what it is | models |
|---|---|---|
| `DomTree` | the linked tree, its four primitives, what a forest is | lexbor's `lxb_dom_node_remove` and `lxb_dom_node_insert_*`, from the way `nl_node.c` uses them |
| `NodeMutation` | the calls that change a tree, loop by loop | `nl_node.c` 106-259, 848-1109, `node.rb` 122-316 |
| `OrderedForest` | the abstract specification: sequences of children, each call one atomic change | what `node.rb` documents |
| `Forests` | its operators: nodes taken out of the sequences of a forest and put into them | |
| `NodeSearch` | `css` and `at_css` of nodes and NodeSets between edits of the tree | `nl_node.c` 362-567, `nl_node_set.c` 361-459 |
| `ThreadCaches` | the parsers a thread keeps, over failing and raising searches | `nl_node.c` 385-466, 1233-1256, `nl_document.c` 36-147 |
| `RubyNodeSet` | the arrays behind NodeSet | `nl_node_set.c` 13-359, `node_set.rb` |
| `BuilderBlocks` | the current parent over blocks that return, raise and rescue | `builder.rb` |
| `AxisIterators` | a document, and one turn of a loop of each of the fourteen iterators | `xml_xpath.c` 7627-8471, 12078-12146 |
| `XPathAxes` | an iterator called until it returns NULL, one loop turn per step | `xml_xpath.c` 12078-12252 |
| `XPathOrder` | document order, sorting and merging of node sets | `xml_xpath.c` 161-474, 3480-4245 |
| `XPathStream` | streaming patterns: compiled to automata, fed with the nodes | `xml_pattern.c` 70-2373, `xml_xpath.c` 11306-11468, 13657-13870 |
| `XPathEval` | an expression compiled, rewritten and evaluated on the value stack | `xml_xpath.c` 960-1215, 10376-11763, 11897-13647, 13892-14215, 14423-14505 |
| `NodeSets` | node sets and the set functions of EXSLT, with the copies of namespace nodes they provide for | `xml_xpath.c` 3474-4828 |
| `XPathObjects` | objects and the cache they are taken from and given back to | `xml_xpath.c` 2211-2820, 4326-4432, 5226-5668 |
| `XPathContext` | contexts, variables, and evaluations that fail, report and are left by exceptions | `nl_xpath_context.c`, the evaluator of `xml_xpath.c` by its effect on objects |
| `Utf8Strings` | strings of bytes and characters, the buffer that collects one | `xml_string.c`, `xml_buf.c` |
| `XPathValues` | conversions, comparisons, core functions | `xml_xpath.c` 3156-3271, 5686-7620, 8599-10095 |
| `XPathRecommendation` | the same, as the recommendation says it | |
| `TimSort` | the sort, by insertion and by runs | `timsort.h` |
| `HashTable` | chained tables | `xml_hash.c` |
| `NameMap` | the abstract specification of a table: a map | |
| `Dictionary` | dictionaries with pools, two kinds of keys and inheritance | `xml_dict.c` |
| `RecursiveMutex` | `xmlRMutex` | `xml_threads.c` 41-361 |
| `ReentrantLock` | the abstract specification of it: an owner and a count | |
| `LibraryThreads` | what threads share in the library | `xml_threads.c`, `xml_globals.c`, `xml_parser.c`, `xml_error.c`, `xml_dict.c` |
| `MCNodeMutation`, `MCNodeSearch`, `MCXPathAxes`, `MCXPathEval`, `MCLibraryThreads`, `MCData` | the instances that TLC checks, with refinement mappings, reference definitions and liveness | |
| `ListProofs` | induction, folds, and lemmas on sequences that several of the following use | |
| `DomTreeProofs` | lemmas on the primitives, on the operators of `Forests`, and on what of a forest the pointers of a tree show | |
| `NodeMutationProofs` | the inductive invariant of `NodeMutation`, and that it implements `OrderedForest` | |
| `NodeSearchProofs`, `LibraryThreadsProofs` | the inductive invariants of these modules | |
| `XPathProofs` | those of `XPathAxes` and `XPathContext` | |
| `DataProofs` | those of `NodeSets`, `RubyNodeSet`, `ThreadCaches`, `BuilderBlocks` and `TimSort` | |
| `TableProofs` | that `HashTable` implements `NameMap`, its scan, and what `Dictionary` keeps | |

How they compose: `MCXPathEval` runs `XPathEval`, which runs `XPathStream`,
`XPathOrder` and the iterators of `AxisIterators`. `LibraryThreads` extends
`RecursiveMutex` and puts the library's calls on top of it. `MCData` holds nine
machines that share nothing; a behaviour of it is a behaviour of one of them.

`NodeMutation` and `NodeSearch` extend `DomTree` and are separate because each
needs the other only in outline: `NodeSearch` edits with single-node forms of
`add_child`, `add_previous_sibling` and `remove`, which are what `NodeMutation`
shows the longer calls to be made of.

### State and code

`dom` is the record of the five link fields as functions of the node. A node is
a model value and `Nil` is the null pointer. The primitives write exactly what
lexbor's do, and like these they neither unlink a node before they insert it nor
look for cycles. Names, text, attributes and the interned tag ids are left out:
nothing that moves nodes looks at them, apart from the rule on the nodes beside
the root element, for which `Remark` is the set of comments and processing
instructions.

In `NodeMutation`, `call` holds the locals of the call in progress: the name of
the method, the receiver, the position (`at`, `cur` and `how` are `node`,
`last_node` and the function `nl_node_add_sibling` chose), the argument and what
is left of it. An action is the entry of a call or one turn of one loop. `role`
says what a node is allocated as: `unused` ones are not allocated, a `scratch`
one is the root of a String that is being parsed. `settled` is a history
variable, the tree when the last call returned: it is what the refinement
mapping shows of a call that is under way.

In `NodeSearch`, `mark` is `node->user`, `search` the locals of a search
(`backup` the copies of the members' nodes, `root` where the walk starts, `turn`
the selector of the list it looks for), and `saved` a history variable, the tree
when the search began. A selector is the set of nodes it matches. The engine
walks the tree once for each selector of a list, as patch 0001 shows, and
`at_css` ends each of these walks at its first hit (the callback returns
`LXB_STATUS_STOP`). The results of all walks are pushed into one array without
repetition. That the walks go selector by selector is what
`nl_sort_nodes_if_necessary` is there for, and what `node_spec.rb:152` and
`node_set_spec.rb:58` describe. A list of one means that `list->next` is null,
which is when the code does not sort.

In `XPathAxes`, `walk` holds what an evaluation keeps between two calls of an
iterator: the axis, `ctxt->context->node` (`ctx`), the node returned last (`cur`)
and `ctxt->ancestor` (`anc`), which only the preceding axis uses. `at` is the
place in the code: between calls, in one of the loops, or after NULL. `seen` is
what was collected. An attribute is a node that is linked to no other: lexbor
keeps it in a list of its element (`firstAttr`, `nextAttr`) and leaves `parent`
NULL and `owner` unset until someone sets it, which the attribute axis and
`nl_node.c` do. The document is chosen once and never edited during a walk; node
tests and predicates, which choose among what is collected, are part of
`XPathEval`.

In `XPathEval`, `comp` is `ctxt->comp`, an array of operations that refer to
earlier ones, and `run` is the parser context with the fields of the XPath
context that an evaluation writes: the value stack and its frame, the error, and
the context node, size and position. Compiling, rewriting and evaluating are
three actions, and `Return` is what outlives them; each is one call in the code,
and nothing else runs between them. `Eval` has four forms, as the code has: for
the value (`xmlXPathCompOpEval`), for the first and the last node, and for the
truth of a predicate. What these functions return (the number of nodes examined)
and write through pointers (`*first`, `*last`, the filtered set) are fields of
the record that the operators pass on. `XPathEval` calls the iterators of
`AxisIterators` that `XPathAxes` checks and `XPathProofs` proves things of.
An expression is given as parsed, and values are node sets, booleans and
integers. Strings, other numbers and comparisons with node sets are in
`XPathValues`, variables, the object cache and the depth of recursion in
`XPathContext`; the limit on operations is off for every caller here. An
attribute has its owner from the start. A path that `xmlXPathTryStreamCompile`
takes is run by `XPathStream` instead: `streams` are its automata, a stream is a
list of states (the step awaited, the level at which it began), and the walk
pushes and pops the nodes of the document as `xmlXPathRunStreamEval` does.

In `RecursiveMutex`, `lock` is the pthread mutex inside the recursive one,
`held`, `waiters` and `tid` its fields, `asleep` the threads in
`pthread_cond_wait`, and `pc` where each thread is: every access to a field is
inside the mutex, and a step is what a thread does between two calls that can
block. `LibraryThreads` adds the simple mutexes, the one-time initialisation,
the thread states with their error handlers, and the dictionaries' counters.
`code` is the list of calls a thread has still to make; an action takes the
first one and puts in its place the calls that the function makes, so that
threads change over between any two of them. `told`, `born` and `sight` are history
variables: what a thread was told, the dictionaries that were made, and the threads
that are sure to see what the initialisation wrote.
`xmlParserInitialized` is read without the lock (`xml_parser.c:98`), which C
calls a data race when another thread writes it then. In the model such a read returns
the new value or the old one (`FlagRead`), and a thread that has gone past the flag
by a racy read is not in `sight.threads`. A thread gets there by the order
that pthreads give: it takes a mutex that one who sees has given back, is created by one
who sees, or joins one (`Sees`). The order that the recursive mutex gives is left
out of `sight`, so that fewer threads are in it than there could be. What a
thread that does not see reads of the other globals is not followed: it reads
what is there.

The modules that `MCData` puts together each have an initial state and a
next-state relation of their own:

* `HashTable`: `table` has the array of chains, `scan` the locals of
  `nl_xmlHashScanFull` while its callback runs and removes entries.
* `Dictionary`: a string has an address (dictionary, pool, place); `okey` is the
  key it was entered with, and differs from the one looked up when the
  dictionary has passed `MIN_DICT_SIZE`, as in the code.
* `TimSort`: `runs` is `run_stack`, and one round of `PUSH_NEXT` or `Collapse` a
  step. An element remembers the place it had, which shows stability.
* `NodeSets`: two arrays with their lengths and maxima, namespace nodes being
  copies that a set owns. The functions provide for them, but nothing makes one here:
  `nl_xmlXPathNextNamespace` returns NULL (`xml_xpath.c:8409`). `RubyNodeSet`: two arrays of node pointers.
* `XPathObjects` and `XPathContext`: `heap` holds for each object its type, its
  string and its set, and the lists of the cache. An evaluation (`ev`) is any
  sequence of the operations of the evaluator, told apart by what they take
  from the stack, what they give back and what they put there. At its end
  `nl_xmlXPathFreeParserContext` gives back one value a step.
* `ThreadCaches`: what is at an address, and what each thread's keys hold.
* `BuilderBlocks`: `@parent`, the blocks that are open, and for each node made the
  node it was added to. The program that uses the builder is any sequence of
  calls, raises and rescues.
* `XPathValues`: a call of a function or a comparison with its arguments, and what
  the code computes: on bytes, with the hash of two bytes of a node's text, with
  positions rounded from numbers. Numbers have one decimal place.

## 3. The runs

| run | instance | what it shows |
|---|---|---|
| `moves` | three nodes and a fragment, NodeSets of up to three | `LinksOfForest` after every pointer update; `KeepsPromise`: each call that takes nodes, sets or fragments implements the atomic one of `OrderedForest` |
| `strings` | a document and three nodes still to be allocated, one of which may stand beside the root; Strings of up to two nodes | `TypeOK`; `UnusedUnreachable`: a freed node is linked to nothing; `KeepsPromise` for parsed Strings, `content=`, `wrap`, `destroy`; `CallsReturn` |
| `search` | a document, the fragment, three nodes; selector lists of one or two; sets of up to two; invalid selectors and arguments that are no Strings; nodes moved at will or only added and removed | `TreeRestored`; `Complete` and `SearchReturns` when no member of a set is above another; `ResultsInDocumentOrder` as long as nodes are not moved |
| `axes` | every document of six nodes | `AxisExact`: what each of the fourteen iterators collects is its axis, complete, in the order its comment gives and each node once; `Contained`; `WalkEnds` |
| `queries` | every document of six nodes with one root element; 132 expressions, among them the paths that become streaming patterns, from every context node | `Answer`: the compiled, rewritten, short-cut or streamed evaluation returns what the expression means, in document order and each node once; `ContextKept` and `StackEmptied` also for expressions that fail; `TypeOK`: the operations stay a forest that is evaluated from its last one |
| `threads` | three threads, five programs (below) | `MutualExclusion`, `InitialisedOnce`, `ErrorsReachTheirHandler`, `DefaultsHandedOver`, `DictKept`, `NothingLeft`; `ImplementsLock`: the mutex implements `ReentrantLock`; `EveryoneReturns` |
| `data` | nine machines (below) | a property or two of each |
| `prepend` | two nodes | `prepend_child` of the first child loses it |
| `search_nested` | three nodes, nested members | such a search misses the later siblings of a member that is a child of another one |
| `search_stale` | three nodes, moves | results sorted by marks older than a move are out of document order |
| `query_first` | five nodes, one expression | `(*[2] \| *[last()])[1]` returns a node that neither arm selects |
| `query_stream` | five nodes, one expression | `.//.` does not find the context node |

The last five runs find a disagreement between the code and one of its comments, docs
or specs; each of them is a finding in `PROJECT.json` with the line it quotes.
The passing runs of the same modules exclude exactly that situation: by a
constant (`PrependOwnFirst`, `Nested`), by a variable of the run (`moves` in
`MCNodeSearch`, which fixes for a behaviour whether its nodes are moved), and in
`queries` by having no `last()` in a union that is searched for one node and no
`.//.`. `Raises` is on in `search`: the model follows a search up to the
exception and not what later calls do to the tree that is left (`Abandon`).

### The programs of `threads`

The threads take the recursive lock, once or twice, before there are others,
with the others, and inside the library; they are the first to use the library,
all at the same time, which the comment of `nl_xmlInitParser` warns of (`InitialisedOnce`
below); one ends and the next one is given its `pthread_t`; one
changes the defaults twice while the others make their states; and two are handed
a reference to a dictionary each, one of which makes another that inherits from
it. `Spurious` wakes a waiting thread for no reason, as POSIX allows. A
thread is started only while nobody holds the recursive lock: the lock does
nothing in a process of one thread (`XML_IS_THREADED`, `xml_threads.c:311`), and
who holds it then holds nothing later. Its callers have to see to that;
nothing in the extension starts a thread. Three more guards are preconditions of
the functions: a thread that is started does not run yet; the
`nl_xmlThrDef` functions are called when the library is initialised, since they
lock `xmlThrDefMutex` without making it; and a dictionary that is passed is one
that someone counts on (`InUse`), since any other is free memory.

`InitialisedOnce` goes with what the comment says of multithreaded programs: "This is
not reentrant. Call once before processing" (`xml_parser.c:88`). If the library is
initialised before there is a second thread (`sight.early`), every living thread sees
what was initialised (`InSight`), although it looks at the flag without a lock. For all
programs, those that the comment warns included, the mutex gives that each
subsystem is initialised once, and that all of them are before a thread goes on
(`xml_parser.c:102`). What it does not give them is sight: without
`sight.early`, TLC finds in the program whose threads are all the first a thread that
reads the flag while another has just set it, and goes on without an order between
what that one wrote and what it will read. The comment is right about that.

`NothingLeft` asks at the end for every dictionary that was made to be freed, and
`DictKept` that none is freed twice or too early.

### The machines of `data`

| machine | bounds | property |
|---|---|---|
| `hash` | five names in one chain of at most two, tables of one to four chains | `ActsAsMap`: every call answers, and deallocates, as a call of `NameMap` does; `ScanVisitsOnce` |
| `dict` | three names and a prefixed one, chains of one, at most four of them, with and without an inherited dictionary and a limit | `Interned`: a string has one address and is found again under it while tables grow; `TextsIntact`: what was given out is not written over |
| `sort` | all sequences of three keys up to length seven, one of twenty-two with runs that get shorter, and one of eighteen whose runs are each longer than the next but not than the next two; insertion below four, `RUN_BITS` one instead of six, room for five runs | `SortedStably`: in order, stable, nothing lost, no run without room on the stack |
| `sets` | three places, one namespace node, arrays of at most four | `SetsSound`: no node twice (and, of the copies nothing makes here, none lost or freed twice); `SetFunctionsExact`: the EXSLT functions are what their comments say, `leading` for empty sets only |
| `ruby` | four nodes, an int of sixteen values | `SliceAsDocumented`: `[]` for every offset and length an int holds |
| `evaluate` | three objects, a stack of two, a depth of one, a cache of one per list | `OwnedOnce`: each object is owned by one of cache, variable, evaluation and memory, whatever failed before; `ErrorsHandedOver` |
| `caches` | two threads, nine addresses | `CachesLive`: what a key holds is alive and held by no other, over failing initialisations and raising searches |
| `builder` | three nodes, blocks four deep | `BuiltInItsBlock` |
| `values` | every comparison of every two of some fifty values, each function on values chosen for it: texts with characters of one, two and three bytes, blanks, numerals, NaN, infinities, halves, node sets with empty and missing texts | `ValuesAsDefined`: what the code computes is what `XPathRecommendation` says |

The constants of the sources (`MAX_HASH_LEN`, `MIN_DICT_SIZE`, the length below
which the sort inserts, the limit of a node set, `XPATH_MAX_RECURSION_DEPTH`,
`INT_MAX`, the size of a buffer) are CONSTANTS, made so small that each limit is
met. `INT_MAX` is still larger than the length of every string, as in the code.
`-0`, exponents and digits behind the first decimal place are left out.

### What else the modules show

These are the conditions under which the properties above are stated. Five of them go
against a comment of the code, which is named with them; the properties leave
these cases out by name, in a definition or in the comment before them.

* With `Nested` and `Unordered` both on, a child that stands before its parent in a
  set makes a walk that does not end (`nl_node_set.c:394`). Results in a detached tree
  are left in the order of the selectors, since the marks are counted from the
  document (`nl_node.c:509`). A single selector on a set whose members are not
  in document order returns its hits in the order of the members, against "No need to sort
  if there's only one selector" (`nl_node.c:497`).
* Threads that are the first to use the library at the same time: see
  `InitialisedOnce` above, and `xml_parser.c:88`.
* An exception in a search leaves its selector list to nobody; one in an error
  handler leaves the depth of the context raised and the handlers pointing at an
  array that may be gone, until the next `evaluate` sets them
  (`nl_xpath_context.c:294`). The objects of that evaluation are lost.
* The string of a string result is freed by `xpath2ruby` and again with its object
  (`nl_xpath_context.c:174`, `:309`); `OwnedOnce` says that this happens to no
  other string.
* A `NodeBuilder` restores the builder's parent only when its block returns
  (`builder.rb:211`), where `Builder#insert` uses `ensure`.
* `set[-2**32]` raises, where the comment promises nil for what is out of range
  (`nl_node_set.c:206`): the offset loses its high bits before it is tested (`155`).
* The leading functions of EXSLT ask for item 1 of the second set, which is its second
  node (`xml_xpath.c:4694`, `4720`), where their comments promise the nodes that precede
  the first one (`4685`, `4707`); with one node in the second set they return all of
  the first. `xmlXPathNodeSetMergeAndClear` at the limit of a
  set would return with the namespace copies it has moved in both (`4022`), if there were any.
* In a dictionary that has not grown, a prefixed name asked for as a whole and in its
  two parts has two keys and two copies (`xml_dict.c:430`, `473`): a name of
  `Interned` is a string together with the way it is asked for. No context here has a
  dictionary.
* Values, the first four named in `Departs`: a minus sign without a number is read as
  0 (`number('-')` is -0), where "any other string is converted to NaN"
  (`xml_xpath.c:6610`); two node sets are not compared as they
  should be when a node without a value, such as an attribute without one, meets a node
  whose value is empty; `number()` of a context node without content is 0; `id()` loses the
  first name behind leading blanks. And `id()` asks lexbor to ignore
  the case of letters (the ids of the model are lower case).

`AxisExact` is stated for the trees and nodes of `Regular`, which names where the
iterators do something else than their comments say. For a node without a parent the parent
and ancestor axes return the document it belongs to, while the ancestors of a
node deeper in the same detached tree end at its root (`xml_xpath.c:7991`,
`8061`). A doctype has no parent (`8004`, `8074`). `ancestor-or-self` of an
attribute returns the attribute alone, since the second call follows
`att->node.parent` (`8120`) where the first call of `ancestor` follows `owner`
(`8071`). The preceding axis stops at the first child of the document even when
the context node is not in it (`8381`). Each of these clauses is needed: without
it TLC finds a document on which `AxisExact` fails.

`Answer` leaves out, besides `query_first` and `query_stream`: an attribute as the context node
(its axes deviate as above); node sets with two attributes, which a sort puts in
another order, since `CmpNodesExt` (`xml_xpath.c:190`) takes two attributes, whose
`parent` is NULL, for nodes in the order in which it is given them: sorted,
`//@id` over several elements begins with the second attribute and ends with the
first; and a filter on what is no node set, such as `(1+1)[1]`, which the short
cut for `()[1]` returns without asking for the type (`xml_xpath.c:13286`) while
any other filter is an error.

### Bounds

`Node` bounds the trees. Three nodes and a fragment are enough for a node to be
first, middle and last among its siblings, for a set to empty one list into
another, and for an argument to be the receiver's own sibling, child or parent's
sibling, which are all the ways in which the pointers a call writes can
coincide: no primitive touches more than the node, its two neighbours, its
parent and the position with its neighbours and parent, and the proof shows that
nothing else matters to `LinksOfForest`. `MaxArg` bounds the NodeSets passed and
`MaxParsed` the top nodes of a String; two of them already make the second turn
of a loop differ from the first. `MaxMembers` is two because the regrouping
interferes between a member and one earlier member. In `search` three nodes
allow a member with two children, or a member with a child beside another.
In `axes` the nodes are numbered in the order in which they are met, so each shape
of forest is one document: six nodes give a context node with an ancestor, a
sibling on each side and something below each of them, and a second, detached
tree. At most one node is no element (a text, an attribute, a doctype or a
fragment), at each place where the parser or the API can put one; the branches
of the iterators ask for the type of one node at a time.
In `queries` the nodes are numbered in document order; six nodes below one root
element give an element with two children that have children themselves, which
is the least on which `//x[1]`, `(//x)[1]` and the axes that run backwards
differ, and each of the three namings gives steps that keep some nodes and drop
others. The expressions are chosen by what the code asks of the operations
(whether there is a predicate, whether it is a number, `last()` or something
else, whether a filter is on a sort, a filter or neither, on which axis the
search for one node may stop), so that each combination occurs. Node sets stay
below 64 members, where the sort is an insertion sort, and below 256 examined
nodes, so that the order is asked only of the first one of a search
(`total % 256`); `TimSort` checks the sort beyond insertion. The streaming patterns are
the paths of up to four steps that differ in what the automaton has to remember:
a name, `*`, `.` or `//` at the beginning, in the middle and at the end, absolute
or not, and unions of two and three of them.
Three threads let one wait while another takes the lock and a third one gives it
back, which is the least on which a signal can wake a thread for a lock that is
taken again; and two of them share a dictionary while the third one frees it.
Symmetry is used between nodes of the same kind, and between the objects of `evaluate`
(a new one is chosen from the free ones, which are all alike), and only in runs without
liveness properties.

### Fairness

`FairSpec` assumes weak fairness of the steps of a call that has begun
(`Continue`, `Step`): nothing in these calls waits for anything, the thread that
runs one holds the global lock, so a step that is possible is taken. No call is
assumed ever to be made. `XPathAxes` assumes the same of `Iterate`: the loop that
calls an iterator does nothing else until it has returned NULL (its limit on the
number of operations, `OP_LIMIT_EXCEEDED`, is off unless a program sets it).
`CallsReturn`, `SearchReturns` and `WalkEnds` then say that the
loops end.

`LSpec` assumes weak fairness of each thread's steps: the system runs every thread
that can run. A mutex that is given back is taken by one of those who wait for
it, and `pthread_cond_signal` wakes a waiter; `EveryoneReturns` then says that every
thread gets to the end of its program, unless threads are woken for no reason for
ever. `MCData` states no fairness: its properties are safety properties.

## 4. What is proved

All theorems hold for every set of nodes, threads, objects and every bound. The
assumptions are `NilAssumption`, `RoleAssumption`, `BoundAssumption`,
`NodeAssumption`, `SearchAssumption`, `DocAssumption`, `DocumentsAssumption`,
`ThreadAssumption`, `HeldAssumption`, `LibraryAssumption`, `AddressAssumption`,
`ContextAssumption`, `RubyAssumption`, `SetsAssumption`, `HashAssumption`,
`DictAssumption`, `SortAssumption` and `StackAssumption`, each of which TLC evaluates in a run.

`NodeMutationProofs`, under `~PrependOwnFirst`:

* `TypeCorrect`: `Spec => []TypeOK`. The links stay links, and whatever a call
  dereferences is a node.
* `ForestKept`: `Spec => []LinksOfForest`.
* `FreedNodesUnreachable`: `Spec => []UnusedUnreachable`.

`LinksOfForest` alone is not inductive, since what a loop does depends on the
call's locals. `IInv` adds, for each value of `pc`, what the locals mean: that
the nodes still to be linked are allocated and different from each other, that
none of them is at the position they are linked to or above it (`NoneAbove`,
stated with a set closed under `parent` so that the proof needs no recursion),
that a scratch root has no parent, that a fragment being emptied holds only
nodes, and that a text about to be inserted is linked to nothing.
`DomTreeProofs` shows that `RemoveNode`, `InsertChild`, `InsertBefore` and
`InsertAfter` keep `WellLinked` and `Acyclic` when the node inserted is isolated
from above and the position is not below it, and what they do to `NoneAbove`.
There is one step for each action and one lemma for each conjunct that it
disturbs.

* `PromisesKept`: `IsFiniteSet(Node)` and `Spec` imply `KeepsPromise`, the refinement
  of `OrderedForest`. Each method, with all the loops, parsed Strings and nested calls
  it is made of, has the effect on the sequences of children that its documentation
  gives it in one change: nodes keep their order, also when some of them come from the very
  list they are put into, and everything else stays where it is.

The argument for `PromisesKept` has three layers.

* *Sequences and forests* (`ListProofs`, `DomTreeProofs`). `Without` is a fold and is
  shown to take one step for each member (`WithoutSteps`); the rest is induction on
  sequences, said of a set (`SeqInduction`). A `Whole` forest has every node in one row once, a
  row being the children of a node or a chain of nodes without a parent. In these terms
  all that the calls do is `Put` (take nodes out and place them under, behind or in front of
  a node) and `Detach`. What makes loops come out right are equations between
  them: `PutAgain` (a list put, then one more node put behind its last one, or at the
  same place, is the longer list put at once: `nl_node_add_nodes`), `DetachTwice` and
  `PullDetach` (what was removed one by one was removed at once: `children=`), `PullPut`
  (a node that moves on leaves no trace of where it was: the scratch root of a String).
* *Pointers* (`DomTreeProofs`). `Shows(t, f)` says that the five pointers of every node are
  those of its place in its row of `f`. `RemoveShows`, `InsertChildShows`,
  `InsertAfterShows` and `InsertBeforeShows` give the forest that is shown after each
  primitive: only one row and the neighbours in it change (`GrownShows`), since no node is in two
  rows. `ForestShown` says that `ForestOf`, which walks the `next` pointers for as many
  steps as there are nodes, reads that forest; it is the one place that needs `Node` finite.
* *Calls* (`NodeMutationProofs`). `Stage(call, d, f)` says, for each place in the code of a
  call, how the forest `d` shown now comes from the forest `f` the call began with: in the loop
  over a NodeSet, that `d` is `f` with the nodes before `todo` put, and that the next one goes
  behind the last of them or to the same place; in the loop over a fragment, that the
  fragment still holds the others; while children are cleared, that those noted and no longer
  in `todo` are detached; at the return, that `d` is the `Effect` of the call on `f`.
  `Underway` hides `d` and `f`. It is inductive with `IInv`, which supplies what the
  stages need of the locals (no node is put at itself, none twice). Each
  action has its lemma, named after it: `AddNextOfSetStage`, `ClearNextStage`, ...

Without `Underway` nothing could be said of a step that returns: what a call has done
is spread over all of its steps.

The assumption `~PrependOwnFirst` is needed: the run `prepend` is the
counterexample.

`NodeSearchProofs`:

* `SearchRestoresTree`: `Spec => []TreeRestored`, for any members in any order,
  nested or not, and any selectors. Regrouping a member writes to the fragment, to the member, and to the last member linked
  before it, so to no node that has not been copied yet. `Borrowed` says so: each
  copy is of the links the member had when the search began, and every node but
  the fragment and the members copied so far is as it was. `GivenBack` says that
  while the copies are written back only the members still to come differ from
  the saved tree, and `Untouched` that the search of a single node writes
  nothing. `Free` keeps the temporary fragment out of the tree between searches:
  without it the member linked first would find a last child under the fragment.
* `SearchComplete`: `Spec => []Complete`, under `~Nested` and `IsFiniteSet(Node)`. `css`
  returns each node that a selector of the list matches below the node, or at and
  below the members of the NodeSet, and returns it once.
* `SearchTypesCorrect`: `Spec => []TypeOK`, under the same. In particular the walk never
  comes to a null pointer.

The argument of these two has four parts.

1. What is below some nodes (`Below`) holds with a node all its children, and is the
   smallest set that does (`BelowFacts`, `BelowWithin`). No induction over the tree is needed.
2. `Walkable` says what a walk needs of the links under its root: neighbours that
   agree with each other, one last child, no loops. A tree of a forest has that
   (`LinkedWalkable`), and so has the regrouped one when no member is above another
   (`RegroupedWalkable`); there what is under the fragment is what was at and below the
   members (`RegroupedBeneath`). The step that needs `Apart` is `ChildNotMember`: a child of
   what is below the members keeps its old place. With nested members it fails, and the
   run `search_nested` is the counterexample.
3. The nodes a walk has met are a `WalkPart`: with a node its parent, and all that is under
   the sibling before it. `ComesNext` says which node keeps them so. `After` leads to it, or
   back to the root when all is met (`WalkStart`, `WalkStep`). The climb is the hard case:
   by induction on its steps, with the nodes on the way up as the measure
   (`UpFacts`, `ClimbReaches`), which is why the set of nodes has to be finite.
4. The invariant `Searching`: between two walks, what is found is what the selectors
   so far match of what is searched (`Finding`); during a walk, also what the present selector
   matches of the `WalkPart` already met (`Walking`). `Grouping` gives the links of the
   fragment and of the members regrouped so far, `Trees` that the program's edits keep a
   forest. `SortedPermutes` shows that the stable sort loses and repeats nothing: the places
   it gives are different, so each is taken.

`XPathProofs`, `XPathAxes`, for every set of well-linked documents without cycles:

* `TypeCorrect`: `Spec => []TypeOK`. An iterator never hands out NULL as a node
  and follows only links of nodes.
* `NoIteratorStrays`: `Spec => []Contained`. What an axis returns is where it may
  lead: below the context node, above it, beside it, or an attribute with its
  owner. The inductive invariant says in addition where the walk is while it is
  between two returns (a node in the climb of the descendant axes is strictly
  below the context node, so the climb meets the context node before it meets
  the root), that the document in hand keeps the links it began with, and that
  attributes are linked to nothing.

`LibraryThreadsProofs`:

* `OneHolder`: `RSpec => []MutualExclusion` for the mutex alone, and
  `LibraryHasOneHolder`: `LSpec => []MutualExclusion` for the library, each of whose
  steps is a step of the mutex or leaves it alone.
* `Refinement`: the mutex implements `ReentrantLock`. Between two calls `held` and
  `tid` are what the abstract lock has; a thread that has woken re-reads `held`, so
  that a signal that comes late does no harm.
* `TypeCorrect`: in particular `waiters` is never taken below 0. `WaitInv` says that
  it counts the threads that wait: this takes the cardinality of finite sets.
  `MutualExclusion` speaks of threads that have returned with the lock; the
  invariant adds what the fields say of them and who is inside the pthread mutex.
* `LibraryInitialisedOnce`: `LSpec => []InitialisedOnce`, and
  `ErrorsFindTheirHandler`: `LSpec => []ErrorsReachTheirHandler`, for any number of
  threads and any programs made of `ApiCalls`. Where a thread is follows from
  the calls it still has to make, so the inductive invariant `Placed(F, k)`
  gives each thread a label `F[t]`, and the library the number `k` of the next
  subsystem. `Shape` ties the labels to the front of `code` and says that
  behind it no call of the inside of a lock is left; `Closed`
  that a label inside a lock has the mutex, so that two threads never have
  one both (`Alone`), also while the process has one thread and the mutexes do
  nothing; `Built` that exactly the subsystems before `k` are made, each once, and
  who is making the next; `Sighted` that what was initialised before there was a
  second thread is seen by whoever lives (`SightKept`: a thread is only started by one
  who sees, and no other step takes a thread out); `Ids` that living threads differ in `pthread_t`, and that
  `lib.main` was written before it is read. `Ordered` is about the calls
  further back: what needs the library, or the thread's state, stands
  behind a call that sees to it. `Paired` says where a handler stands without its own
  context: in the defaults of a thread that is between the two writes, and nowhere
  else. `Somewhere` hides `F` and `k`. There is one lemma for each action, and for
  each part one on what leaves it alone (`BuiltKept`, `ClosedKept`, `OrderedKept`, ...).
* `NoDefaultLost`: `LSpec => []DefaultsHandedOver`, for programs that set no two
  defaults to the same value (`DefaultsDiffer`, which the run's programs do: with
  two equal values one thread may rightly be handed what another was handed). Every
  step is a turn of one thread, which makes some calls in the place of its first
  (`Turn`, `EveryStep`). `SwapInv` says that one call at most is still to come
  for each value (`AtMostOne`), none for what is the default or was handed to
  someone (`Absent`), and that whoever was handed what is still the default is
  about to replace it: such a thread is in the mutex, and alone there.
* `DictionariesKept`: `LSpec => []DictKept`, for any number of threads and
  dictionaries and any programs whose references add up (`ReferencesGivenBack`): there is a
  list `share` of the references each thread has before each of its calls, where
  it makes them, takes more of what it has, gives each back once, and hands some to a thread that
  it starts; threads and dictionaries are made once. The code leaves this to its callers,
  and a program that gives back what it does not have can free what another counts on. TLC
  finds such a list for each program of the run (`MCReferencesGivenBack`). It is a list of the
  *program*: that the counters in memory agree with it at each step of every
  interleaving, with the unlocked tests and the calls inside calls, is what is proved.
  `DictInv` carries the list along as the calls are expanded: `Ledger(H)` says how many
  references each thread has when `r` of its calls are left, whatever these are by
  then (`Gain`: half of a `DictFree` is a `ReadRefs` by -1, what `SetSub` links is
  the inheriting dictionary's from then on). `Counted` says that a
  counter is the number of references of the threads that have been started (`Owned`) and
  of the dictionaries that inherit and have not begun to give up (`Heirs`); what a
  thread that is yet to be started has is with the one that starts it. `Locks` says that who is between
  reading and writing a counter is alone there, and that `DictFree` looks at it
  in the same stay (`CountsAlone`, `IfLastNext`), `Life` that a dictionary is made, linked
  and ended once, in this order, `Births` that a thread is started once, `Backing`
  that who takes a reference has one already, if only through a dictionary that
  inherits. From these follow `EverybodySure` (the first call of whoever lives finds its dictionary
  in use) and `DictKeptNow`: with a counter at 0 nobody has a reference left, so that no
  list can still hold a call on that dictionary (`NoMore`, `NoneLater`: by induction along
  the list).

`DataProofs`, `CachesStayLive`: `TSpec => []CachesLive`. The invariant says
the same thread by thread and address by address: what a key holds belongs to a
living thread and is of the key's kind, no other thread holds it, and what is
allocated is in a key or a list that a raising search left. There is a lemma for
an object that is made, one that is destroyed, and each way a search ends. New addresses are the ones freed, so that a stale key would show.

`DataProofs`, `BuiltWhereItBelongs`: `BSpec => []BuiltInItsBlock`. The
invariant adds the types and what the outer blocks will restore.

`XPathProofs`, `XPathContext`:

* `ObjectsOwnedOnce`: `CSpec => []OwnedOnce`, for any number of objects, any limits
  and any cache sizes. `HeapOK(h, S)` says of a heap and a set of
  objects that exactly these are in use: the others are free, or on one list of the
  cache once and emptied, or lost by an exception. Each operator of `XPathObjects`
  has a lemma that says how the set changes (it makes one more object, drops
  one, exchanges one for another) whatever else is in the heap, so that
  an action needs only the order in which it takes and gives. The inductive
  invariant `Ownership` adds that stack, constants and variables are disjoint, since
  an object that is on the stack and a variable's value would be given
  back twice much later.
* `ErrorsReachTheirCaller`: `CSpec => []ErrorsHandedOver`.
  `FailureReported` says why `rb_exc_raise` is never given nil: a run that failed is
  on its way to report, or an error was appended, and the handler is the
  evaluation's own since its begin.

`DataProofs`, about arrays, whose operations are loops and so folds of a sequence:

* The induction they take (`ListProofs`) is a fact about sets: a set of natural numbers has a least
  element (`LeastNatural`, from the well-foundedness of the strict subsets of finite
  intervals), so that a set that holds 0 and with each number the next holds them all
  (`InductionUpto`). `IterExists` and `FoldSteps` show that a fold over a sequence
  takes one step for each element; each loop has its lemma (`PushedAllSteps`,
  `KeptSteps`, `MergedSteps`, `AllAddedSteps`) that names what there is after each step.
* `RubySetsAnswer`: `RubySpec => []SliceAsDocumented`. The invariant is that no node is
  twice in a set and that sets are short enough for an int to count. The rest is
  arithmetic on the offsets (`Indexed`, `Sliced`, `FirstIsSlice`), which says why the
  sums of a negative offset and a length do not leave the int.
* `NodeSetsSound`: `NSpec => []SetsSound`. The invariant counts the copies
  of namespace nodes, should there be any, as the number of the places in the two sets that hold one. A merge
  compares each node with those the first set had at first only (`initNr`), which is enough
  because the second set repeats nothing; `MergedUpto` says so for each
  place reached, with the number of copies that have moved, also when the limit makes
  the additions fail from some place on.
* `SortsStably`: `SortSpec => []SortedStably`, for any keys, any size of the array and
  any values of `SMALL` and `RUN_BITS`. The invariant `SortInv` is that the array has
  every element once (`WholeArray`), that the runs of the stack lie one after
  the other up to `curr`, that each of them holds in order the elements that were at its places
  at first (`InOrderAt`), and that what is behind `curr` is as it was. That the elements of a run
  come from its own places is what makes the sort stable: all of a left run
  stood before all of the right one, so that of two equal keys the left one is the
  right one to take (`Compared`, `TakeFromLeft`, `PutFromRight`). The binary search has its lemma
  by induction on the width of its window (`PlaceFound`); a merge is
  followed by what is taken and what is left of both runs (`LeftMerged`, `RightMerged`); a
  falling run may be turned because `Falls` is strict (`FallingRun`).
  `MergeKeeps` holds for any two neighbours, so that for the order of the result
  nothing hangs on which ones `Collapsing` chooses, and `UnbalancedCollapses` is arithmetic
  on the lengths.
* `RunsFitTheStack`: `SortSpec => []StackHasRoom`, which is also a part of `SortedStably`.
  Here the choice matters. `Balanced` looks at the three topmost runs only, and a merge
  below the top makes a run longer in the middle of the stack, so that it does not
  follow from one test that every run is longer than the two above it together. `StackInv`
  says how deep it holds: for the whole stack where the next run is looked for
  (`push`), for all but the topmost three runs before the test (`check`), for all but
  the topmost four while the stack collapses. It is inductive because
  `TIM_SORT_COLLAPSE` looks at the fourth run too (`ABC`, timsort.h:458): `SettledFalls` is
  where that is used. Then the `k` topmost runs are as long as `Least[k]`, by
  induction on `k` (`StackGrows`), and a full stack would hold more elements than the array
  has. `StackAssumption` is that the arrays are no larger than that; with 128
  runs the bound is above `2^64`, and a size is a `size_t`. That the loop of `TIM_SORT` ends
  is not proved.

`TableProofs`, `HashTable`, for any names, payloads and sizes and any hash function (`BitXor`
need only give a word; TLC runs it with the real operation):

* `HashActsAsMap`: `HSpec => ActsAsMap`, the refinement of `NameMap` with the payload
  found under each name as the map. `Good(t, E)` says that the chains of `t` list the
  set of entries `E`, each entry in the chain its name belongs to, once, no name
  twice, no payload twice, and that the count is the size of `E`. Then the first
  place at which a chain holds a name is the only one in the table (`Finding`), and each
  operation has a lemma that says which entries there are after it and which
  step of the map that is. The ones that take an argument: a table grows in two loops, the
  first of which is sound because the new size is a multiple of the old one, so that two
  first entries never meet (`HeadsHeld`, by `PlaceOfMultiple`), the second by induction
  over the rest (`AllRestPlaced`); a QName in parts has the value of its text and finds
  the same entry (`ValueOfParts`, `PartsTellApart`, which need that no prefix is empty);
  `HashFree` stops when the count is used up, which is not before the last entry
  (`AllFreed`).
* `ScansVisitOnce`: `HSpec => []ScanVisitsOnce`. `Ahead` is what lies at and after the
  place of the scan; the invariant says that what the callback was given and what is
  ahead are together what there was at the beginning. `AheadOfRemoved` is the case that
  the code warns of: the place of a removed entry is taken by the one behind it.

`TableProofs`, `Dictionary`, for any strings, limits and sizes (`BitXor32` as above):

* `TextsStayIntact`: `DSpec => []TextsIntact`. `DictHolds(d, E)` says that the chains of
  `d` list the entries `E` under their keys, that the count is the size of `E`, and
  that each entry's string lies in its pool (`LiesAt`), no two at one place. Writing a string
  behind what a pool has disturbs nothing that lies there (`TextWritten`, with the room
  that `HasRoom` or the size of a new pool leaves for it); growing lists
  the same entries, each under its new key (`RekeyedListed`, `DAllPlaced`).
* `StringsKeepTheirAddress`: `OneKey` and `DSpec` imply `Interned`. What a dictionary promises
  is the set of its `Addresses`, strings with where they lie, of which a
  growing dictionary changes none and a lookup adds one. A search answers what
  that set has for the string (`ChainSearched`), whatever keys are in use; a string enters the
  dictionary in use only when neither has it, so that its address cannot
  come to hide the inherited one (`WhatIsAdded`). `OneKey` says that no string is asked
  for in two ways with different keys in a small dictionary. The seed of the keys (`Seed`) is any
  number, the same in a dictionary and the one it inherits from (`xml_dict.c:607`); it is 0 when
  `DICT_RANDOMIZATION` is not defined (`579`), and 77 in the run. The code
  does not see to it: a prefixed name asked for as a whole and in parts has two (section 3
  names the lines), and then the entry found first after growing
  may be the other one. The strings of the run satisfy it, which TLC checks.

Only model-checked: `ResultsInDocumentOrder` (the marks of all that was searched before, against
a reference that is recursive over the tree), `AxisExact` (its
reference is recursive over the tree), `XPathEval` and `XPathStream` as a whole (an
expression is evaluated by `RECURSIVE` operators, which the provers do not expand),
`SetFunctionsExact` (its sorts and selections are left uninterpreted by the provers),
`XPathValues` (it is a comparison of two sets of operators, case by case),
`NothingLeft` of `LibraryThreads` (it also says that nothing is missing: that a counter whose
references are all gone has been taken down, and by then the dictionary inherited
from as well; the ledger shows that no counter is too low, not that someone is still on the way to
lower it), and liveness.

## 5. What is not modelled

* lexbor's parsers, serialisers and matching of selectors: the submodule is not
  in the repository.
* The lifetime of Ruby wrappers, and a node that is moved to another document
  while its wrapper refers to the old one.
* Adding a node under itself or under its own descendant. Nothing in the code
  prevents it; the legal arguments in `NodeMutation` exclude it.
* `destroy` of a node with children: the code frees it and leaves their parent
  pointers; what follows depends on the allocator.
* What later calls do to a tree that an exception left regrouped
  (`nl_node_set.c:398`).
* What a thread reads of the globals that another one is initialising without an order
  between them (`sight` says which threads those are); what a failed or raising search
  leaves inside lexbor's parser that the thread's next search uses again (`nl_node.c:451`).
* Sorting several attributes (`xml_xpath.c:190`), and the marks in `node->user` in
  the XPath comparison.
* A failing `malloc`, anywhere.
* Prefixed names in steps and patterns; the patterns of XML Schema; the lexical
  rules of the XPath parser; exponents and longer fractions of numbers.
* `xml_encoding.c`, `xml_SAX2.c`, `xml_chvalid.c`, `xml_memory.c` and the headers under
  `libxml`: tables, declarations and accessors kept so that `xml_xpath.c` compiles, most
  of which nothing calls. `nl_xmlGetNodePath` (`Node#path`) is a formatter.
* Attributes, leaf node kinds, errors and the initialisation of the extension: calls
  of lexbor, or tables, without an order of their own to get wrong.
* `nl_xmlCleanupX` (nothing calls it) and the code for Windows.

`PROJECT.json` gives for each component what is left out of it, and for each hazard
without a property why there is none.

## 6. Where to go on

In this order:

1. A property for the tree that an exception leaves regrouped, with the calls of
   `NodeMutation` after it.
2. `XPathOrder` with several attributes and with marks in `node->user`; that
   `TurtleComparison` is a strict order of the nodes of one tree is worth a proof.
3. Prefixed names and namespaces, which `XPathContext` looks up but `XPathEval` and
   `XPathStream` do not use.
4. `destroy` of a node with children, with a model of what lexbor frees.
