# Verification of libroxml

TLA+ models of libroxml, TLC instances that check them, and TLAPS proofs. The
reference is the C code under `src/src/`; every definition that stands for code
is listed with its lines in `PROJECT.json` under `map`.

## The system

libroxml parses an xml document (a string or a file) into a tree of linked
nodes, navigates it, queries it with xpaths, edits it and writes it back. There
are no threads inside the library. Its callers may have several: loading,
closing and editing must be alone on a tree, everything else "can be safely
called simultaneously" (`roxml_doxy.h.in:74`).

| component | code | state | operations | modelled |
|---|---|---|---|---|
| xpath evaluation | `roxml_xpath.c` | id table at the root, token list of each node, activation records | `roxml_xpath`, `roxml_exec_xpath`, the pool functions | `RoxmlPool` |
| tree editing | `roxml_edit.c`, link functions of `roxml_core.c` | the nodes | `roxml_add_node`, `roxml_del_node`, `roxml_set_ns`, `roxml_close` | `RoxmlHeap`, `RoxmlEdit`, `OrderedTree` |
| parser callbacks | `roxml_core.c` | tree under construction, namespace context | `roxml_load`, the `_func_load_*` callbacks | `RoxmlLoad`, `RoxmlBuild` |
| memory manager | `roxml_mem.c` | one list of cells for all threads | `roxml_malloc`, `roxml_release` | `RoxmlMem`, `ThreadBlocks` |
| parser engine | `roxml_parser.c`, `roxml_buff.c` | table of callbacks, collision pool | `roxml_append_parser_item`, `roxml_parser_prepare`, `roxml_parse_line` | `RoxmlParser` |
| file loader | `roxml_file.c` | chunk, carry-over, position | `roxml_parse_file` | `RoxmlLoad` (partly) |
| xpath strings | `roxml_xpath.c` | the string that is cut, parsed paths | `roxml_parse_xpath`, `roxml_set_axes`, the `_func_xpath_*` callbacks | `RoxmlPath` |
| xpath walk | `roxml_xpath.c` | none of its own | `roxml_check_node`, axes, tests, predicates | `RoxmlXpath` |
| navigation | `roxml_nav.c`, `roxml_content.c` | none of its own | counts, n-th, named, siblings, position | `RoxmlNav` |
| content | `roxml_content.c` | none of its own | names, contents, namespaces, `roxml_escape` | `RoxmlContent` (partly) |
| commit | `roxml_commit.c` | output file, or buffer with its size and offset | `roxml_commit_file`, `roxml_commit_buffer` | `RoxmlCommit`, `RoxmlOutput`, `RoxmlDocument` |
| tools, fuse, win32 shim | `roxml_shell.c`, `roxml_cat.c`, `fuse.xml/`, `roxml_win32_native.h` | | | no: callers or platform glue |

How they interact: the parser engine calls the callbacks, the callbacks build
the tree with the link functions that editing uses too; an xpath walks the tree
and leaves tokens in the `priv` field of its nodes; what xpath evaluation and
the getters return is allocated by the memory manager. The shared state is the
tree, the id table and the tokens (under the mutex of the root) and the cell
list (under no lock).

What is hard, and what makes each component correct:

* *xpath evaluation*: several threads, and evaluations nested in the predicates
  of one another, share 239 ids and mark the same nodes. Each answer must be
  what the xpath selects, each node once; no id and no token may outlive its
  evaluation; ids may run out in the middle of anything; the three loops must
  end.
* *editing*: one field (`next`) is the last child, the next attribute or the
  next definition according to the node; nodes point to definitions that can be
  deleted. The links must spell the tree the calls describe, and never lead to
  freed memory.
* *parser*: namespaces reach elements and attributes in document order through
  several pieces of context; errors may occur between any two characters. The
  tree must be the one XML gives the text, and an error must leave nothing of
  it behind.
* *file loader*: callbacks read beyond the part of a chunk they were given, so
  that the place where a chunk ends must not change what is loaded, and the
  position in the file must stay that of the text; every load must end.
* *xpath strings and walk*: the string is cut in place, while parts of it are
  still to be read; the descendant axes are a mode of a recursion. The answer
  must be what XPath defines, from any context node.
* *getters*: counts, indices, names, siblings and positions are computed by
  different walks and must tell the same.
* *commit*: line breaks may stand between nodes but not next to a text; a file
  and a buffer get the same characters; the buffer is grown before a write that
  does not look at its size. What is written must load as what was committed.
* *memory*: releases from the front, the middle and the back keep both ends of
  a doubly linked list in three different functions.

## Modules

**`RoxmlPool`** - request ids and tokens (`roxml_xpath.c:86-290, 577-594,
898-1004`). `ids` is the id table, `tok[n]` the ids in the token list of node
`n`, `frame[<<t, d>>]` the activation record of the `d`-th nested
`roxml_exec_xpath` of thread `t`, `top[t]` the depth of its stack, `refused[t]`
a history variable. The mutex is taken around each elementary operation and
never around two, so one action is one critical section, or one step between
two: threads interleave exactly where the code lets them. The record has the
locals of the C function: `glob` (`glob_id`), `req` (`req_ids`), `cur` (the id
of the path being walked), `path` (`path_id`), `set` (`node_set`, `count`), and
the loop counter `i`. `phase` says which of the three loops over the paths is
running, `pc` where in it. The tree and the axes are left out: `Paths[q]` gives
for each path the sequence of candidates its walk brings to the end,
repetitions included, each with the xpath of its predicate. `Truth` is the
meaning of a predicate, constrained by `TruthAssumption`. `MCPool` has the
instances, each query with the xpath it stands for.

**`RoxmlHeap`** - the nodes and the link functions as operators on a heap
(address -> node record): `SetParent`, `AppendNode`, `ParentNode`, `DelNode`,
`ResetNs`, `Close`, ... one per C function. Addresses are natural numbers so
that allocation is deterministic; a freed node is blank, so that a write to it
shows.

**`RoxmlBuild`** - what each construct of a document does to the tree and to
the namespace context of the load (`roxml_load_ctx_t`), as a fold over the
constructs. It gives `RoxmlEdit` initial heaps that the parser builds, with the
`next` links, namespaces and inherited definitions it leaves.

**`RoxmlEdit`** - one document and the calls that change it. `Callers` names
the calls an instance allows beyond the plain ones; each of the names is a call
that the code treats wrongly. `Linked` says what a document is, link by link
(below, under Proofs); that the parser leaves such a heap is the assumption
`DocsAssumption` on `Docs`, which TLC evaluates for every document of the runs.

**`OrderedTree`** - what editing promises: an ordered tree of children and
attributes and the call that is made. `call` carries what the caller asked for
- the node, the position, the kind and whether a value was given - and a step
must answer that call: `Add` puts a node of that kind at that position into the
list of the node that takes it (`Takes`), `Delete` takes out the node named and
what is below it, `roxml_set_ns` leaves the lists alone. Only the names of the
new nodes are free. Its `Init` says what a tree is with the lists alone: every node but the root is in
one list, once, and below the root.
`RoxmlEdit` implements it with the mapping of `Tree`: the children of a node
are what following `chld` and `sibl` meets, its attributes what following
`attr` and `sibl` meets, and `call` is the `call` of `RoxmlEdit`, a history
variable that no action reads.

**`RoxmlMem`** - the cell list. One action is one turn of a loop or the
relinking after it. `Callers` again names what callers do; without
`"unserialised"` the calls run one at a time.

**`ThreadBlocks`** - what `roxml_release` promises: a sequence of blocks with
their owners, and the call each thread is inside of, so that a block goes only
because its owner's, or its address's, release is under way. `RoxmlMem`
implements it with the mapping of `Blocks`.

**`RoxmlPool_proofs`**, **`RoxmlPoolOr_proofs`**, **`RoxmlPoolAnd_proofs`**
(each builds on the one before), **`RoxmlMem_proofs`**,
**`RoxmlEdit_proofs`**, **`RoxmlEditTree_proofs`** and
**`RoxmlDocument_proofs`** - theorems about `RoxmlPool`, `RoxmlMem`, `RoxmlEdit`,
and about `RoxmlLoad` and `RoxmlOutput` with the composition of both.
**`RoxmlLemmas`** - induction over numbers, and induction and recursion
along a relation, in a form the provers can use.

The other modules are about one document from its text to its text, and build
on each other in this order:

**`RoxmlDefines`** - the two sizes of `roxml_defines.h` that behaviour depends
on, as constants.

**`RoxmlParser`** - the engine both parsers run on: the table of cells with its
collision pool, its copy by `roxml_parser_prepare`, and the callbacks that one
turn of `roxml_parse_line` tries.

**`RoxmlLoad`** - a load. The variables are those of `roxml_parse_file`: the
text `file`, the chunk size `bulk`, how much is read (`fpos`), the chunk
(`buffer`, `stop`, `chunk`) and the context `ctx`, which is `roxml_load_ctx_t`
with the nodes it builds (in the heap of `RoxmlHeap`, so that both modules use
the same link functions; `ctx.src` has their types and offsets). A step reads a
chunk, runs one turn of the engine, goes to the next chunk, or returns;
`phase` says which comes next. Each `_func_load_*` callback is an operator on
the context with the branches of the C function, error exits included.

A text is a sequence of symbols: marks and white space character by character,
but a name, a word, `xmlns` and `[CDATA[` are one symbol each, of length one.
Every offset, scan and look-ahead of the code is kept; only the insides of
words are gone.

**`RoxmlContent`**, **`RoxmlNav`** - names, contents, namespaces, escapes, and
the getters of nodes, as operators on a loaded context. `View` is all that the
getters tell of a subtree.

**`RoxmlCommit`** - the sequence of the writes that a commit of a node makes.
**`RoxmlOutput`** - the buffer they go to, `offset` and `len`, with one action
for each of the two functions that write.

**`RoxmlDocument`** - the composition: a load, then a commit of any part of the
document, write by write, to a file or to a buffer (`dest`, `todo`, `printed`,
`out`), then a load of what was written (`round`), compared with what was
committed (`expect`).

**`RoxmlPath`** - the xpath parser on the same engine. The context is the one
of the code; a text is cut by the zeros the callbacks write, and steps and
conditions hold offsets into it, as the pointers of the code do.

**`RoxmlXpath`** - the evaluation of a parsed xpath, without the pools:
`RoxmlPool` has these, and leaves the walk out.

**`XmlDocument`**, **`XmlPath`** - the references: documents and xpaths as data,
how to write them down in several styles, and what they mean according to XML
and XPath. `XmlDocument` takes nothing from the code; `XmlPath` takes names,
contents and namespaces from the getters, the links of a node and the
conversion and comparison of digits, and walks the tree its own way. A string
that is not a number is NaN there, in no order with anything. `MCDocument`
compares.

## Runs

| run | bounds | shows |
|---|---|---|
| `PoolOr` | 2 threads, 2 nodes, 3 ids, nesting 2 | evaluations without `and` are exact, exclusive, clean, and return |
| `PoolAnd` | 1 thread, 2 nodes, 4 ids, nesting 3 | the same for predicates with a pair of and-ed paths |
| `MemCalls` | 2 threads, 3 cells | calls one at a time keep the list and return |
| `EditPlain` | 6 nodes, positions 0..3 | the tree after any sequence of calls, no namespaces |
| `EditNs` | 7 nodes, positions 0..1 | namespace references after any sequence of calls |
| `Document` | 9 documents in 2 styles and one in one, 82 texts with a mistake, all 780 texts of up to 4 marks; chunks of 5, 6, 7 and 9 | loading, reading, querying and writing, below |
| `PoolStaleAnswer`, `PoolSharedId`, `MemEmptyLast`, `MemRace`, `EditLaterText`, `EditDefaultNs` | | a divergence each, see below |

Why the bounds are enough. Two threads with a nested evaluation each need four
ids; `PoolOr` has three, so that every order of use, reuse and refusal of an id
occurs. Its queries have a node met twice in one walk, twice by two paths, and
predicates that hold and that do not. `PoolAnd` has an and-ed pair that holds,
one that fails on its second path, a failing pair with an or-ed path after it,
and a doubly nested pair that needs five ids where there are four: the last
id asked for is the one the code does not test. Three cells give a list a
front, a middle and a back. Six nodes allow a root, an element and four
children or attributes with values; positions 0, in the middle, at the end and
beyond it take the different branches of `roxml_parent_node`. `EditNs` has a
default definition, one after an attribute and one hidden by `xmlns=""`; the
largest of its documents takes all seven nodes, so that there something is added
after something was deleted.

The edit runs compare states by `Document`, which is all but `call` (`VIEW`):
what can happen next does not depend on the last call, and every step is checked
against its call whether or not the document it leads to has been met before.

`Document` asks five things of the code.

* Loading. A well-formed document gives the tree XML defines
  (`LoadedAsWritten`), from a buffer and by chunks of any size, so that a chunk
  may end between any two symbols. Offsets of nodes are those of the text
  (`PositionInSync`). Of the texts of `Files`, well-formed, spoilt or short, an
  accepted one gives a sound tree (`LoadedTree`), a refused one leaves no node but candidates of tags behind
  (`OnlyTagsLeft`), no callback writes to a node that was freed
  (`FreedUntouched`), and every load ends (`LoadProgress`: each turn reads
  something, and a carried part never fills a chunk; no fairness is needed to
  say it).
* Writing. Every element of a document that declares what it uses is committed
  on its own, in both formats and to both destinations, and loaded again:
  `RoundTrip`, `SameBreaks`, `Fits`.
* Getters: `GettersAgree` relates counts, indices, names, siblings and
  positions, for one type, for every set of types of children, and for each of
  these with the attributes; see below for what it leaves out of the last.
* Xpaths: `XpathAgrees` compares about fifty xpaths, each in long and short
  form, from every element of every document, with their meaning: all axes
  but `namespace`, tests, predicates of every kind, paths in predicates, and
  pairs with `and` and `or`. `PathFindsNode` takes the path that the
  getters give of an element and asks that it leads back to it and only to it.
* Escapes: `EscapeInverse`, for the texts of the documents and all strings of
  up to three of five symbols, so that an escape that is written, cut or made by
  decoding another one is among them.

A chunk is longer than its reserve (`BaseLen` = 4) by one to five symbols;
documents have 4 to 101, so that each is read in many chunks and each construct
is met at the start, in the middle and across the end of one. To
recognise a mark the callbacks look at up to four symbols. Thirty-six
addresses are more than any of the texts needs. `Broken` removes each symbol of
a document with prefixes, attributes, texts and a comment in turn, or all after
it. The constant `Answers` of `MCDocument` is `Xpath` of `RoxmlXpath`; a default
namespace is loaded and read but not committed (`DefaultNs`), see below.

The deadlock check is on in the pool and memory runs. The edit runs turn it
off because a closed document has no further call, `Document` because a load
that is not committed is the end of a behaviour.

Fairness. `RoxmlPool!FairSpec` and `RoxmlMem!FairSpec` ask weak fairness of
each thread that is inside a call: the code never waits for anything but the
mutex, which is released inside the action that takes it, so the only
assumption is that the scheduler lets every running thread run. Nothing makes
a caller call.

The refinements `ImplementsTree` and `ImplementsBlocks` are safety properties:
each step of the code is one step of the abstract specification, for the call
that was made, or a stutter.

## Proofs

TLC checks two threads and two nodes; the theorems hold for any number of
threads, nodes, ids (`FirstId..LastId` within `16..254`), queries and any
nesting depth. They assume what `RoxmlPool` states of its constants:
`IdsAssumption`, and `QueriesAssumption` (a parsed xpath has at least one path
and the first is an `or` path, which `roxml_parse_xpath` guarantees).

* `Framed` (`RoxmlPool_proofs`): `TypeInv /\ Stack` is inductive. `TypeOK` alone
  is not: that `req[path - 1]` or `ThisVisit` is defined depends on where the
  frame stands. `Good` says of a frame, for each group of program points, that
  its counters are inside the parsed xpath, that its global id is a real one
  once requested, that only a path of an `and` has an id, and that a walk of the
  first loop is of such a path. `Stack` says that the frames below the top wait
  (`"nested"`) and those above are off; it is needed because a return resumes
  the frame below. The proof has one lemma per action. `TypeCorrect`
  (`Spec => []TypeOK`) follows.
* `OrInvariant` (`RoxmlPoolOr_proofs`), under `AllOr` (no xpath has an `and`):
  `IdInv` (an id is in use exactly while one frame holds it) and `TokInv`
  (every token belongs to a frame that holds its id, has the node in its set and
  has not passed it yet in `roxml_release_id`) are inductive with
  `TypeInv /\ Stack`. Each step of a frame is shown to be one of five kinds
  (`Acquire`, `Quiet`, `Mark`, `Unmark`, `GiveBack`), and each kind to keep the
  invariants. The exclusiveness of ids carries the tokens: a frame can remove
  only its own because nobody shares its id. From it: `IdsAreExclusive`,
  `TokensAreOwned`, `QuiescenceIsClean` and `NoTokenIsStale`, the theorems of
  properties that `PoolOr` checks. `AllOr` is necessary: with an `and` ids are
  shared (`PoolSharedId`).
* `AnswersAreSound` and `AnswersAreExact` (`RoxmlPoolOr_proofs`), under
  `AllOr`. The inductive invariant is `AnswerInv`, three parts on top of
  `OrInv`. `AllPresent` is the converse of `TokInv`: a node of a set that has
  not been released yet does carry the token of its frame; without it
  `roxml_in_pool` could answer no for a node already selected, and select it
  twice. `Answered` says what is in the set while the walk is under way: only
  nodes of the answer, each once, and, if no request of the thread was refused,
  every candidate that was walked past and satisfies its predicate (`Walked`,
  `Complete`). `Waiting` ties a frame that waits for a predicate to the xpath
  that the frame above evaluates, so that the value handed back is that of the
  right predicate. When the loops end, `Walked` is everything and the answer is
  complete.
* `PairInvariant` (`RoxmlPoolAnd_proofs`), under `OneThread` (one thread queries
  the tree) and `OnePair` (no xpath has more than one `and`). Both are
  necessary: `PoolSharedId` has two threads, `PoolStaleAnswer` two `and`s in one
  xpath. `Owns` is what `HeldIds` should be: the ids an evaluation was given and
  has not released; `Spent` are the ids it has released and, because the ids
  of and-ed paths are released before the next `or` path and again at the end,
  will release a second time; `Owes` are the tokens it has yet to remove.
  `PairIds` and `PairTokens` are `IdInv` and `TokInv` with these. What makes the
  second release harmless is `PairSpent`: a spent id is owned by no evaluation
  below, which were given theirs while it was in use, and there is none above
  when the evaluation runs again, so the id is free (`SpentFree`). A step is
  shown to change only ids and tokens of its own (`PairStep`), which
  `QuietStep` and `TokenStep` reduce to a comparison of the record before and
  after. From it: `PairsLeaveNoToken` and `PairsLeaveTreeClean`.
* `PairAnswersAreSound` and `PairAnswersAreExact` (`RoxmlPoolAnd_proofs`), under
  the same two hypotheses: the answers of `PoolAnd`. `PairAnswerInv` adds to
  `PairInv` what the tokens *mean*. `Collected`: while a path of the pair is
  walked, and until the pair has been compared, the tokens of its id are on
  nodes the path selects and on no others, and, if no request was refused, on
  every one it has walked past (`Gathers` says which id that is: `cur`, or the
  stored id of the path before). `Compared`: what the scan of
  `roxml_compute_and` has found so far is true of the part of the set it has
  passed, and it removes the tokens only when one of the two paths selected
  nothing. `Answers`: once the pair is past (`Settled`), nodes in the set mean
  that the xpath holds, and a pair that holds has left nodes; the nodes of the
  remaining `or` paths are added as in `Answered`. `Waiting` is that of
  `AnswerInv`. A frame that waits keeps all this because what runs above it
  changes no token of an id it owns (`WaitsOn`, from `PairStep` and
  `PairSpent`). `PairTruthIs` reduces the truth of an xpath, a disjunction of
  groups of paths, to the pair and the single paths.

The memory manager is proved for any number of threads and cells, with
`CellsAssumption` (the addresses are finitely many; `HeadCell` and `Null` are
none of them).

* `SerialInv` (`RoxmlMem_proofs`), under `Serial` (`"unserialised"` not in
  `Callers`): `MemInv` is inductive. It says that some sequence `s` of the cells
  in use, each once, *is* the list: each `next` is the next element, each `prev`
  the one before, the head has both ends; and where a call under way stands in
  it. The invariant leaves the sequence existential because `From` follows the
  links step by step; that following `next` from the head yields `s`
  (`ChainIs`) is proved by induction on the length. The first, the last and the
  inner cells are unlinked in three functions, each with a lemma: the sequence
  after the call is the old one without that cell (`CutKeeps`). `SerialTypes`
  (`TypeOK`) and `SerialLinks` (`WellLinked`) follow. `Serial` is necessary
  (`MemRace`).
* `SerialBlocks` (`RoxmlMem_proofs`), under `Serial` and `Private`
  (`"shared all"` not in `Callers`): every step of `RoxmlMem` is a step of
  `ThreadBlocks` or leaves its variables alone (`ImplementsBlocks`). The case
  that needs the invariant is a walk: the cell found is the last of its thread,
  or the first with its address, because the walk has passed all others.
  `Private` is necessary: without it `RELEASE_ALL` frees blocks of other
  threads.

Editing is proved for any set of addresses, any documents that satisfy
`DocsAssumption`, any positions, and callers that keep to `Plain`: of the texts
of a parent they delete only the first, they do not delete the value of a
definition, and they give the root no attribute. Each of the three is
necessary: with the call allowed TLC finds a property violated (Known
divergences). Deleting a definition that is in use is allowed; it spoils
namespaces, not links.

* `EditInvariant` (`RoxmlEdit_proofs`): while the document is open `Linked` is
  inductive, and when it is closed no node is left. The properties that the runs
  check speak of whole lists, and say nothing of a node that no list leads to, so
  that none of them is inductive. `Linked` speaks of single links instead. One
  link leads to each node but the root (`Reached`); what `sibl` leads to has the
  same parent and is an attribute or not as well, what `chld` and `attr` lead to
  has the node for its parent (`Families`); `next` is a child without a sibling,
  and is there if and only if there are children (`Ends`); only texts hang from
  what is not an element (`KindsFit`), so that an attribute's attributes need not
  be freed. No path along the links is infinite, down or up (`Grounded`): down,
  the loops of the code end and its lists are finite; up, every node is below the
  root, which is what makes `roxml_close` free all of them.
* From it: `EditTypes`, `EditLinks`, `EditLast`, `EditParents` and `EditCloses`.
  `EditLast` needs that the one child without a sibling is the last of the list
  (`OneLast`), and `EditCloses` goes up from any node to the root.
* `NsInvariant`, under `Callers = {}` (no definition is deleted either that the
  value of an attribute, or another definition, has for its namespace; without
  that `EditDefaultNs` violates `NoDanglingNs`): `EditInv` and `Scoped` are
  inductive together. `Scoped` says that a namespace is a live definition whose
  element is the node itself or above it; `NsInScope` is the second half alone,
  and does not say that the node is a definition, so that it is not known that
  deleting a text leaves nobody with it for a namespace. The walk up to an
  element is a recursive function along `prnt` (`UnderDefIs`). What is above a
  node that stays, stays (`UnderIn`, `UnderSame`), so that a subtree goes with
  its definitions only when its users go too (`FreedScoped`). Deleting a
  definition relies on `roxml_reset_ns` visiting every user but those that
  `"used nsdef"` stands for, and handing down a namespace that is never the
  deleted one, since that has no effect above its element (`NotAbove`,
  `ResetNsScoped`). From it: `EditScopes` and `EditNsLinks`.
* An addition, at whatever place, sets one link to a node that goes on as that
  link did (`Attached`): `roxml_append_attr`, `roxml_append_other`,
  `roxml_prepend_node` and `roxml_insert_node` are shown to do that, with `next`
  corrected just when the link was the last one (`ParentNodeSettles`), and that
  to keep `Linked` (`AttachedKeeps`). A deletion makes the one link to the node go
  on as the node does (`Detached`; the loops of the code find that link,
  `PrecededIs`), and what is then freed is closed under children and
  attributes and contains no node from outside (`SubtreeDown`, `SubtreeUp`),
  which is why no link to it stays (`FreedKeeps`). `roxml_set_ns` and
  `roxml_reset_ns` visit nodes of the document only (`ScopeLive`).

* `EditImplementsTree` (`RoxmlEditTree_proofs`), under `Plain`: every step of
  `RoxmlEdit` is the step of `OrderedTree` for the same call
  (`ImplementsTree`): the node that takes the new one (`TargetTakes`), the
  position, the kind, the value and the subtree that goes are those asked for. `Linked` is what the proof needs of a state, so that it
  rests on `EditInvariant`. The lists of the map are recursive functions along
  `sibl`; instead of unfolding them, a lemma says that the sequence which the
  links follow from a head is unique (`Chain`, `ChainIs`, in
  `RoxmlEdit_proofs`), so that a new list is known once its links are checked.
  For an addition the choice between append, prepend and insert has put the
  link where the position says (`Stands`), and the list read is the old one with
  the node inserted there (`AttachedList`); all others are read as before
  (`AttachedOthers`). For a deletion the list of the node's parent is the old
  one without it (`FreedList`), and the nodes freed are those of
  `OrderedTree!Subtree` (`TreeSubtree`): the set that `roxml_del_tree` visits is
  closed under children and attributes and has only nodes whose parent is in it,
  and there is one such set, by induction down from the node and up from its
  members. `roxml_close` is the deletion of the root, and changes of namespaces
  leave kinds and lists alone (`RenamedMaps`).

Loading (`RoxmlDocument_proofs`), for any texts, sizes of chunks and
`ROXML_BASE_LEN`. Assumed are `FilesAssumption` (a text is a sequence),
`SymbolsAssumption` (there are finitely many characters; the table of the code
has 128) and `BulkAssumption` (a chunk is longer than its reserve):

* `LoadInSync` is `PositionInSync`. Whatever a callback does to the nodes and
  whichever branch it takes, it moves `pos` by what it returns
  (`Returns`), and all but the two for quotes read something or fail (`Reads`);
  there is one lemma per callback, each from what its parts leave alone
  (`Stays`). `CallbacksAre` is about the table: the items that
  `roxml_load` registers share no character, so that each has its callback
  after the registration, the collision pool stays empty, and
  `roxml_parser_prepare` gives the others the default one. That needs the items
  one after the other (`Registration`) and the characters in any order
  (`LoadTable`), for the two are folds. A turn therefore tries at most two callbacks and
  the second always reads or fails (`TurnIs`). `LoadInv` adds the chunks: while a text is read
  `pos` is `fpos - Len(buffer) + chunk`; a full chunk stops `BaseLen` before
  its end; what is carried over is no longer than that, hence there is room.
* `LoadProgresses` is `LoadProgress`, from the same invariant.
* `LoadTypes` is `TypeOK`: once the last chunk has been parsed nothing of
  `LoadInv` is left, and `TypeOK` is carried on from there.
* `DocumentInSync` has both for `DocSpec`, where what was written is loaded
  again. Its hypothesis, that the parser knows the characters of `file`, is the
  first part of `TypeOK`, which the run `Document` checks: that a commit writes
  characters of the document and of marks only would be an induction over the
  tree it walks.

The output buffer:

* `OutputFits` (`RoxmlDocument_proofs`), from `BaseLenAssumption` (the unit of
  growth is positive): `Fits` with the types of `offset` and `len` is inductive,
  because the growth is more than what is about to be written (`GrowthCovers`)
  whatever room was left. The steps of `RoxmlDocument` write to the buffer by
  the two actions of `RoxmlOutput` only.

roxml_escape:

* `EscapesInvert` (`RoxmlDocument_proofs`) is `EscapeInverse` for any strings and
  texts, from `DocumentsAssumption` (they are sequences of symbols). The code
  scans an encoded string from left to right and takes each escape it finds; what
  it makes is not scanned again, and an escape that the string had already has
  its `&` encoded. The proof gives each symbol its place in the encoded string
  (`EncodeIs`): the symbol itself, or `&` and a word. Decoding finds an escape at
  the places where one was written (`FoundIs`: the words differ, and no `&` is
  left without its word) and a symbol at all others, so that from each place
  on, beginning at the end, it gives back the rest of the string (`EscapesAre`).

Induction. The library's induction theorems take an operator, which the provers
cannot instantiate. `RoxmlLemmas` states induction over numbers with a set
instead (`SetInduction`): the statement for `n` becomes membership of `n` in a
set, which is of first order. That is enough for a list followed `n` times.
`Induction` is the same along any relation without infinite paths. The heap
operators of `RoxmlHeap` are recursive functions whose domain is the addresses;
`Recursion` says that such a function exists when each of its values depends on
those at the nodes a relation without infinite paths leads to, so that it
satisfies its equation (`LastOfIs`, `ListFromIs`, `TreeFromIs`, `BelowIs`,
`TreeSubtreeIs`, ...). `OrderedTree` takes a node out of a list with `RemoveAt`,
because `SelectSeq` has a meaning for TLC only.
That a document the parser builds is `Linked` and `Scoped` stays an assumption: it would be
an induction over the constructs that `RoxmlBuild` folds.

Only model-checked so far: in `Document`, what
compares trees and texts (`LoadedTree`, `OnlyTagsLeft`, `SameBreaks`,
`GettersAgree`, `PathFindsNode`), and `FreedUntouched`. These speak of the
texts of `Files` and no further: the flag `ns` of the context is cleared by the
next name only, so that after a prefix followed by `/`, `?` or `!` it outlives
its tag, and which candidates are valid then depends on the whole text so far and
not on the state of the callbacks. For well-formed texts it would be an
induction over the constructs, like `LoadedAsWritten`. Liveness (`CallsReturn`) is out of the
prover's reach and stays with TLC. So does what compares the code with a reference that
recurses over whole documents or xpaths (`LoadedAsWritten`, `XpathAgrees`,
`RoundTrip`): the induction would be over all of the callbacks at once.

## Known divergences

Each is a run whose property is what the documentation says, and that TLC finds
violated; `PROJECT.json` quotes the lines.

* `PoolStaleAnswer`: three and-ed paths leave tokens behind
  (`roxml_compute_and` empties the node set), which a later evaluation takes
  for its own. `NoStaleToken` is violated by the same instance.
* `PoolSharedId`: the id of an and-ed path is released twice, and the second
  release can free an id of another thread.
* `MemEmptyLast`: `RELEASE_LAST` by a thread that owns nothing never returns
  while another thread owns something.
* `MemRace`: two threads that allocate at once lose a cell.
* `EditLaterText`: deleting a text unlinks the first text of the parent,
  whichever was meant.
* `EditDefaultNs`: deleting a default namespace definition leaves the values of
  attributes pointing to it.

Reproducible by changing constants, without a run of their own:

* `"shared all"` in `Callers` of `RoxmlMem` violates `ImplementsBlocks`:
  `RELEASE_ALL` frees the blocks of every thread, `roxml.h:195` says those of
  the current one.
* `"nsdef value"` in `Callers` of `RoxmlEdit`, with a document that has two
  definitions, violates `ImplementsTree`: the parser threads its list of
  definitions through `next` (`roxml_core.c:789`), which `roxml_append_other`
  takes for the last child.
* `"root attr"` in `Callers` violates `CloseFreesAll`: `roxml_close` does not
  free attributes given to the document root.
* A query that ors two and-ed pairs, the second void, violates `AnswerExact` of
  `RoxmlPool`: the second pair empties the node set of the first.

The documents and xpaths of `MCDocument` avoid what follows, found while
modelling; each shows by adding an instance.

Loading and writing (`roxml_core.c`, `roxml_file.c`, `roxml_commit.c`):

* A default namespace is written `xmlns:="u"` and an attribute in it `:x="v"`
  (`DefaultNs = TRUE` violates `RoundTrip`).
* `xmlns:p="u" xmlns="v"` in one tag: the element loses its prefix.
* `<b xmlns="" >`, with white space, inherits the default namespace again, and
  attributes inherit one at all. Definitions never go out of scope.
* White text is kept after a tag with attributes that follows other text: the
  flag `empty_text_node` is not reset on that way.
* A CDATA section with `]]x` is an error; one that ends with `]]]>` loses a `]`.
* A quote in a processing instruction hides its end; the content of `<?p?>` has
  size -1. A comment with `--` in it ends early. `xmlns=` needs a value.
* A run of white space that covers the reserve at the end of a chunk loses it.
* A value in single quotes that has a double one is written unreadable.
* Closing tags are not compared with the opening ones; `<a/` is accepted, and
  leaks its candidate, as `<p:q:b>` and `<q:/>` do (`OnlyTagsLeft` allows for
  tags).

Getters (`roxml_content.c`, `roxml_nav.c`):

* The n-th node of attributes and children together skips the first child
  (`roxml_content.c:379`).
* The previous sibling of an attribute is the last child element of its element.
* Positions count by local name: `//b[1]` finds nothing in
  `<a xmlns:p="u"><p:b/><b/></a>`.

Xpaths (`roxml_xpath.c`):

* A later path of a union that is absolute makes the first one absolute, and is
  relative itself; `a|b` without spaces loses the character before the bar.
* `b[last()]` compares with the number of child elements of any name; the
  position in `*[n]` counts texts too (`Uniform` in `MCDocument`).
* `following::` looks only at the siblings that follow and below them;
  `following::` and `preceding::` do not search below a match. On the root
  `following::` and `preceding-sibling::`, and `namespace::` on a node without
  namespace, dereference a null pointer.
* A second predicate replaces the first. One that starts with `/` never holds.
  A second condition knows only attributes. `[A and B or A and C]` is empty when
  the second pair fails.
* `self` and `parent` take any node whatever the test, and the walk goes on
  after a predicate that failed. `node()` takes attributes.
* A string that is not a number compares as 0, where XPath has NaN:
  `//b[@x <= '3']` finds `<b x="v"/>` and `<b x=""/>`.
* `[last() = 2]` and `[first() = 1]` never hold: `roxml_double_oper`
  (`roxml_xpath.c:409`) makes 0 of an operator that compares.
* `[@x = '']` compares numbers; an absent attribute in a comparison of numbers
  gives NULL to `strtol`. A function outside brackets dereferences a null
  condition.

## Not modelled

Insides of words, and so the truncation of names and contents to a given size,
`MAX_NAME_LEN`, `roxml_prepare_buffer` and numbers with a point. The position
of the source file that concurrent getters share (`roxml_file.c:22`). The
escaped copy that a refused `roxml_add_node` leaks (`roxml_edit.c:367`). What
runs past the end of a string on an xpath with an open bracket. The `PTR_*_STAR`
cells of the memory manager, which only external callers could ask for, and the
block sizes. Failures of `malloc` other than in `roxml_malloc`. Nodes that are
not in a document (`roxml_add_node(NULL, ...)` is modelled from its return value
on, under the created root). `roxml_set_type` and the calls on a document the
caller has closed. Contents in `RoxmlEdit`, and edits between the load and the
commit of `RoxmlDocument`. In `RoxmlPool`, changes of the tree during an
evaluation: the library asks its callers to exclude them. The tools, the stub
and the fuse file system are callers that keep no state in the library.

## Plan

1. Proofs: that a text which is loaded leaves nothing unlinked (`OnlyTagsLeft`).
2. The getters as steps of several threads that share the source file.
3. Edits between the load and the commit of a document.
