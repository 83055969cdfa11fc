------------------------------ MODULE RoxmlMem ------------------------------
(***************************************************************************)
(* The memory manager (src/src/roxml_mem.c).  What the library hands to    *)
(* its callers (names, contents, node sets) is recorded in one doubly      *)
(* linked list of cells, shared by all threads, between a static head      *)
(* whose next is the first cell and whose prev is the last one.  There is  *)
(* no lock.                                                                *)
(*                                                                         *)
(* An action is one turn of a loop or the relinking after it; the calls    *)
(* of different threads interleave between actions when the callers do     *)
(* not serialise them.  The size of a block and the PTR_*_STAR types, that *)
(* no call of the library passes, are left out; a block has the name of    *)
(* its cell, and a freed cell is blank.                                    *)
(*                                                                         *)
(* Callers names what the callers of the instance do:                      *)
(*    "unserialised" calls of several threads under way at once            *)
(*    "empty last"   RELEASE_LAST by a thread that has no cell, while      *)
(*                   others have                                           *)
(*    "shared all"   RELEASE_ALL while other threads have cells            *)
(***************************************************************************)
EXTENDS Integers, Sequences, FiniteSets

CONSTANTS
    Threads,
    Cells,    \* the addresses malloc returns; it fails when all are in use
    HeadCell,     \* &head_cell
    Null,
    Callers

ASSUME CellsAssumption ==
    /\ IsFiniteSet(Cells) /\ HeadCell \notin Cells
    /\ Null \notin Cells \cup {HeadCell}
    /\ Null \notin Threads
    /\ Callers \subseteq {"unserialised", "empty last", "shared all"}

Ptr == Cells \cup {HeadCell, Null}

VARIABLES
    cell,   \* the memory_cell_t at each address, and the head
    used,   \* the addresses allocated and not freed
    call    \* call[t]: where thread t is in roxml_malloc or roxml_release

vars == <<cell, used, call>>

Idle == [pc |-> "idle", at |-> Null, data |-> Null]
Empty == [next |-> Null, prev |-> Null, id |-> Null, ptr |-> Null]

Init ==
    /\ cell = [c \in Cells \cup {HeadCell} |-> Empty]
    /\ used = {}
    /\ call = [t \in Threads |-> Idle]

-----------------------------------------------------------------------------
At(t, pc) == call[t].pc = pc
Next_(t) == cell[call[t].at].next
Prev_(t) == cell[call[t].at].prev

Enter(t, pc, data) ==
    /\ At(t, "idle")
    /\ "unserialised" \notin Callers => \A u \in Threads : At(u, "idle")
    /\ call' = [call EXCEPT ![t] = [pc |-> pc, at |-> HeadCell, data |-> data]]

Step(t, to) ==
    /\ call' = [call EXCEPT ![t].at = to]
    /\ UNCHANGED <<cell, used>>

Leave(t) == call' = [call EXCEPT ![t] = Idle]

\* The end of roxml_release: the head never points to itself.
Settled(cs) ==
    [cs EXCEPT ![HeadCell].next = IF @ = HeadCell THEN Null ELSE @,
               ![HeadCell].prev = IF @ = HeadCell THEN Null ELSE @]

Free(d, cs) ==
    /\ cell' = [cs EXCEPT ![d] = Empty]
    /\ used' = used \ {d}

Return(t) ==
    /\ Leave(t)
    /\ cell' = Settled(cell)
    /\ UNCHANGED used

-----------------------------------------------------------------------------
(* roxml_malloc.                                                           *)

Malloc(t) == Enter(t, "malloc", Null) /\ UNCHANGED <<cell, used>>

ToTheEnd(t) == At(t, "malloc") /\ Next_(t) # Null /\ Step(t, Next_(t))

AtTheEnd(t) ==
    /\ At(t, "malloc") /\ Next_(t) = Null
    /\ call' = [call EXCEPT ![t].pc = "link"]
    /\ UNCHANGED <<cell, used>>

\* cell->next = malloc(...) and what follows; calloc may fail, the cell stays.
Link(t) ==
    /\ At(t, "link")
    /\ LET at == call[t].at IN
       \/ \E c \in Cells \ used : \E ptr \in {c, Null} :
            /\ cell' = [cell EXCEPT ![at].next = c,
                                    ![c] = [next |-> Null, prev |-> at,
                                            id |-> t, ptr |-> ptr],
                                    ![HeadCell].prev = c]
            /\ used' = used \cup {c}
       \/ /\ used = Cells
          /\ cell' = [cell EXCEPT ![at].next = Null]
          /\ UNCHANGED used
    /\ Leave(t)

-----------------------------------------------------------------------------
(* roxml_release.                                                          *)

Owns(t) == \E c \in used : cell[c].id = t

ReleaseLast(t) ==
    /\ "empty last" \in Callers \/ Owns(t) \/ used = {}
    /\ Enter(t, "last", Null) /\ UNCHANGED <<cell, used>>

\* Mutant: any thread's cell will do.
MineOrNot(t) == Prev_(t) # Null

Mine(t) == Prev_(t) # Null /\ cell[Prev_(t)].id = t

Backwards(t) ==
    At(t, "last") /\ Prev_(t) # Null /\ ~Mine(t) /\ Step(t, Prev_(t))

NothingLast(t) == At(t, "last") /\ Prev_(t) = Null /\ Return(t)

\* Mutant: the head keeps pointing to the last cell it had.
FreeLastStale(t) ==
    /\ At(t, "last") /\ Mine(t)
    /\ LET d == Prev_(t)
           p == cell[d].prev
           n == cell[d].next
       IN Free(d, IF n # Null
                  THEN [[cell EXCEPT ![p].next = n] EXCEPT ![n].prev = p]
                  ELSE [cell EXCEPT ![p].next = Null])
    /\ Leave(t)

FreeLast(t) ==
    /\ At(t, "last") /\ Mine(t)
    /\ LET d == Prev_(t)
           p == cell[d].prev
           n == cell[d].next
       IN Free(d, Settled(
              IF n # Null
              THEN [[cell EXCEPT ![p].next = n] EXCEPT ![n].prev = p]
              ELSE [cell EXCEPT ![HeadCell].prev = IF p = HeadCell THEN Null
                                                   ELSE p,
                                ![p].next = Null]))
    /\ Leave(t)

ReleaseAll(t) ==
    /\ "shared all" \in Callers \/ \A c \in used : cell[c].id = t
    /\ Enter(t, "all", Null)
    /\ cell' = [cell EXCEPT ![HeadCell].prev = Null]
    /\ UNCHANGED used

\* Mutant: the head does not go on to the next cell.
FreeFirstAgain(t) ==
    /\ At(t, "all") /\ cell[HeadCell].next # Null
    /\ Free(cell[HeadCell].next, cell)
    /\ UNCHANGED call

FreeFirst(t) ==
    /\ At(t, "all") /\ cell[HeadCell].next # Null
    /\ LET d == cell[HeadCell].next
           n == cell[d].next
       IN Free(d, [c \in Cells \cup {HeadCell} |->
                      CASE c = HeadCell -> [cell[c] EXCEPT !.next = n]
                        [] c = n -> [cell[c] EXCEPT !.prev = HeadCell]
                        [] OTHER -> cell[c]])
    /\ UNCHANGED call

NothingFirst(t) == At(t, "all") /\ cell[HeadCell].next = Null /\ Return(t)

\* Any pointer: one that the library did not allocate is looked for in vain.
ReleasePointer(t, data) == Enter(t, "pointer", data) /\ UNCHANGED <<cell, used>>

Found(t) == Next_(t) # Null /\ cell[Next_(t)].ptr = call[t].data

Forwards(t) ==
    At(t, "pointer") /\ Next_(t) # Null /\ ~Found(t) /\ Step(t, Next_(t))

NotFound(t) == At(t, "pointer") /\ Next_(t) = Null /\ Return(t)

\* Mutant: the next cell keeps its link to the one that is freed.
FreePointerOneWay(t) ==
    /\ At(t, "pointer") /\ Found(t)
    /\ Free(Next_(t), [cell EXCEPT ![call[t].at].next = cell[Next_(t)].next])
    /\ Leave(t)

FreePointer(t) ==
    /\ At(t, "pointer") /\ Found(t)
    /\ LET at == call[t].at
           d == Next_(t)
           n == cell[d].next
           last == IF at = HeadCell THEN Null ELSE cell[d].prev
           g == IF n # Null THEN [cell EXCEPT ![n].prev = at]
                ELSE [cell EXCEPT ![HeadCell].prev = last]
       IN Free(d, Settled([g EXCEPT ![at].next = n]))
    /\ Leave(t)

-----------------------------------------------------------------------------
Go(t) ==
    \/ ToTheEnd(t)  \/ AtTheEnd(t)    \/ Link(t)
    \/ Backwards(t) \/ NothingLast(t) \/ FreeLast(t)
    \/ FreeFirst(t) \/ NothingFirst(t)
    \/ Forwards(t)  \/ NotFound(t)    \/ FreePointer(t)

Next ==
    \E t \in Threads :
        \/ Malloc(t) \/ ReleaseLast(t) \/ ReleaseAll(t)
        \/ \E data \in Cells \cup {Null} : ReleasePointer(t, data)
        \/ Go(t)

Spec == Init /\ [][Next]_vars

\* A thread inside a call runs on: nothing blocks in this module.
FairSpec == Spec /\ \A t \in Threads : WF_vars(Go(t))

-----------------------------------------------------------------------------
(* Properties.                                                             *)

\* The types of the list and of the calls; a cell in use has an owner, and
\* nothing was written to a cell after it was freed.
TypeOK ==
    /\ \A c \in Cells : IF c \in used THEN cell[c].id \in Threads
                                      ELSE cell[c] = Empty
    /\ cell \in [Cells \cup {HeadCell} ->
                    [next : Ptr, prev : Ptr, id : Threads \cup {Null},
                     ptr : Cells \cup {Null}]]
    /\ used \subseteq Cells
    /\ call \in [Threads -> [pc : {"idle", "malloc", "link", "last", "all",
                                   "pointer"},
                             at : Ptr, data : Cells \cup {Null}]]

\* The cells from c on, following next.
From(c) ==
    LET from[n \in 0..Cardinality(Cells)] ==
            [k \in Ptr |-> IF k = Null \/ n = 0 THEN <<>>
                          ELSE <<k>> \o from[n - 1][cell[k].next]]
    IN from[Cardinality(Cells)][c]

Chain == From(cell[HeadCell].next)

Quiet == \A t \in Threads : At(t, "idle")

\* Between calls the list holds exactly the cells not released, each once, and
\* reads the same backwards from the head's prev as forwards from its next: no
\* sequence of releases in any order loses a cell or makes one unreachable for
\* the release that looks for it from the other end.
WellLinked ==
    Quiet =>
        LET n == Len(Chain) IN
        /\ {Chain[i] : i \in 1..n} = used
        /\ n = Cardinality(used)
        /\ cell[HeadCell].prev = IF n = 0 THEN Null ELSE Chain[n]
        /\ \A i \in 1..n : cell[Chain[i]].prev = IF i = 1 THEN HeadCell ELSE Chain[i - 1]

\* The blocks in the order of the list, and what each thread has asked for.
Held == [i \in 1..Len(Chain) |-> [owner |-> cell[Chain[i]].id,
                                  data |-> cell[Chain[i]].ptr]]

Asked == [t \in Threads |->
             CASE At(t, "link") -> <<"malloc">>
               [] At(t, "pointer") -> <<"pointer", call[t].data>>
               [] OTHER -> <<call[t].pc>>]

\* The list behaves as ThreadBlocks says: RELEASE_LAST frees the latest block
\* of the calling thread and of no other, a pointer frees that block,
\* RELEASE_ALL the blocks of the calling thread, and a call that finds nothing
\* to free leaves the rest alone.
Blocks == INSTANCE ThreadBlocks WITH
    Data <- Cells \cup {Null}, held <- Held, asked <- Asked

ImplementsBlocks == Blocks!Spec

\* Every call of roxml_malloc and roxml_release returns.
CallsReturn == \A t \in Threads : ~At(t, "idle") ~> At(t, "idle")

=============================================================================
