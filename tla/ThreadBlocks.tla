---------------------------- MODULE ThreadBlocks ----------------------------
(***************************************************************************)
(* What roxml_release (src/src/roxml.h) promises of the memory the library *)
(* hands to its callers: a sequence of blocks, the latest last, each       *)
(* belonging to the thread it was allocated for.  A call is under way from *)
(* the step that asks for it to the one that ends it.                      *)
(***************************************************************************)
EXTENDS Integers, Sequences, SequencesExt

CONSTANTS Threads, Data

VARIABLES
    held,    \* the blocks not released: [owner : Threads, data : Data]
    asked    \* asked[t]: the call that thread t is inside of

vars == <<held, asked>>

Requests == {<<"malloc">>, <<"last">>, <<"all">>} \cup ({"pointer"} \X Data)

Own(t) == {i \in 1..Len(held) : held[i].owner = t}

Init == held = <<>> /\ asked = [t \in Threads |-> <<"idle">>]

Ask(t) ==
    /\ asked[t] = <<"idle">>
    /\ \E r \in Requests : asked' = [asked EXCEPT ![t] = r]
    /\ UNCHANGED held

Done(t) == asked' = [asked EXCEPT ![t] = <<"idle">>]

\* A new block after the others; none when there is no memory left.
Alloc(t) ==
    /\ asked[t] = <<"malloc">>
    /\ \/ UNCHANGED held
       \/ \E d \in Data : held' = Append(held, [owner |-> t, data |-> d])
    /\ Done(t)

\* RELEASE_LAST: the latest block of the calling thread.
Latest(t) ==
    /\ asked[t] = <<"last">>
    /\ \/ Own(t) = {} /\ UNCHANGED held
       \/ \E i \in Own(t) : /\ \A j \in Own(t) : j <= i
                            /\ held' = RemoveAt(held, i)
    /\ Done(t)

\* RELEASE_ALL: the blocks of the calling thread, one after the other ...
OneOfAll(t) ==
    /\ asked[t] = <<"all">>
    /\ \E i \in Own(t) : held' = RemoveAt(held, i)
    /\ UNCHANGED asked

\* ... until it has none.
AllOf(t) == asked[t] = <<"all">> /\ Own(t) = {} /\ Done(t) /\ UNCHANGED held

\* A pointer: the first block with that address, if there is one.
One(t) ==
    /\ \E d \in Data :
          /\ asked[t] = <<"pointer", d>>
          /\ \/ (\A i \in 1..Len(held) : held[i].data # d) /\ UNCHANGED held
             \/ \E i \in 1..Len(held) :
                   /\ held[i].data = d
                   /\ \A j \in 1..(i - 1) : held[j].data # d
                   /\ held' = RemoveAt(held, i)
    /\ Done(t)

Next ==
    \E t \in Threads :
        Ask(t) \/ Alloc(t) \/ Latest(t) \/ OneOfAll(t) \/ AllOf(t) \/ One(t)

Spec == Init /\ [][Next]_vars
=============================================================================
