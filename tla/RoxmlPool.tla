------------------------------ MODULE RoxmlPool ------------------------------
(***************************************************************************)
(* The request ids and the node tokens of the xpath engine                 *)
(* (src/src/roxml_xpath.c).                                                *)
(*                                                                         *)
(* Every evaluation of an xpath (roxml_exec_xpath) marks the nodes it has  *)
(* put in its answer with a token that carries the evaluation's request    *)
(* id, so that a node visited twice is answered once.  Ids come from a     *)
(* table kept at the root of the tree and shared by all threads.  One      *)
(* mutex guards the table and the token lists; it is taken and released    *)
(* around each elementary operation (roxml_request_id, roxml_in_pool,      *)
(* roxml_add_to_pool, roxml_del_from_pool, the last lines of               *)
(* roxml_release_id) and never around two of them, so an action of this    *)
(* module is one such critical section, or one step between two of them.   *)
(*                                                                         *)
(* A predicate [...] that holds an xpath is evaluated by a nested          *)
(* roxml_exec_xpath while the outer one is in the middle of its walk: an   *)
(* evaluation is an activation record, a frame, and each thread has a      *)
(* stack of them.                                                          *)
(*                                                                         *)
(* Data left out: the tree and the axes.  A parsed path is the sequence of *)
(* candidates its walk (roxml_check_node) brings to the end of the path,   *)
(* repetitions included, each with the nested xpath its predicate asks     *)
(* for.                                                                    *)
(***************************************************************************)
EXTENDS Integers, Sequences

CONSTANTS
    Threads,    \* the threads that query one tree
    Nodes,      \* the nodes of the tree
    FirstId,    \* ROXML_XPATH_FIRST_ID, 16 in the code
    LastId,     \* the last id of the table: 254 in the code, a bound here
    Queries,    \* the parsed xpaths
    TopQueries, \* those a caller passes to roxml_xpath
    NoPred,     \* a candidate whose predicate holds no xpath
    Paths,      \* Paths[q]: the '|', 'or', 'and' separated paths of q
    Truth,      \* Truth[q]: does q select anything (the reference meaning)
    MaxDepth    \* how deep the predicates of Queries nest

Ids == FirstId..LastId
Visit == [node : Nodes, pred : Queries \cup {NoPred}]
Path == [rel : {"or", "and"}, visits : Seq(Visit)]
Frames == Threads \X (1..MaxDepth)

\* FIRST_ID keeps the ids clear of roxml_xpath's own use of the table bytes:
\* the root's token list is threaded through the bytes of ids[7..14].
ASSUME IdsAssumption ==
    /\ FirstId \in 16..254
    /\ LastId \in FirstId..254

\* The first path of a parsed xpath has rel = OR (roxml_parse_xpath).
ASSUME QueriesAssumption ==
    /\ TopQueries \subseteq Queries
    /\ Queries # {} /\ NoPred \notin Queries
    /\ MaxDepth \in Nat \ {0}
    /\ Paths \in [Queries -> Seq(Path)]
    /\ \A q \in Queries : Len(Paths[q]) > 0 /\ Paths[q][1].rel = "or"

-----------------------------------------------------------------------------
(* The meaning of an xpath, stated without ids or tokens.                  *)

Visits(q, p) == Paths[q][p].visits

Selected(v) == IF v.pred = NoPred THEN TRUE ELSE Truth[v.pred]

Hits(q, p) ==
    {Visits(q, p)[k].node :
        k \in {j \in 1..Len(Visits(q, p)) : Selected(Visits(q, p)[j])}}

Answer(q) == UNION {Hits(q, p) : p \in 1..Len(Paths[q])}

\* The paths and-ed with path p, an 'or' path.
Group(q, p) ==
    {r \in p..Len(Paths[q]) : \A s \in (p + 1)..r : Paths[q][s].rel = "and"}

OrOnly(q) == \A p \in 1..Len(Paths[q]) : Paths[q][p].rel = "or"

ASSUME TruthAssumption ==
    /\ Truth \in [Queries -> BOOLEAN]
    /\ \A q \in Queries :
          Truth[q] = \E p \in 1..Len(Paths[q]) :
                        /\ Paths[q][p].rel = "or"
                        /\ \A r \in Group(q, p) : Hits(q, r) # {}

-----------------------------------------------------------------------------
VARIABLES
    ids,     \* xpath_tok_table_t.ids: 1 while the id is in use
    tok,     \* tok[n]: the ids in the token list of node n (node_t.priv)
    frame,   \* frame[<<t, d>>]: the d-th nested roxml_exec_xpath of thread t
    top,     \* top[t]: how many evaluations thread t is inside of
    refused  \* history: some roxml_request_id of t's current call returned -1

vars == <<ids, tok, frame, top, refused>>

Pcs == {"off", "request", "head", "visit", "nested", "add", "probe1",
        "probe2", "wipe1", "wipe2", "or1", "or2", "or3", "rel", "done"}

\* Mutant: a token that keeps the int it is given.
UCharInt(id) == id

\* The unsigned char of xpath_tok_t.id; an id is at least -1.
UChar(id) == (256 + id) % 256

Fresh(q) ==
    [pc |-> "request", phase |-> "and", qry |-> q, path |-> 1, i |-> 1,
     glob |-> 0, cur |-> 0, rid |-> 0, has1 |-> FALSE, has2 |-> FALSE,
     req |-> [p \in 1..Len(Paths[q]) |-> 0], set |-> <<>>]

Off == [Fresh(CHOOSE q \in Queries : TRUE) EXCEPT !.pc = "off"]

Init ==
    /\ ids = [i \in Ids |-> 0]
    /\ tok = [n \in Nodes |-> {}]
    /\ frame = [f \in Frames |-> Off]
    /\ top = [t \in Threads |-> 0]
    /\ refused = [t \in Threads |-> FALSE]

-----------------------------------------------------------------------------
(* The elementary operations, each one critical section of roxml_lock.     *)

Free == {id \in Ids : ids[id] = 0}

InPool(n, id) == id \in tok[n]
AddToPool(n, id) == tok' = [tok EXCEPT ![n] = @ \cup {UChar(id)}]
DelFromPool(n, id) == tok' = [tok EXCEPT ![n] = @ \ {id}]

\* Mutant: the id is found free but not marked.
RequestIdUnmarked(f, id) ==
    /\ id \in Free
    /\ \A j \in Free : id <= j
    /\ UNCHANGED <<ids, refused>>

\* Mutant: the id is marked without a test that it is free.
RequestIdUntested(f, id) ==
    /\ id = FirstId
    /\ ids' = [ids EXCEPT ![id] = @ + 1]
    /\ UNCHANGED refused

\* roxml_request_id: the lowest free id, or -1.
RequestId(f, id) ==
    \/ /\ id \in Free
       /\ \A j \in Free : id <= j
       /\ ids' = [ids EXCEPT ![id] = 1]
       /\ UNCHANGED refused
    \/ /\ Free = {}
       /\ id = -1
       /\ refused' = [refused EXCEPT ![f[1]] = TRUE]
       /\ UNCHANGED ids

-----------------------------------------------------------------------------
(* Where a frame stands.                                                   *)

At(f, pc) == top[f[1]] = f[2] /\ frame[f].pc = pc
InPhase(f, ph) == frame[f].phase = ph
NbPaths(f) == Len(Paths[frame[f].qry])
InPaths(f) == frame[f].path <= NbPaths(f)
ThisPath(f) == Paths[frame[f].qry][frame[f].path]
ThisVisit(f) == ThisPath(f).visits[frame[f].i]
InVisits(f) == frame[f].i <= Len(ThisPath(f).visits)
\* Mutant: the loops over the node set stop one short.
InSetShort(f) == frame[f].i < Len(frame[f].set)

InSet(f) == frame[f].i <= Len(frame[f].set)
ThisNode(f) == frame[f].set[frame[f].i]
PrevReq(f) == frame[f].req[frame[f].path - 1]
NextReq(f) == frame[f].req[frame[f].path + 1]

\* The path is and-ed with the one before it or the one after it.
InAnd(f) ==
    \/ ThisPath(f).rel = "and"
    \/ /\ frame[f].path < NbPaths(f)
       /\ Paths[frame[f].qry][frame[f].path + 1].rel = "and"

\* The request id a walk marks its answers with.
WalkId(f) == IF frame[f].phase = "and" THEN frame[f].cur ELSE frame[f].glob

-----------------------------------------------------------------------------
(* roxml_xpath and the entry of roxml_exec_xpath.                          *)

Call(t, q) ==
    /\ top[t] = 0
    /\ top' = [top EXCEPT ![t] = 1]
    /\ frame' = [frame EXCEPT ![<<t, 1>>] = Fresh(q)]
    /\ refused' = [refused EXCEPT ![t] = FALSE]
    /\ UNCHANGED <<ids, tok>>

RequestGlob(f) ==
    /\ At(f, "request")
    /\ \E id \in Ids \cup {-1} :
          /\ RequestId(f, id)
          /\ frame' = [frame EXCEPT ![f].glob = id,
                                    ![f].pc = IF id < 0 THEN "done" ELSE "head"]
    /\ UNCHANGED <<tok, top>>

(* The loop over the AND paths.                                            *)

AndHead(f) ==
    /\ At(f, "head") /\ InPhase(f, "and")
    /\ \/ /\ ~InPaths(f)
          /\ frame' = [frame EXCEPT ![f].phase = "or", ![f].path = 1]
       \/ /\ InPaths(f) /\ ~InAnd(f)
          /\ frame' = [frame EXCEPT ![f].path = @ + 1]
    /\ UNCHANGED <<ids, tok, top, refused>>

RequestAnd(f) ==
    /\ At(f, "head") /\ InPhase(f, "and")
    /\ InPaths(f) /\ InAnd(f)
    /\ \E id \in Ids \cup {-1} :
          /\ RequestId(f, id)
          /\ frame' = [frame EXCEPT ![f].cur = id, ![f].pc = "visit", ![f].i = 1]
    /\ UNCHANGED <<tok, top>>

(* The walk of one path: roxml_check_node, roxml_validate_axes.            *)

\* Mutant: a node is added without asking whether it has the token.
AddToSetAgain(f) ==
    /\ \/ At(f, "add")
       \/ At(f, "visit") /\ InVisits(f) /\ ThisVisit(f).pred = NoPred
    /\ AddToPool(ThisVisit(f).node, WalkId(f))
    /\ frame' = [frame EXCEPT ![f].pc = "visit", ![f].i = @ + 1,
                              ![f].set = Append(@, ThisVisit(f).node)]
    /\ UNCHANGED <<ids, top, refused>>

\* roxml_add_to_set.
AddToSet(f) ==
    /\ \/ At(f, "add")
       \/ At(f, "visit") /\ InVisits(f) /\ ThisVisit(f).pred = NoPred
    /\ LET n == ThisVisit(f).node IN
          \/ /\ InPool(n, WalkId(f))
             /\ frame' = [frame EXCEPT ![f].pc = "visit", ![f].i = @ + 1]
             /\ UNCHANGED tok
          \/ /\ ~InPool(n, WalkId(f))
             /\ AddToPool(n, WalkId(f))
             /\ frame' = [frame EXCEPT ![f].pc = "visit", ![f].i = @ + 1,
                                       ![f].set = Append(@, n)]
    /\ UNCHANGED <<ids, top, refused>>

\* roxml_validate_predicat, ROXML_FUNC_XPATH: enter the nested evaluation ...
Nest(f) ==
    /\ At(f, "visit") /\ InVisits(f) /\ ThisVisit(f).pred # NoPred
    /\ f[2] < MaxDepth
    /\ frame' = [frame EXCEPT ![f].pc = "nested",
                              ![<<f[1], f[2] + 1>>] = Fresh(ThisVisit(f).pred)]
    /\ top' = [top EXCEPT ![f[1]] = @ + 1]
    /\ UNCHANGED <<ids, tok, refused>>

\* Mutant: the predicate holds whatever the count.
ReturnTrue(f) ==
    /\ At(f, "done")
    /\ IF f[2] = 1
       THEN frame' = [frame EXCEPT ![f] = Off]
       ELSE frame' = [frame EXCEPT ![f] = Off, ![<<f[1], f[2] - 1>>].pc = "add"]
    /\ top' = [top EXCEPT ![f[1]] = @ - 1]
    /\ UNCHANGED <<ids, tok, refused>>

\* ... and come back with its count as the truth of the predicate.
Return(f) ==
    /\ At(f, "done")
    /\ IF f[2] = 1
       THEN frame' = [frame EXCEPT ![f] = Off]
       ELSE LET outer == <<f[1], f[2] - 1>> IN
            IF frame[f].set # <<>>
            THEN frame' = [frame EXCEPT ![f] = Off, ![outer].pc = "add"]
            ELSE frame' = [frame EXCEPT ![f] = Off, ![outer].pc = "visit",
                                        ![outer].i = @ + 1]
    /\ top' = [top EXCEPT ![f[1]] = @ - 1]
    /\ UNCHANGED <<ids, tok, refused>>

\* Mutant: the walk of an 'or' path does not go on to the next one.
EndOfWalkAgain(f) ==
    /\ At(f, "visit") /\ ~InVisits(f)
    /\ frame' = [frame EXCEPT ![f].pc = "head"]
    /\ UNCHANGED <<ids, tok, top, refused>>

EndOfWalk(f) ==
    /\ At(f, "visit") /\ ~InVisits(f)
    /\ IF frame[f].phase = "and"
       THEN IF ThisPath(f).rel = "and"
            THEN frame' = [frame EXCEPT ![f].pc = "probe1", ![f].i = 1,
                                        ![f].has1 = FALSE, ![f].has2 = FALSE]
            ELSE frame' = [frame EXCEPT ![f].pc = "head", ![f].path = @ + 1,
                                        ![f].req[frame[f].path] = frame[f].cur]
       ELSE frame' = [frame EXCEPT ![f].pc = "head", ![f].path = @ + 1]
    /\ UNCHANGED <<ids, tok, top, refused>>

(* roxml_compute_and: are there nodes of both pools; if not, unmark all.   *)

ProbeCur(f) ==
    /\ At(f, "probe1") /\ InSet(f) /\ ~(frame[f].has1 /\ frame[f].has2)
    /\ frame' = [frame EXCEPT ![f].pc = "probe2",
                    ![f].has1 = @ \/ InPool(ThisNode(f), frame[f].cur)]
    /\ UNCHANGED <<ids, tok, top, refused>>

ProbePrev(f) ==
    /\ At(f, "probe2")
    /\ frame' = [frame EXCEPT ![f].pc = "probe1", ![f].i = @ + 1,
                    ![f].has2 = @ \/ InPool(ThisNode(f), PrevReq(f))]
    /\ UNCHANGED <<ids, tok, top, refused>>

\* Leaving compute_and stores the id: req_ids[path_id] = req_id.
EndOfProbe(f) ==
    /\ At(f, "probe1")
    /\ \/ /\ frame[f].has1 /\ frame[f].has2
          /\ frame' = [frame EXCEPT ![f].pc = "head", ![f].path = @ + 1,
                                    ![f].req[frame[f].path] = frame[f].cur]
       \/ /\ ~(frame[f].has1 /\ frame[f].has2) /\ ~InSet(f)
          /\ frame' = [frame EXCEPT ![f].pc = "wipe1", ![f].i = 1]
    /\ UNCHANGED <<ids, tok, top, refused>>

WipeCur(f) ==
    /\ At(f, "wipe1") /\ InSet(f)
    /\ DelFromPool(ThisNode(f), frame[f].cur)
    /\ frame' = [frame EXCEPT ![f].pc = "wipe2"]
    /\ UNCHANGED <<ids, top, refused>>

WipePrev(f) ==
    /\ At(f, "wipe2")
    /\ DelFromPool(ThisNode(f), PrevReq(f))
    /\ frame' = [frame EXCEPT ![f].pc = "wipe1", ![f].i = @ + 1]
    /\ UNCHANGED <<ids, top, refused>>

EndOfWipe(f) ==
    /\ At(f, "wipe1") /\ ~InSet(f)
    /\ frame' = [frame EXCEPT ![f].pc = "head", ![f].path = @ + 1,
                              ![f].set = <<>>,
                              ![f].req[frame[f].path] = frame[f].cur]
    /\ UNCHANGED <<ids, tok, top, refused>>

(* The loop over the OR paths.                                             *)

OrHead(f) ==
    /\ At(f, "head") /\ InPhase(f, "or")
    /\ \/ /\ ~InPaths(f)
          /\ frame' = [frame EXCEPT ![f].phase = "end", ![f].path = 0,
                         ![f].pc = "rel", ![f].i = 1, ![f].rid = frame[f].glob]
       \/ /\ InPaths(f) /\ ThisPath(f).rel # "or"
          /\ frame' = [frame EXCEPT ![f].path = @ + 1]
       \/ /\ InPaths(f) /\ ThisPath(f).rel = "or"
          /\ frame' = [frame EXCEPT ![f].i = 1,
                         ![f].pc = IF frame[f].req[frame[f].path] = 0
                                   THEN "visit" ELSE "or1"]
    /\ UNCHANGED <<ids, tok, top, refused>>

(* roxml_compute_or: move the tokens of the group to the global id.        *)

OrProbe(f) ==
    /\ At(f, "or1") /\ InSet(f)
    /\ IF InPool(ThisNode(f), NextReq(f))
       THEN frame' = [frame EXCEPT ![f].pc = "or2"]
       ELSE frame' = [frame EXCEPT ![f].i = @ + 1]
    /\ UNCHANGED <<ids, tok, top, refused>>

OrAdd(f) ==
    /\ At(f, "or2")
    /\ AddToPool(ThisNode(f), frame[f].glob)
    /\ frame' = [frame EXCEPT ![f].pc = "or3"]
    /\ UNCHANGED <<ids, top, refused>>

OrDel(f) ==
    /\ At(f, "or3")
    /\ DelFromPool(ThisNode(f), NextReq(f))
    /\ frame' = [frame EXCEPT ![f].pc = "or1", ![f].i = @ + 1]
    /\ UNCHANGED <<ids, top, refused>>

EndOfOr(f) ==
    /\ At(f, "or1") /\ ~InSet(f)
    /\ frame' = [frame EXCEPT ![f].pc = "rel", ![f].i = 1,
                              ![f].rid = NextReq(f)]
    /\ UNCHANGED <<ids, tok, top, refused>>

(* roxml_release_id: the token of each node of the set, then the id.       *)

ReleaseToken(f) ==
    /\ At(f, "rel") /\ InSet(f)
    /\ DelFromPool(ThisNode(f), frame[f].rid)
    /\ frame' = [frame EXCEPT ![f].i = @ + 1]
    /\ UNCHANGED <<ids, top, refused>>

\* Mutant: the id is not given back.
ReleaseIdKept(f) ==
    /\ At(f, "rel") /\ ~InSet(f)
    /\ frame' = [frame EXCEPT ![f].pc = "head", ![f].path = @ + 1]
    /\ UNCHANGED <<ids, tok, top, refused>>

\* ids[-1] is the table's own id byte, 0 already.
ReleaseId(f) ==
    /\ At(f, "rel") /\ ~InSet(f)
    /\ ids' = [id \in Ids |-> IF id = frame[f].rid THEN 0 ELSE ids[id]]
    /\ frame' = [frame EXCEPT ![f].pc = "head", ![f].path = @ + 1]
    /\ UNCHANGED <<tok, top, refused>>

(* The loop that releases the ids of the AND paths.                        *)

\* Mutant: a path that has no id of its own is not stepped over.
EndHeadAgain(f) ==
    /\ At(f, "head") /\ InPhase(f, "end")
    /\ \/ /\ ~InPaths(f)
          /\ frame' = [frame EXCEPT ![f].pc = "done"]
       \/ /\ InPaths(f) /\ frame[f].req[frame[f].path] = 0
          /\ UNCHANGED frame
       \/ /\ InPaths(f) /\ frame[f].req[frame[f].path] # 0
          /\ frame' = [frame EXCEPT ![f].pc = "rel", ![f].i = 1,
                         ![f].rid = frame[f].req[frame[f].path]]
    /\ UNCHANGED <<ids, tok, top, refused>>

EndHead(f) ==
    /\ At(f, "head") /\ InPhase(f, "end")
    /\ \/ /\ ~InPaths(f)
          /\ frame' = [frame EXCEPT ![f].pc = "done"]
       \/ /\ InPaths(f) /\ frame[f].req[frame[f].path] = 0
          /\ frame' = [frame EXCEPT ![f].path = @ + 1]
       \/ /\ InPaths(f) /\ frame[f].req[frame[f].path] # 0
          /\ frame' = [frame EXCEPT ![f].pc = "rel", ![f].i = 1,
                         ![f].rid = frame[f].req[frame[f].path]]
    /\ UNCHANGED <<ids, tok, top, refused>>

-----------------------------------------------------------------------------
Exec(f) ==
    \/ RequestGlob(f)  \/ AndHead(f)   \/ RequestAnd(f)
    \/ AddToSet(f)     \/ Nest(f)      \/ Return(f)      \/ EndOfWalk(f)
    \/ ProbeCur(f)     \/ ProbePrev(f) \/ EndOfProbe(f)
    \/ WipeCur(f)      \/ WipePrev(f)  \/ EndOfWipe(f)
    \/ OrHead(f)       \/ OrProbe(f)   \/ OrAdd(f)       \/ OrDel(f)
    \/ EndOfOr(f)      \/ ReleaseToken(f) \/ ReleaseId(f) \/ EndHead(f)

Next ==
    \/ \E t \in Threads, q \in TopQueries : Call(t, q)
    \/ \E f \in Frames : Exec(f)

Spec == Init /\ [][Next]_vars

\* The scheduler does not starve a thread that is inside roxml_xpath; the
\* mutex is never held across two actions, so each step stays enabled.
FairSpec == Spec /\ \A t \in Threads :
                       WF_vars(\E d \in 1..MaxDepth : Exec(<<t, d>>))

-----------------------------------------------------------------------------
(* Properties.                                                             *)

FrameType ==
    [pc : Pcs, phase : {"and", "or", "end"}, qry : Queries, path : Nat,
     i : Nat, glob : Ids \cup {-1, 0}, cur : Ids \cup {-1, 0},
     rid : Ids \cup {-1, 0}, has1 : BOOLEAN, has2 : BOOLEAN,
     req : Seq(Ids \cup {-1, 0}), set : Seq(Nodes)]

\* The types of the table, the token lists and the activation records.
TypeOK ==
    /\ ids \in [Ids -> {0, 1}]
    /\ tok \in [Nodes -> SUBSET (Ids \cup {255})]
    /\ frame \in [Frames -> FrameType]
    /\ top \in [Threads -> 0..MaxDepth]
    /\ refused \in [Threads -> BOOLEAN]

\* The ids an evaluation has requested and not yet released for good.
HoldsGlob(f) ==
    /\ frame[f].glob \in Ids
    /\ \/ frame[f].pc \in {"head", "visit", "nested", "add", "probe1",
                           "probe2", "wipe1", "wipe2", "or1", "or2", "or3"}
          /\ frame[f].phase # "end"
       \/ frame[f].pc = "rel" /\ (frame[f].phase = "end" => frame[f].path = 0)

HeldIds(f) ==
    LET r == frame[f] IN
    (IF HoldsGlob(f) THEN {r.glob} ELSE {})
    \cup (IF r.pc \in {"off", "request", "done"} THEN {}
          ELSE {r.req[p] : p \in {k \in 1..Len(r.req) :
                                     r.phase = "end" => k >= r.path}} \cap Ids)
    \cup (IF r.phase = "and" /\ r.pc \notin {"off", "request", "head"}
          THEN {r.cur} \cap Ids ELSE {})

\* Two evaluations under way, of two threads or nested in one another, never
\* own the same request id: the tokens of one would otherwise be taken for,
\* and removed with, those of the other (roxml_request_id, roxml_release_id).
IdsExclusive ==
    \A f, g \in Frames : f # g => HeldIds(f) \cap HeldIds(g) = {}

\* A token never outlives its request: every token in the tree carries the id
\* of an evaluation that is still under way and that has the node in its node
\* set, so that releasing the set releases the token (roxml_release_id).
TokensOwned ==
    \A n \in Nodes : \A id \in tok[n] :
        \E f \in Frames :
            /\ id \in HeldIds(f)
            /\ \E k \in 1..Len(frame[f].set) : frame[f].set[k] = n

\* Releasing an id leaves no token of it behind: a token's id is in use.
NoStaleToken ==
    \A n \in Nodes : \A id \in tok[n] \cap Ids : ids[id] = 1

\* When no evaluation is under way, the tree is as if none had ever been: no
\* id is in use, no token of an id is left on a node (255 is the mark of a
\* path that got no id, and is never looked for).
QuiescentClean ==
    (\A t \in Threads : top[t] = 0) =>
        /\ \A id \in Ids : ids[id] = 0
        /\ \A n \in Nodes : tok[n] \cap Ids = {}

NoRepetition(s) == \A j, k \in 1..Len(s) : s[j] = s[k] => j = k
NodesOf(s) == {s[k] : k \in 1..Len(s)}

\* Whatever the other threads do meanwhile, an evaluation that was refused no
\* id returns what its xpath means: each selected node exactly once when the
\* xpath has no 'and', an answer that is empty exactly when nothing is
\* selected in every case.
AnswerExact ==
    \A f \in Frames :
        (frame[f].pc = "done" /\ ~refused[f[1]]) =>
            /\ (frame[f].set # <<>>) = Truth[frame[f].qry]
            /\ OrOnly(frame[f].qry) =>
                  /\ NoRepetition(frame[f].set)
                  /\ NodesOf(frame[f].set) = Answer(frame[f].qry)

\* Running out of ids can only lose answers: even then an evaluation selects
\* nothing its xpath does not mean, and no node twice.
AnswerSound ==
    \A f \in Frames :
        frame[f].pc = "done" =>
            /\ frame[f].set # <<>> => Truth[frame[f].qry]
            /\ OrOnly(frame[f].qry) =>
                  /\ NoRepetition(frame[f].set)
                  /\ NodesOf(frame[f].set) \subseteq Answer(frame[f].qry)

\* Every call of roxml_xpath returns.
CallsReturn == \A t \in Threads : top[t] > 0 ~> top[t] = 0

=============================================================================
