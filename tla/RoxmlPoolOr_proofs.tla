------------------------- MODULE RoxmlPoolOr_proofs -------------------------
(***************************************************************************)
(* Theorems about RoxmlPool when no xpath has an 'and': for any number of  *)
(* threads, nodes, ids and queries, with predicates nested to any depth,   *)
(* evaluations never share a request id, a token never outlives its        *)
(* request, and a tree no one queries holds neither ids nor tokens.        *)
(* Whatever the other threads do meanwhile, an evaluation selects each     *)
(* node its xpath means once and no other, and only the lack of an id can  *)
(* make it select fewer.                                                   *)
(*                                                                         *)
(* With an 'and' the first of these is false: see the run PoolSharedId.    *)
(*                                                                         *)
(* The second half is about the answers.  It needs the converse of the     *)
(* token invariant (a node of the answer is marked until it is released,   *)
(* so a node is not added twice), the part of the xpath a frame has walked *)
(* so far, and what a frame that waits asked of the one above.             *)
(***************************************************************************)
EXTENDS RoxmlPool_proofs

AllOr == \A q \in Queries : OrOnly(q)

-----------------------------------------------------------------------------
(* What a frame is limited to when no xpath has an 'and'.                  *)

\* A frame that holds its global request id.
Holder(r) ==
    /\ r.glob \in Ids
    /\ \/ r.pc \in {"head", "visit", "nested", "add", "probe1", "probe2",
                    "wipe1", "wipe2", "or1", "or2", "or3"}
          /\ r.phase # "end"
       \/ r.pc = "rel" /\ (r.phase = "end" => r.path = 0)

OrFrame(r) ==
    /\ r.cur = 0 /\ r.pc \notin OrPcs
    /\ r.pc \in {"off", "request"} => r.phase = "and" /\ r.set = <<>>
    /\ r.pc = "rel" => r.phase = "end" /\ r.path = 0 /\ r.rid = r.glob /\ r.i # 0

OrFrames == \A f \in Frames : OrFrame(frame[f])

LEMMA NoAnd ==
    ASSUME AllOr, NEW q \in Queries, NEW p \in 1..Len(Paths[q])
    PROVE  ~PathInAnd(q, p)
<1>1. Len(Paths[q]) \in Nat
  BY LenPaths
<1>2. Paths[q][p].rel = "or"
  BY DEF AllOr, OrOnly
<1>3. p < Len(Paths[q]) => Paths[q][p + 1].rel = "or"
  BY <1>1 DEF AllOr, OrOnly
<1> QED
  BY <1>2, <1>3 DEF PathInAnd

LEMMA NoReq ==
    ASSUME AllOr, NEW r, Good(r)
    PROVE  /\ \A p \in 1..Len(Paths[r.qry]) : r.req[p] = 0
           /\ r.pc \notin AndPcs
           /\ r.pc \in WalkPcs => r.phase = "or"
<1>1. r.qry \in Queries /\ Len(r.req) = Len(Paths[r.qry]) /\ r \in FrameType
  BY DEF Good, FrameType
<1>2. \A p \in 1..Len(Paths[r.qry]) : ~PathInAnd(r.qry, p)
  BY <1>1, NoAnd
<1>3. \A p \in 1..Len(Paths[r.qry]) : r.req[p] = 0
  BY <1>1, <1>2 DEF Good
<1>4. r.pc \notin AndPcs
  BY <1>1, <1>2 DEF Good
<1>5. r.pc \in WalkPcs => r.phase = "or"
  BY <1>1, <1>2 DEF Good, FrameType
<1> QED
  BY <1>3, <1>4, <1>5

LEMMA UCharSame ==
    ASSUME NEW id \in Ids
    PROVE  UChar(id) = id
<1>1. id \in 16..254
  BY IdsAssumption DEF Ids
<1> QED
  BY <1>1 DEF UChar

-----------------------------------------------------------------------------
(* The steps of one frame, sorted by what they do to the table and the     *)
(* tokens.  r is the frame before the step and s the frame after it.       *)

\* It gets its global id.
Acquire(r, s) ==
    /\ ~Holder(r) /\ Holder(s) /\ s.set = <<>>
    /\ s.glob \in Free
    /\ ids' = [ids EXCEPT ![s.glob] = 1] /\ tok' = tok

\* It changes neither, nor its answer.
Quiet(r, s) ==
    /\ Holder(r) <=> Holder(s)
    /\ Holder(r) => s.glob = r.glob /\ s.set = r.set /\ r.pc # "rel"
    /\ s.pc = "rel" => s.i = 1
    /\ ids' = ids /\ tok' = tok

\* It adds a node to its answer and marks it.
Mark(r, s) ==
    /\ Holder(r) /\ Holder(s) /\ s.glob = r.glob
    /\ r.pc # "rel" /\ s.pc # "rel"
    /\ \E n \in Nodes :
          /\ s.set = Append(r.set, n)
          /\ tok' = [tok EXCEPT ![n] = @ \cup {r.glob}]
    /\ ids' = ids

\* It unmarks the next node of its answer.
Unmark(r, s) ==
    /\ Holder(r) /\ Holder(s) /\ s.glob = r.glob /\ s.set = r.set
    /\ r.pc = "rel" /\ s.pc = "rel" /\ r.i \in 1..Len(r.set) /\ s.i = r.i + 1
    /\ tok' = [tok EXCEPT ![r.set[r.i]] = @ \ {r.glob}]
    /\ ids' = ids

\* It gives its id back, with no node left to unmark.
GiveBack(r, s) ==
    /\ Holder(r) /\ ~Holder(s)
    /\ r.pc = "rel" /\ r.i > Len(r.set)
    /\ ids' = [id \in Ids |-> IF id = r.glob THEN 0 ELSE ids[id]]
    /\ tok' = tok

Step(r, s) ==
    Acquire(r, s) \/ Quiet(r, s) \/ Mark(r, s) \/ Unmark(r, s) \/ GiveBack(r, s)

LEMMA OrRequestGlob ==
    ASSUME TypeInv, OrFrames, NEW f \in Frames, RequestGlob(f)
    PROVE  OrFrame(frame'[f]) /\ Step(frame[f], frame'[f])
<1> DEFINE r == frame[f]
           s == frame'[f]
<1>1. frame \in [Frames -> FrameType] /\ OrFrame(r)
  BY DEF TypeInv, TypeOK, OrFrames
<1>2. r \in FrameType /\ r.pc = "request" /\ tok' = tok
  BY <1>1 DEF RequestGlob, At
<1>3. PICK id \in Ids \cup {-1} :
         /\ RequestId(f, id)
         /\ frame' = [frame EXCEPT ![f].glob = id,
                                   ![f].pc = IF id < 0 THEN "done" ELSE "head"]
  BY DEF RequestGlob
<1>4. s = [r EXCEPT !.glob = id, !.pc = IF id < 0 THEN "done" ELSE "head"]
  BY <1>1, <1>3
<1> HIDE DEF r, s
<1>5. /\ s.glob = id /\ s.pc = IF id < 0 THEN "done" ELSE "head"
      /\ s.cur = r.cur /\ s.phase = r.phase /\ s.set = r.set
  BY <1>2, <1>4 DEF FrameType
<1>6. r.cur = 0 /\ r.phase = "and" /\ r.set = <<>>
  BY <1>1, <1>2 DEF OrFrame
<1>7. id < 0 <=> id = -1
  BY IdsAssumption DEF Ids
<1>8. OrFrame(s)
  BY <1>5, <1>6, <1>7 DEF OrFrame, OrPcs
<1>9. ~Holder(r)
  BY <1>2 DEF Holder
<1>10. CASE id \in Ids
  <2>1. id \in Free /\ ids' = [ids EXCEPT ![id] = 1]
    BY <1>3, <1>10, <1>7, IdsAssumption DEF RequestId, Ids
  <2>2. Holder(s)
    BY <1>5, <1>6, <1>7, <1>10, IdsAssumption DEF Holder, Ids
  <2> QED
    BY <1>2, <1>5, <1>6, <1>8, <1>9, <2>1, <2>2 DEF Step, Acquire, r, s
<1>11. CASE id = -1
  <2>1. ids' = ids
    BY <1>3, <1>11, IdsAssumption DEF RequestId, Free, Ids
  <2>2. ~Holder(s)
    BY <1>5, <1>11, IdsAssumption DEF Holder, Ids
  <2>3. s.pc # "rel"
    BY <1>5
  <2> QED
    BY <1>2, <1>8, <1>9, <2>1, <2>2, <2>3 DEF Step, Quiet, r, s
<1> QED
  BY <1>10, <1>11

LEMMA OrAddToSet ==
    ASSUME TypeInv, AllOr, OrFrames, NEW f \in Frames, AddToSet(f)
    PROVE  OrFrame(frame'[f]) /\ Step(frame[f], frame'[f])
<1> DEFINE n == ThisVisit(f).node
           r == frame[f]
           s == frame'[f]
<1>1. frame \in [Frames -> FrameType] /\ OrFrame(r) /\ Good(r)
  BY DEF TypeInv, TypeOK, OrFrames
<1>2. r \in FrameType /\ r.pc \in {"visit", "add"} /\ ids' = ids
  BY <1>1 DEF AddToSet, At
<1>3. n \in Nodes
  BY ThisVisitType DEF AddToSet, At
<1>4. r.phase = "or" /\ r.glob \in Ids
  BY <1>1, <1>2, NoReq DEF WalkPcs, Good
<1>5. WalkId(f) = r.glob
  BY <1>4 DEF WalkId
<1> HIDE DEF n
<1>6. \/ s = [r EXCEPT !.pc = "visit", !.i = @ + 1] /\ tok' = tok
      \/ /\ s = [r EXCEPT !.pc = "visit", !.i = @ + 1, !.set = Append(@, n)]
         /\ AddToPool(n, WalkId(f))
  BY <1>1 DEF AddToSet, n
<1> HIDE DEF r, s
<1>7. CASE s = [r EXCEPT !.pc = "visit", !.i = @ + 1] /\ tok' = tok
  <2>1. /\ s.pc = "visit" /\ s.phase = r.phase /\ s.glob = r.glob
        /\ s.set = r.set /\ s.cur = r.cur
    BY <1>2, <1>7 DEF FrameType
  <2> QED
    BY <1>1, <1>2, <1>4, <1>7, <2>1 DEF OrFrame, OrPcs, Holder, Step, Quiet, r, s
<1>8. CASE /\ s = [r EXCEPT !.pc = "visit", !.i = @ + 1, !.set = Append(@, n)]
           /\ AddToPool(n, WalkId(f))
  <2>1. /\ s.pc = "visit" /\ s.phase = r.phase /\ s.glob = r.glob
        /\ s.set = Append(r.set, n) /\ s.cur = r.cur
    BY <1>2, <1>8 DEF FrameType
  <2>2. tok' = [tok EXCEPT ![n] = @ \cup {r.glob}]
    BY <1>4, <1>5, <1>8, UCharSame DEF AddToPool
  <2> QED
    BY <1>1, <1>2, <1>3, <1>4, <2>1, <2>2
       DEF OrFrame, OrPcs, Holder, Step, Mark, r, s
<1> QED
  BY <1>6, <1>7, <1>8

LEMMA OrAndHead ==
    ASSUME TypeInv, OrFrames, NEW f \in Frames, AndHead(f)
    PROVE  OrFrame(frame'[f]) /\ Step(frame[f], frame'[f])
<1> DEFINE r == frame[f]
           s == frame'[f]
<1>1. frame \in [Frames -> FrameType] /\ OrFrame(r) /\ Good(r)
  BY DEF TypeInv, TypeOK, OrFrames
<1>2. /\ r \in FrameType /\ r.pc = "head" /\ r.phase = "and"
      /\ ids' = ids /\ tok' = tok
  BY <1>1 DEF AndHead, At, InPhase
<1>3. s = [r EXCEPT !.phase = "or", !.path = 1] \/ s = [r EXCEPT !.path = @ + 1]
  BY <1>1 DEF AndHead
<1> HIDE DEF r, s
<1>4. /\ s.pc = "head" /\ s.phase \in {"and", "or"} /\ s.glob = r.glob
      /\ s.set = r.set /\ s.cur = r.cur
  <2>1. CASE s = [r EXCEPT !.phase = "or", !.path = 1]
    BY <1>2, <2>1 DEF FrameType
  <2>2. CASE s = [r EXCEPT !.path = @ + 1]
    BY <1>2, <2>2 DEF FrameType
  <2> QED
    BY <1>3, <2>1, <2>2
<1> QED
  BY <1>1, <1>2, <1>4 DEF Good, OrFrame, OrPcs, Holder, Step, Quiet, r, s

LEMMA OrEndOfWalk ==
    ASSUME TypeInv, AllOr, OrFrames, NEW f \in Frames, EndOfWalk(f)
    PROVE  OrFrame(frame'[f]) /\ Step(frame[f], frame'[f])
<1> DEFINE r == frame[f]
           s == frame'[f]
<1>1. frame \in [Frames -> FrameType] /\ OrFrame(r) /\ Good(r)
  BY DEF TypeInv, TypeOK, OrFrames
<1>2. r \in FrameType /\ r.pc = "visit" /\ ids' = ids /\ tok' = tok
  BY <1>1 DEF EndOfWalk, At
<1>3. r.phase = "or"
  BY <1>1, <1>2, NoReq DEF WalkPcs
<1>4. s = [r EXCEPT !.pc = "head", !.path = @ + 1]
  BY <1>1, <1>3 DEF EndOfWalk
<1> HIDE DEF r, s
<1>5. /\ s.pc = "head" /\ s.phase = "or" /\ s.glob = r.glob
      /\ s.set = r.set /\ s.cur = r.cur
  BY <1>2, <1>3, <1>4 DEF FrameType
<1> QED
  BY <1>1, <1>2, <1>3, <1>5 DEF Good, OrFrame, OrPcs, Holder, Step, Quiet, r, s

LEMMA OrOrHead ==
    ASSUME TypeInv, AllOr, OrFrames, NEW f \in Frames, OrHead(f)
    PROVE  OrFrame(frame'[f]) /\ Step(frame[f], frame'[f])
<1> DEFINE r == frame[f]
           s == frame'[f]
<1>1. frame \in [Frames -> FrameType] /\ OrFrame(r) /\ Good(r)
  BY DEF TypeInv, TypeOK, OrFrames
<1>2. /\ r \in FrameType /\ r.pc = "head" /\ r.phase = "or"
      /\ ids' = ids /\ tok' = tok
  BY <1>1 DEF OrHead, At, InPhase
<1>3. r.path <= Len(Paths[r.qry]) => r.req[r.path] = 0
  <2>1. \A p \in 1..Len(Paths[r.qry]) : r.req[p] = 0
    BY <1>1, NoReq
  <2>2. r.path \in Nat \ {0} /\ Len(Paths[r.qry]) \in Nat
    BY <1>1, <1>2, LenPaths DEF Good, FrameType
  <2> QED
    BY <2>1, <2>2
<1>4. \/ s = [r EXCEPT !.phase = "end", !.path = 0, !.pc = "rel", !.i = 1,
                       !.rid = r.glob]
      \/ s = [r EXCEPT !.path = @ + 1]
      \/ s = [r EXCEPT !.i = 1, !.pc = "visit"]
  BY <1>1, <1>3 DEF OrHead, InPaths, NbPaths
<1> HIDE DEF r, s
<1>5. r.glob \in Ids /\ Holder(r)
  BY <1>1, <1>2 DEF Good, Holder
<1>6. CASE s = [r EXCEPT !.phase = "end", !.path = 0, !.pc = "rel", !.i = 1,
                         !.rid = r.glob]
  <2>1. /\ s.pc = "rel" /\ s.phase = "end" /\ s.glob = r.glob /\ s.path = 0
        /\ s.i = 1 /\ s.rid = r.glob /\ s.set = r.set /\ s.cur = r.cur
    BY <1>2, <1>6 DEF FrameType
  <2> QED
    BY <1>1, <1>2, <1>5, <2>1 DEF OrFrame, OrPcs, Holder, Step, Quiet, r, s
<1>7. CASE s = [r EXCEPT !.path = @ + 1]
  <2>1. /\ s.pc = "head" /\ s.phase = "or" /\ s.glob = r.glob
        /\ s.set = r.set /\ s.cur = r.cur
    BY <1>2, <1>7 DEF FrameType
  <2> QED
    BY <1>1, <1>2, <1>5, <2>1 DEF OrFrame, OrPcs, Holder, Step, Quiet, r, s
<1>8. CASE s = [r EXCEPT !.i = 1, !.pc = "visit"]
  <2>1. /\ s.pc = "visit" /\ s.phase = "or" /\ s.glob = r.glob
        /\ s.set = r.set /\ s.cur = r.cur
    BY <1>2, <1>8 DEF FrameType
  <2> QED
    BY <1>1, <1>2, <1>5, <2>1 DEF OrFrame, OrPcs, Holder, Step, Quiet, r, s
<1> QED
  BY <1>4, <1>6, <1>7, <1>8

LEMMA OrEndHead ==
    ASSUME TypeInv, AllOr, OrFrames, NEW f \in Frames, EndHead(f)
    PROVE  OrFrame(frame'[f]) /\ Step(frame[f], frame'[f])
<1> DEFINE r == frame[f]
           s == frame'[f]
<1>1. frame \in [Frames -> FrameType] /\ OrFrame(r) /\ Good(r)
  BY DEF TypeInv, TypeOK, OrFrames
<1>2. /\ r \in FrameType /\ r.pc = "head" /\ r.phase = "end"
      /\ ids' = ids /\ tok' = tok
  BY <1>1 DEF EndHead, At, InPhase
<1>3. r.path <= Len(Paths[r.qry]) => r.req[r.path] = 0
  <2>1. \A p \in 1..Len(Paths[r.qry]) : r.req[p] = 0
    BY <1>1, NoReq
  <2>2. r.path \in Nat \ {0} /\ Len(Paths[r.qry]) \in Nat
    BY <1>1, <1>2, LenPaths DEF Good, FrameType
  <2> QED
    BY <2>1, <2>2
<1>4. s = [r EXCEPT !.pc = "done"] \/ s = [r EXCEPT !.path = @ + 1]
  BY <1>1, <1>3 DEF EndHead, InPaths, NbPaths
<1> HIDE DEF r, s
<1>5. /\ s.pc \in {"head", "done"} /\ s.phase = "end" /\ s.glob = r.glob
      /\ s.set = r.set /\ s.cur = r.cur
  <2>1. CASE s = [r EXCEPT !.pc = "done"]
    BY <1>2, <2>1 DEF FrameType
  <2>2. CASE s = [r EXCEPT !.path = @ + 1]
    BY <1>2, <2>2 DEF FrameType
  <2> QED
    BY <1>4, <2>1, <2>2
<1> QED
  BY <1>1, <1>2, <1>5 DEF OrFrame, OrPcs, Holder, Step, Quiet, r, s

LEMMA OrReleaseToken ==
    ASSUME TypeInv, OrFrames, NEW f \in Frames, ReleaseToken(f)
    PROVE  OrFrame(frame'[f]) /\ Step(frame[f], frame'[f])
<1> DEFINE r == frame[f]
           s == frame'[f]
<1>1. frame \in [Frames -> FrameType] /\ OrFrame(r) /\ Good(r)
  BY DEF TypeInv, TypeOK, OrFrames
<1>2. /\ r \in FrameType /\ r.pc = "rel" /\ r.i <= Len(r.set) /\ ids' = ids
      /\ tok' = [tok EXCEPT ![r.set[r.i]] = @ \ {r.rid}]
  BY <1>1 DEF ReleaseToken, At, InSet, DelFromPool, ThisNode
<1>3. s = [r EXCEPT !.i = @ + 1]
  BY <1>1 DEF ReleaseToken
<1> HIDE DEF r, s
<1>4. /\ s.pc = "rel" /\ s.phase = r.phase /\ s.glob = r.glob /\ s.rid = r.rid
      /\ s.set = r.set /\ s.cur = r.cur /\ s.path = r.path /\ s.i = r.i + 1
  BY <1>2, <1>3 DEF FrameType
<1>5. r.glob \in Ids /\ r.rid = r.glob /\ r.i \in 1..Len(r.set) /\ r.i + 1 # 0
  BY <1>1, <1>2 DEF Good, OrFrame, FrameType
<1> QED
  BY <1>1, <1>2, <1>4, <1>5 DEF OrFrame, OrPcs, Holder, Step, Unmark, r, s

LEMMA OrReleaseId ==
    ASSUME TypeInv, OrFrames, NEW f \in Frames, ReleaseId(f)
    PROVE  OrFrame(frame'[f]) /\ Step(frame[f], frame'[f])
<1> DEFINE r == frame[f]
           s == frame'[f]
<1>1. frame \in [Frames -> FrameType] /\ OrFrame(r) /\ Good(r)
  BY DEF TypeInv, TypeOK, OrFrames
<1>2. /\ r \in FrameType /\ r.pc = "rel" /\ r.i > Len(r.set) /\ tok' = tok
      /\ ids' = [id \in Ids |-> IF id = r.rid THEN 0 ELSE ids[id]]
  BY <1>1 DEF ReleaseId, At, InSet, FrameType
<1>3. s = [r EXCEPT !.pc = "head", !.path = @ + 1]
  BY <1>1 DEF ReleaseId
<1> HIDE DEF r, s
<1>4. /\ s.pc = "head" /\ s.phase = r.phase /\ s.glob = r.glob /\ s.cur = r.cur
  BY <1>2, <1>3 DEF FrameType
<1>5. r.glob \in Ids /\ r.rid = r.glob /\ r.phase = "end" /\ r.path = 0
  BY <1>1, <1>2 DEF Good, OrFrame
<1> QED
  BY <1>1, <1>2, <1>4, <1>5 DEF OrFrame, OrPcs, Holder, Step, GiveBack, r, s

\* A step of one frame is none of those of the 'and' paths.
LEMMA OrActions ==
    ASSUME TypeInv, AllOr, OrFrames, NEW f \in Frames, LocalStep(f)
    PROVE  \/ RequestGlob(f)  \/ AndHead(f)   \/ AddToSet(f)
           \/ EndOfWalk(f)    \/ OrHead(f)    \/ ReleaseToken(f)
           \/ ReleaseId(f)    \/ EndHead(f)
<1>1. Good(frame[f]) /\ OrFrame(frame[f]) /\ frame[f].pc \notin AndPcs \cup OrPcs
  BY NoReq DEF TypeInv, OrFrames, OrFrame
<1>2. ~RequestAnd(f)
  <2>1. SUFFICES ASSUME RequestAnd(f) PROVE FALSE
    OBVIOUS
  <2>2. frame[f].qry \in Queries /\ frame[f].path \in 1..Len(Paths[frame[f].qry])
    BY <1>1, <2>1, LenPaths DEF RequestAnd, At, InPaths, NbPaths, Good, FrameType
  <2>3. PathInAnd(frame[f].qry, frame[f].path)
    BY <2>1 DEF RequestAnd, InAnd, ThisPath, NbPaths, PathInAnd
  <2> QED
    BY <2>2, <2>3, NoAnd
<1>3. /\ ~ProbeCur(f) /\ ~ProbePrev(f) /\ ~EndOfProbe(f)
      /\ ~WipeCur(f) /\ ~WipePrev(f) /\ ~EndOfWipe(f)
      /\ ~OrProbe(f) /\ ~OrAdd(f) /\ ~OrDel(f) /\ ~EndOfOr(f)
  BY <1>1 DEF AndPcs, OrPcs, At, ProbeCur, ProbePrev, EndOfProbe, WipeCur,
     WipePrev, EndOfWipe, OrProbe, OrAdd, OrDel, EndOfOr
<1> QED
  BY <1>2, <1>3 DEF LocalStep

\* It is of one of the five kinds.
LEMMA OrStep ==
    ASSUME TypeInv, AllOr, OrFrames, NEW f \in Frames, LocalStep(f)
    PROVE  OrFrame(frame'[f]) /\ Step(frame[f], frame'[f])
  BY OrActions, OrRequestGlob, OrAndHead, OrAddToSet, OrEndOfWalk, OrOrHead,
     OrReleaseToken, OrReleaseId, OrEndHead

-----------------------------------------------------------------------------
(* The invariants of the table and of the token lists.                     *)

\* An id is in use exactly while one frame, and no other, holds it.
IdInv ==
    /\ \A f \in Frames : Holder(frame[f]) => ids[frame[f].glob] = 1
    /\ \A f, g \in Frames :
          Holder(frame[f]) /\ Holder(frame[g]) /\ f # g =>
              frame[f].glob # frame[g].glob
    /\ \A id \in Ids :
          ids[id] = 1 => \E f \in Frames : Holder(frame[f]) /\ frame[f].glob = id

\* The node is in the answer and its token is not removed yet.
Kept(r, n) ==
    \E k \in 1..Len(r.set) : r.set[k] = n /\ (r.pc = "rel" => k >= r.i)

Marked(r, n, id) == Holder(r) /\ r.glob = id /\ Kept(r, n)

\* Every token belongs to a frame that is going to remove it.
TokInv ==
    \A n \in Nodes : \A id \in tok[n] :
        \E f \in Frames : Marked(frame[f], n, id)

OrInv == TypeInv /\ Stack /\ OrFrames /\ IdInv /\ TokInv

LEMMA OrInit ==
    ASSUME Init
    PROVE  OrFrames /\ IdInv /\ TokInv
<1>1. /\ Off.pc = "off" /\ Off.cur = 0 /\ Off.phase = "and" /\ Off.set = <<>>
      /\ Off.glob = 0
  BY DEF Off, Fresh
<1>2. \A f \in Frames : frame[f] = Off
  BY DEF Init
<1>3. OrFrame(Off) /\ ~Holder(Off)
  BY <1>1 DEF OrFrame, OrPcs, Holder
<1>4. /\ \A id \in Ids : ids[id] = 0
      /\ \A n \in Nodes : tok[n] = {}
  BY DEF Init
<1> QED
  BY <1>2, <1>3, <1>4 DEF OrFrames, IdInv, TokInv

\* A step of one frame keeps the id invariant.
LEMMA IdLocal ==
    ASSUME TypeOK, IdInv, NEW f \in Frames,
           frame' = [frame EXCEPT ![f] = frame'[f]], Step(frame[f], frame'[f])
    PROVE  IdInv'
<1> DEFINE r == frame[f]
           s == frame'[f]
<1>1. /\ ids \in [Ids -> {0, 1}]
      /\ \A g \in Frames : g # f => frame'[g] = frame[g]
  BY DEF TypeOK
<1>2. /\ Holder(r) => r.glob \in Ids /\ ids[r.glob] = 1
      /\ \A g \in Frames : Holder(frame[g]) =>
            frame[g].glob \in Ids /\ ids[frame[g].glob] = 1
  BY DEF IdInv, Holder
<1>3. ASSUME Acquire(r, s) PROVE IdInv'
  <2>1. s.glob \in Ids /\ ids[s.glob] = 0 /\ ~Holder(r) /\ Holder(s)
        /\ ids' = [ids EXCEPT ![s.glob] = 1]
    BY <1>3 DEF Acquire, Free
  <2>2. \A g \in Frames : Holder(frame'[g]) => ids'[frame'[g].glob] = 1
    BY <1>1, <1>2, <2>1
  <2>3. \A g, h \in Frames : Holder(frame'[g]) /\ Holder(frame'[h]) /\ g # h =>
            frame'[g].glob # frame'[h].glob
    BY <1>1, <1>2, <2>1 DEF IdInv
  <2>4. ASSUME NEW id \in Ids, ids'[id] = 1
        PROVE  \E g \in Frames : Holder(frame'[g]) /\ frame'[g].glob = id
    <3>1. CASE id = s.glob
      BY <2>1, <3>1
    <3>2. CASE id # s.glob
      <4>1. ids[id] = 1
        BY <1>1, <2>1, <2>4, <3>2
      <4>2. PICK g \in Frames : Holder(frame[g]) /\ frame[g].glob = id
        BY <4>1 DEF IdInv
      <4>3. g # f
        BY <2>1, <4>2
      <4> QED
        BY <1>1, <4>2, <4>3
    <3> QED
      BY <3>1, <3>2
  <2> QED
    BY <2>2, <2>3, <2>4 DEF IdInv
<1>4. ASSUME ids' = ids, Holder(r) <=> Holder(s), Holder(r) => s.glob = r.glob
      PROVE  IdInv'
  <2>1. \A g \in Frames : /\ Holder(frame'[g]) <=> Holder(frame[g])
                          /\ Holder(frame[g]) => frame'[g].glob = frame[g].glob
    BY <1>1, <1>4
  <2>2. \A g \in Frames : Holder(frame'[g]) => ids'[frame'[g].glob] = 1
    BY <1>2, <1>4, <2>1
  <2>3. \A g, h \in Frames : Holder(frame'[g]) /\ Holder(frame'[h]) /\ g # h =>
            frame'[g].glob # frame'[h].glob
    BY <2>1 DEF IdInv
  <2>4. \A id \in Ids : ids'[id] = 1 =>
            \E g \in Frames : Holder(frame'[g]) /\ frame'[g].glob = id
    BY <1>4, <2>1 DEF IdInv
  <2> QED
    BY <2>2, <2>3, <2>4 DEF IdInv
<1>5. ASSUME GiveBack(r, s) PROVE IdInv'
  <2>1. /\ Holder(r) /\ ~Holder(s) /\ r.glob \in Ids
        /\ ids' = [id \in Ids |-> IF id = r.glob THEN 0 ELSE ids[id]]
    BY <1>2, <1>5 DEF GiveBack
  <2>2. \A g \in Frames : Holder(frame'[g]) => g # f /\ Holder(frame[g])
                             /\ frame'[g].glob = frame[g].glob
    BY <1>1, <2>1
  <2>3. \A g \in Frames : Holder(frame'[g]) => ids'[frame'[g].glob] = 1
    <3>1. SUFFICES ASSUME NEW g \in Frames, Holder(frame'[g])
                   PROVE  ids'[frame'[g].glob] = 1
      OBVIOUS
    <3>2. frame[g].glob # r.glob /\ frame[g].glob \in Ids
          /\ ids[frame[g].glob] = 1
      BY <1>2, <2>1, <2>2, <3>1 DEF IdInv
    <3> QED
      BY <2>1, <2>2, <3>1, <3>2
  <2>4. \A g, h \in Frames : Holder(frame'[g]) /\ Holder(frame'[h]) /\ g # h =>
            frame'[g].glob # frame'[h].glob
    BY <2>2 DEF IdInv
  <2>5. ASSUME NEW id \in Ids, ids'[id] = 1
        PROVE  \E g \in Frames : Holder(frame'[g]) /\ frame'[g].glob = id
    <3>1. id # r.glob /\ ids[id] = 1
      BY <2>1, <2>5
    <3>2. PICK g \in Frames : Holder(frame[g]) /\ frame[g].glob = id
      BY <3>1 DEF IdInv
    <3>3. g # f
      BY <3>1, <3>2
    <3> QED
      BY <1>1, <3>2, <3>3
  <2> QED
    BY <2>3, <2>4, <2>5 DEF IdInv
<1> QED
  BY <1>3, <1>4, <1>5 DEF Step, Quiet, Mark, Unmark

\* A step of one frame keeps the token invariant: it removes no token but its
\* own, because no other frame has its id.
LEMMA TokLocal ==
    ASSUME TypeOK, IdInv, TokInv, NEW f \in Frames,
           frame' = [frame EXCEPT ![f] = frame'[f]], Step(frame[f], frame'[f])
    PROVE  TokInv'
<1> DEFINE r == frame[f]
           s == frame'[f]
<1>1. /\ \A g \in Frames : g # f => frame'[g] = frame[g]
      /\ r \in FrameType /\ r.set \in Seq(Nodes) /\ r.i \in Nat
      /\ tok \in [Nodes -> SUBSET (Ids \cup {255})]
  BY DEF TypeOK, FrameType
<1> HIDE DEF s, r
<1> SUFFICES ASSUME NEW n \in Nodes, NEW id \in tok'[n]
             PROVE  \E g \in Frames : Marked(frame'[g], n, id)
  BY DEF TokInv
<1>2. ASSUME id \in tok[n], Marked(r, n, id) => Marked(s, n, id)
      PROVE  \E g \in Frames : Marked(frame'[g], n, id)
  <2>1. PICK g \in Frames : Marked(frame[g], n, id)
    BY <1>2 DEF TokInv
  <2>2. CASE g = f
    BY <1>2, <2>1, <2>2 DEF r, s
  <2>3. CASE g # f
    BY <1>1, <2>1, <2>3
  <2> QED
    BY <2>2, <2>3
<1>3. CASE Acquire(r, s)
  BY <1>2, <1>3 DEF Acquire, Marked
<1>4. CASE Quiet(r, s)
  <2>1. id \in tok[n]
    BY <1>4 DEF Quiet
  <2>2. Marked(r, n, id) => Marked(s, n, id)
    BY <1>1, <1>4 DEF Quiet, Marked, Kept
  <2> QED
    BY <1>2, <2>1, <2>2
<1>5. CASE Mark(r, s)
  <2>1. PICK m \in Nodes : /\ s.set = Append(r.set, m)
                           /\ tok' = [tok EXCEPT ![m] = @ \cup {r.glob}]
    BY <1>5 DEF Mark
  <2>2. Holder(s) /\ s.glob = r.glob /\ s.pc # "rel" /\ Holder(r)
    BY <1>5 DEF Mark
  <2>3. /\ \A k \in 1..Len(r.set) : k \in 1..Len(s.set) /\ s.set[k] = r.set[k]
        /\ Len(r.set) + 1 \in 1..Len(s.set) /\ s.set[Len(r.set) + 1] = m
    BY <1>1, <2>1
  <2>4. CASE id \in tok[n]
    BY <1>2, <2>2, <2>3, <2>4 DEF Marked, Kept
  <2>5. CASE id \notin tok[n]
    <3>1. n = m /\ id = r.glob
      BY <1>1, <2>1, <2>5
    <3> QED
      BY <2>2, <2>3, <3>1 DEF Marked, Kept, s
  <2> QED
    BY <2>4, <2>5
<1>6. CASE Unmark(r, s)
  <2>1. /\ Holder(r) /\ Holder(s) /\ s.glob = r.glob /\ s.set = r.set
        /\ r.pc = "rel" /\ s.pc = "rel" /\ r.i \in 1..Len(r.set) /\ s.i = r.i + 1
        /\ tok' = [tok EXCEPT ![r.set[r.i]] = @ \ {r.glob}]
    BY <1>6 DEF Unmark
  <2>2. id \in tok[n] /\ (n = r.set[r.i] => id # r.glob)
    BY <1>1, <2>1
  <2>3. Marked(r, n, id) => Marked(s, n, id)
    <3>1. SUFFICES ASSUME Marked(r, n, id) PROVE Marked(s, n, id)
      OBVIOUS
    <3>2. PICK k \in 1..Len(r.set) : r.set[k] = n /\ k >= r.i
      BY <2>1, <3>1 DEF Marked, Kept
    <3>3. k # r.i
      BY <2>2, <3>1, <3>2 DEF Marked
    <3>4. k >= s.i
      BY <1>1, <2>1, <3>2, <3>3
    <3> QED
      BY <2>1, <3>1, <3>2, <3>4 DEF Marked, Kept
  <2> QED
    BY <1>2, <2>2, <2>3
<1>7. CASE GiveBack(r, s)
  <2>1. /\ r.pc = "rel" /\ r.i > Len(r.set) /\ tok' = tok
    BY <1>7 DEF GiveBack
  <2>2. ~Marked(r, n, id)
    BY <1>1, <2>1 DEF Marked, Kept
  <2> QED
    BY <1>2, <2>1, <2>2
<1> QED
  BY <1>3, <1>4, <1>5, <1>6, <1>7 DEF Step, r, s

\* A call, an entry in or a return from a nested evaluation keeps both: the
\* frames that come and go hold no id.
SameHolders ==
    /\ ids' = ids /\ tok' = tok
    /\ \A g \in Frames :
          /\ Holder(frame'[g]) <=> Holder(frame[g])
          /\ Holder(frame[g]) =>
                /\ frame'[g].glob = frame[g].glob /\ frame'[g].set = frame[g].set
                /\ frame'[g].pc = "rel" <=> frame[g].pc = "rel"
                /\ frame'[g].pc = "rel" => frame'[g].i = frame[g].i

LEMMA InvSame ==
    ASSUME IdInv, TokInv, SameHolders
    PROVE  IdInv' /\ TokInv'
<1>1. IdInv'
  BY DEF IdInv, SameHolders
<1>2. ASSUME NEW g \in Frames, NEW n, NEW id, Marked(frame[g], n, id)
      PROVE  Marked(frame'[g], n, id)
  <2>1. PICK k \in 1..Len(frame[g].set) :
           frame[g].set[k] = n /\ (frame[g].pc = "rel" => k >= frame[g].i)
    BY <1>2 DEF Marked, Kept
  <2> QED
    BY <1>2, <2>1 DEF SameHolders, Marked, Kept
<1>3. TokInv'
  BY <1>2 DEF TokInv, SameHolders
<1> QED
  BY <1>1, <1>3

LEMMA OrCall ==
    ASSUME OrInv, NEW t \in Threads, NEW q \in TopQueries, Call(t, q)
    PROVE  OrFrames' /\ SameHolders
<1> DEFINE z == Fresh(q)
           f == <<t, 1>>
<1>1. f \in Frames /\ frame \in [Frames -> FrameType]
  BY QueriesAssumption DEF Frames, OrInv, TypeInv, TypeOK
<1>2. /\ frame' = [frame EXCEPT ![f] = z]
      /\ ids' = ids /\ tok' = tok
      /\ top[t] = 0
  BY DEF Call
<1>3. frame[f].pc = "off"
  BY <1>1, <1>2, FramesType DEF OrInv, Stack
<1>4. z.pc = "request" /\ z.cur = 0 /\ z.phase = "and" /\ z.set = <<>>
  BY DEF Fresh
<1> HIDE DEF f, z
<1>5. OrFrame(z) /\ ~Holder(z) /\ ~Holder(frame[f])
  BY <1>3, <1>4 DEF OrFrame, OrPcs, Holder
<1>6. OrFrames'
  BY <1>1, <1>2, <1>5 DEF OrInv, OrFrames
<1> QED
  BY <1>1, <1>2, <1>5, <1>6 DEF SameHolders

LEMMA OrNest ==
    ASSUME OrInv, NEW f \in Frames, Nest(f)
    PROVE  OrFrames' /\ SameHolders
<1> DEFINE g == <<f[1], f[2] + 1>>
           r == frame[f]
           s == [r EXCEPT !.pc = "nested"]
           z == Fresh(ThisVisit(f).pred)
<1>1. /\ frame \in [Frames -> FrameType] /\ r \in FrameType /\ r.pc = "visit"
      /\ OrFrame(r) /\ TypeOK /\ ids' = ids /\ tok' = tok
  BY DEF OrInv, TypeInv, TypeOK, OrFrames, Nest, At
<1>2. /\ g \in Frames /\ g # f /\ top[f[1]] = f[2]
      /\ frame' = [frame EXCEPT ![f] = s, ![g] = z]
  BY <1>1, NestShape
<1>3. frame[g].pc = "off"
  BY <1>2, FramesType DEF OrInv, Stack
<1>4. z.pc = "request" /\ z.cur = 0 /\ z.phase = "and" /\ z.set = <<>>
  BY DEF Fresh
<1>5. /\ s.pc = "nested" /\ s.cur = r.cur /\ s.phase = r.phase
      /\ s.glob = r.glob /\ s.set = r.set
  BY <1>1 DEF FrameType
<1> HIDE DEF g, s, z, r
<1>6. OrFrame(z) /\ ~Holder(z) /\ ~Holder(frame[g])
  BY <1>3, <1>4 DEF OrFrame, OrPcs, Holder
<1>7. OrFrame(s) /\ (Holder(s) <=> Holder(r))
  BY <1>1, <1>5 DEF OrFrame, OrPcs, Holder
<1>8. /\ frame'[f] = s /\ frame'[g] = z
      /\ \A h \in Frames : h # f /\ h # g => frame'[h] = frame[h]
  BY <1>1, <1>2
<1>9. OrFrames'
  BY <1>6, <1>7, <1>8 DEF OrInv, OrFrames
<1>10. frame[f] = r /\ s.pc # "rel"
  BY <1>5 DEF r
<1>11. ASSUME NEW h \in Frames
       PROVE  /\ Holder(frame'[h]) <=> Holder(frame[h])
              /\ Holder(frame[h]) =>
                    /\ frame'[h].glob = frame[h].glob
                    /\ frame'[h].set = frame[h].set
                    /\ frame'[h].pc = "rel" <=> frame[h].pc = "rel"
                    /\ frame'[h].pc = "rel" => frame'[h].i = frame[h].i
  <2>1. CASE h = f
    BY <1>1, <1>5, <1>7, <1>8, <1>10, <2>1
  <2>2. CASE h = g
    BY <1>6, <1>8, <2>2
  <2>3. CASE h # f /\ h # g
    BY <1>8, <2>3
  <2> QED
    BY <2>1, <2>2, <2>3
<1> QED
  BY <1>1, <1>9, <1>11 DEF SameHolders

LEMMA OrReturn ==
    ASSUME OrInv, NEW f \in Frames, Return(f)
    PROVE  OrFrames' /\ SameHolders
<1> DEFINE g == <<f[1], f[2] - 1>>
           r == frame[g]
<1>1. /\ frame \in [Frames -> FrameType] /\ TypeInv /\ Stack
      /\ ids' = ids /\ tok' = tok
  BY DEF OrInv, TypeInv, TypeOK, Return
<1>2. /\ Off.pc = "off" /\ Off.cur = 0 /\ Off.phase = "and" /\ Off.set = <<>>
  BY DEF Off, Fresh
<1>3. frame[f].pc = "done"
  BY <1>1, ReturnShape
<1>4. OrFrame(Off) /\ ~Holder(Off) /\ ~Holder(frame[f])
  BY <1>2, <1>3 DEF OrFrame, OrPcs, Holder
<1>5. CASE f[2] = 1
  <2>1. frame' = [frame EXCEPT ![f] = Off]
    BY <1>1, <1>5, ReturnShape
  <2>2. OrFrames'
    BY <1>1, <1>4, <2>1 DEF OrInv, OrFrames
  <2> QED
    BY <1>1, <1>4, <2>1, <2>2 DEF SameHolders
<1>6. CASE f[2] # 1
  <2>1. g \in Frames /\ g # f /\ r.pc = "nested"
    BY <1>1, <1>6, ReturnShape
  <2>2. PICK s : /\ frame' = [frame EXCEPT ![f] = Off, ![g] = s]
                 /\ \/ s = [r EXCEPT !.pc = "add"]
                    \/ s = [r EXCEPT !.pc = "visit", !.i = @ + 1]
    BY <1>1, <1>6, ReturnShape
  <2>3. OrFrame(r) /\ r \in FrameType
    BY <1>1, <2>1 DEF OrInv, OrFrames
  <2> HIDE DEF r, g
  <2>4. /\ s.pc \in {"add", "visit"} /\ s.cur = r.cur /\ s.phase = r.phase
        /\ s.glob = r.glob /\ s.set = r.set
    <3>1. CASE s = [r EXCEPT !.pc = "add"]
      BY <2>3, <3>1 DEF FrameType
    <3>2. CASE s = [r EXCEPT !.pc = "visit", !.i = @ + 1]
      BY <2>3, <3>2 DEF FrameType
    <3> QED
      BY <2>2, <3>1, <3>2
  <2>5. OrFrame(s) /\ (Holder(s) <=> Holder(r))
    BY <2>1, <2>3, <2>4 DEF OrFrame, OrPcs, Holder
  <2>6. /\ frame'[f] = Off /\ frame'[g] = s
        /\ \A h \in Frames : h # f /\ h # g => frame'[h] = frame[h]
    BY <1>1, <2>1, <2>2
  <2>7. OrFrames'
    BY <1>4, <2>5, <2>6 DEF OrInv, OrFrames
  <2>8. frame[g] = r /\ s.pc # "rel"
    BY <2>4 DEF r
  <2>9. ASSUME NEW h \in Frames
        PROVE  /\ Holder(frame'[h]) <=> Holder(frame[h])
               /\ Holder(frame[h]) =>
                     /\ frame'[h].glob = frame[h].glob
                     /\ frame'[h].set = frame[h].set
                     /\ frame'[h].pc = "rel" <=> frame[h].pc = "rel"
                     /\ frame'[h].pc = "rel" => frame'[h].i = frame[h].i
    <3>1. CASE h = f
      BY <1>4, <2>6, <3>1
    <3>2. CASE h = g
      BY <2>1, <2>4, <2>5, <2>6, <2>8, <3>2
    <3>3. CASE h # f /\ h # g
      BY <2>6, <3>3
    <3> QED
      BY <3>1, <3>2, <3>3
  <2> QED
    BY <1>1, <2>7, <2>9 DEF SameHolders
<1> QED
  BY <1>5, <1>6

-----------------------------------------------------------------------------
(* The theorems.                                                           *)

\* Ids, tokens and activation records agree in every reachable state.
THEOREM OrInvariant ==
    ASSUME AllOr
    PROVE  Spec => []OrInv
<1>1. Init => OrInv
  BY TypeInit, StackInit, OrInit DEF OrInv
<1>2. OrInv /\ [Next]_vars => OrInv'
  <2> SUFFICES ASSUME OrInv, [Next]_vars
               PROVE  OrInv'
    OBVIOUS
  <2>0. TypeInv /\ TypeOK /\ Stack /\ OrFrames /\ IdInv /\ TokInv
    BY DEF OrInv, TypeInv
  <2>1. CASE UNCHANGED vars
    BY <2>1 DEF OrInv, TypeInv, TypeOK, Stack, OrFrames, IdInv, TokInv, vars
  <2>2. ASSUME NEW t \in Threads, NEW q \in TopQueries, Call(t, q)
        PROVE  OrInv'
    <3>1. TypeInv' /\ Stack'
      BY <2>0, <2>2, TypeCall, StackCall
    <3>2. OrFrames' /\ IdInv' /\ TokInv'
      BY <2>0, <2>2, OrCall, InvSame
    <3> QED
      BY <3>1, <3>2 DEF OrInv
  <2>3. ASSUME NEW f \in Frames, Exec(f)
        PROVE  OrInv'
    <3>1. CASE LocalStep(f)
      <4>1. TypeInv' /\ Stack'
        BY <2>0, <3>1, TypeLocalStep, StackLocal
      <4>2. /\ frame' = [frame EXCEPT ![f] = frame'[f]]
            /\ OrFrame(frame'[f]) /\ Step(frame[f], frame'[f])
        BY <2>0, <3>1, LocalFrame, OrStep
      <4>3. IdInv' /\ TokInv'
        BY <2>0, <4>2, IdLocal, TokLocal
      <4>4. OrFrames'
        BY <2>0, <4>2 DEF OrFrames, TypeOK
      <4> QED
        BY <4>1, <4>3, <4>4 DEF OrInv
    <3>2. CASE Nest(f)
      <4>1. TypeInv' /\ Stack'
        BY <2>0, <3>2, TypeNest, StackNest
      <4>2. OrFrames' /\ IdInv' /\ TokInv'
        BY <2>0, <3>2, OrNest, InvSame
      <4> QED
        BY <4>1, <4>2 DEF OrInv
    <3>3. CASE Return(f)
      <4>1. TypeInv' /\ Stack'
        BY <2>0, <3>3, TypeReturn, StackReturn
      <4>2. OrFrames' /\ IdInv' /\ TokInv'
        BY <2>0, <3>3, OrReturn, InvSame
      <4> QED
        BY <4>1, <4>2 DEF OrInv
    <3> QED
      BY <2>3, <3>1, <3>2, <3>3, ExecCases
  <2> QED
    BY <2>1, <2>2, <2>3 DEF Next
<1> QED
  BY <1>1, <1>2, PTL DEF Spec

LEMMA HeldByHolder ==
    ASSUME AllOr, OrInv, NEW f \in Frames
    PROVE  HeldIds(f) = IF Holder(frame[f]) THEN {frame[f].glob} ELSE {}
<1> DEFINE r == frame[f]
<1>1. Good(r) /\ OrFrame(r) /\ r \in FrameType
  BY DEF OrInv, TypeInv, OrFrames, Good
<1>2. \A p \in 1..Len(r.req) : r.req[p] = 0
  BY <1>1, NoReq DEF Good
<1>3. r.cur = 0
  BY <1>1 DEF OrFrame
<1>4. 0 \notin Ids
  BY IdsAssumption DEF Ids
<1>5. {r.req[p] : p \in {k \in 1..Len(r.req) :
                            r.phase = "end" => k >= r.path}} \cap Ids = {}
  BY <1>2, <1>4
<1>6. {r.cur} \cap Ids = {}
  BY <1>3, <1>4
<1>7. HoldsGlob(f) <=> Holder(r)
  BY DEF HoldsGlob, Holder
<1> QED
  BY <1>5, <1>6, <1>7 DEF HeldIds

\* No two evaluations under way, of two threads or nested in one another, ever
\* own the same request id, when no xpath has an 'and' (roxml_request_id,
\* roxml_release_id).
THEOREM IdsAreExclusive ==
    ASSUME AllOr
    PROVE  Spec => []IdsExclusive
<1>1. OrInv => IdsExclusive
  BY HeldByHolder DEF OrInv, IdInv, IdsExclusive
<1> QED
  BY <1>1, OrInvariant, PTL

\* Every token in the tree belongs to an evaluation under way that will
\* remove it, when no xpath has an 'and' (roxml_add_to_set, roxml_release_id).
THEOREM TokensAreOwned ==
    ASSUME AllOr
    PROVE  Spec => []TokensOwned
<1>1. ASSUME OrInv PROVE TokensOwned
  <2>1. SUFFICES ASSUME NEW n \in Nodes, NEW id \in tok[n]
                 PROVE  \E f \in Frames :
                           /\ id \in HeldIds(f)
                           /\ \E k \in 1..Len(frame[f].set) : frame[f].set[k] = n
    BY DEF TokensOwned
  <2>2. PICK f \in Frames : Marked(frame[f], n, id)
    BY <1>1, <2>1 DEF OrInv, TokInv
  <2> QED
    BY <1>1, <2>2, HeldByHolder DEF Marked, Kept
<1> QED
  BY <1>1, OrInvariant, PTL

\* Every token in the tree carries an id that is in use, when no xpath has an
\* 'and' (roxml_release_id).
THEOREM NoTokenIsStale ==
    ASSUME AllOr
    PROVE  Spec => []NoStaleToken
<1>1. OrInv => NoStaleToken
  BY DEF OrInv, TokInv, IdInv, Marked, NoStaleToken
<1> QED
  BY <1>1, OrInvariant, PTL

\* When no evaluation is under way no id is in use and no token is left, when
\* no xpath has an 'and'.
THEOREM QuiescenceIsClean ==
    ASSUME AllOr
    PROVE  Spec => []QuiescentClean
<1>1. ASSUME OrInv PROVE QuiescentClean
  <2>1. SUFFICES ASSUME \A t \in Threads : top[t] = 0
                 PROVE  /\ \A id \in Ids : ids[id] = 0
                        /\ \A n \in Nodes : tok[n] \cap Ids = {}
    BY DEF QuiescentClean
  <2>2. ASSUME NEW f \in Frames PROVE ~Holder(frame[f])
    <3>1. frame[f].pc = "off"
      BY <1>1, <2>1, FramesType DEF OrInv, Stack
    <3> QED
      BY <3>1 DEF Holder
  <2>3. ids \in [Ids -> {0, 1}]
    BY <1>1 DEF OrInv, TypeInv, TypeOK
  <2> QED
    BY <1>1, <2>2, <2>3 DEF OrInv, IdInv, TokInv, Marked
<1> QED
  BY <1>1, OrInvariant, PTL

-----------------------------------------------------------------------------
(* The answers.                                                            *)

\* The walk has gone past candidate k of path p.
Walked(r, p, k) ==
    \/ r.phase = "end"
    \/ r.phase = "or" /\ p < r.path
    \/ r.phase = "or" /\ p = r.path /\ r.pc \in WalkPcs /\ k < r.i

\* Every candidate walked past that should have been selected has been.
Complete(r) ==
    \A p \in 1..Len(Paths[r.qry]) : \A k \in 1..Len(Visits(r.qry, p)) :
        Walked(r, p, k) /\ Selected(Visits(r.qry, p)[k]) =>
            Visits(r.qry, p)[k].node \in NodesOf(r.set)

\* What the answer under way of a frame is; ref tells whether a request of
\* its thread was refused an id.
Answering(r, ref) ==
    /\ NodesOf(r.set) \subseteq Answer(r.qry)
    /\ NoRepetition(r.set)
    /\ r.pc = "add" => Selected(Visits(r.qry, r.path)[r.i])
    /\ ~ref => Complete(r) /\ (r.pc = "done" => r.phase = "end")

Answered == \A f \in Frames : Answering(frame[f], refused[f[1]])

\* A node of an answer has the token of the evaluation until it is removed.
Present(r, tk) ==
    Holder(r) =>
        \A k \in 1..Len(r.set) : (r.pc = "rel" => k >= r.i) =>
            r.glob \in tk[r.set[k]]

AllPresent == \A f \in Frames : Present(frame[f], tok)

\* A frame that waits, waits for the predicate of its candidate.
Waiting ==
    \A f \in Frames : frame[f].pc = "nested" =>
        /\ f[2] < MaxDepth
        /\ ThisVisit(f).pred # NoPred
        /\ frame[<<f[1], f[2] + 1>>].qry = ThisVisit(f).pred

AnswerInv == OrInv /\ Answered /\ AllPresent /\ Waiting

-----------------------------------------------------------------------------
(* Facts about the meaning of an xpath.                                    *)

LEMMA AnswerIs ==
    ASSUME NEW q \in Queries, NEW n
    PROVE  n \in Answer(q) <=>
              \E p \in 1..Len(Paths[q]) : \E k \in 1..Len(Visits(q, p)) :
                  Selected(Visits(q, p)[k]) /\ Visits(q, p)[k].node = n
<1>1. ASSUME NEW p \in 1..Len(Paths[q])
      PROVE  n \in Hits(q, p) <=>
                \E k \in 1..Len(Visits(q, p)) :
                    Selected(Visits(q, p)[k]) /\ Visits(q, p)[k].node = n
  BY DEF Hits
<1> QED
  BY <1>1 DEF Answer

\* Without an 'and' an xpath holds when it selects something.
LEMMA TruthIs ==
    ASSUME AllOr, NEW q \in Queries
    PROVE  Truth[q] <=> Answer(q) # {}
<1>1. ASSUME NEW p \in 1..Len(Paths[q])
      PROVE  Paths[q][p].rel = "or" /\ Group(q, p) = {p}
  <2>1. \A r \in 1..Len(Paths[q]) : Paths[q][r].rel = "or"
    BY DEF AllOr, OrOnly
  <2>2. ASSUME NEW r \in Group(q, p), r # p
        PROVE  FALSE
    <3>1. r \in p..Len(Paths[q]) /\ \A s \in (p + 1)..r : Paths[q][s].rel = "and"
      BY DEF Group
    <3>2. p + 1 \in (p + 1)..r /\ p + 1 \in 1..Len(Paths[q])
      BY <2>2, <3>1, LenPaths
    <3> QED
      BY <2>1, <3>1, <3>2
  <2>3. p \in Group(q, p)
    BY LenPaths DEF Group
  <2> QED
    BY <2>1, <2>2, <2>3
<1>2. Truth[q] <=> \E p \in 1..Len(Paths[q]) : Hits(q, p) # {}
  BY <1>1, TruthAssumption
<1> QED
  BY <1>2 DEF Answer

-----------------------------------------------------------------------------
(* The steps of one frame.                                                 *)

\* A step that adds nothing and walks past nothing.
LEMMA SameAnswer ==
    ASSUME NEW r, NEW s, NEW ref \in BOOLEAN, Answering(r, ref),
           s.set = r.set, s.qry = r.qry, s.pc # "add",
           s.pc = "done" => s.phase = "end",
           \A p \in 1..Len(Paths[r.qry]) : \A k \in 1..Len(Visits(r.qry, p)) :
               Walked(s, p, k) => Walked(r, p, k)
    PROVE  Answering(s, ref)
<1>1. Complete(r) => Complete(s)
  BY DEF Complete
<1> QED
  BY <1>1 DEF Answering

\* The answer of frame f after a step of its own.
Moved(f) ==
    /\ frame'[f].qry = frame[f].qry
    /\ Answering(frame'[f], refused'[f[1]])

LEMMA AnsRequestGlob ==
    ASSUME OrInv, NEW f \in Frames, RequestGlob(f)
    PROVE  Moved(f)
<1> DEFINE r == frame[f]
           s == frame'[f]
<1>1. frame \in [Frames -> FrameType] /\ OrFrame(r) /\ f[1] \in Threads
      /\ refused \in [Threads -> BOOLEAN]
  BY FramesType DEF OrInv, TypeInv, TypeOK, OrFrames
<1>2. r \in FrameType /\ r.pc = "request"
  BY <1>1 DEF RequestGlob, At
<1>3. PICK id \in Ids \cup {-1} :
         /\ RequestId(f, id)
         /\ frame' = [frame EXCEPT ![f].glob = id,
                                   ![f].pc = IF id < 0 THEN "done" ELSE "head"]
  BY DEF RequestGlob
<1>4. s = [r EXCEPT !.glob = id, !.pc = IF id < 0 THEN "done" ELSE "head"]
  BY <1>1, <1>3
<1>5. id < 0 => refused'[f[1]] = TRUE
  BY <1>1, <1>3, IdsAssumption DEF RequestId, Free, Ids
<1> HIDE DEF r, s
<1>6. /\ s.pc = IF id < 0 THEN "done" ELSE "head"
      /\ s.phase = "and" /\ s.set = <<>> /\ s.qry = r.qry
  BY <1>1, <1>2, <1>4 DEF FrameType, OrFrame
<1>7. Complete(s)
  BY <1>6 DEF Complete, Walked
<1>8. Answering(s, refused'[f[1]])
  BY <1>5, <1>6, <1>7 DEF Answering, NodesOf, NoRepetition
<1> QED
  BY <1>6, <1>8 DEF Moved, r, s

LEMMA AnsAndHead ==
    ASSUME OrInv, Answered, NEW f \in Frames, AndHead(f)
    PROVE  Moved(f)
<1> DEFINE r == frame[f]
           s == frame'[f]
<1>1. /\ frame \in [Frames -> FrameType] /\ r \in FrameType
      /\ Answering(r, refused[f[1]]) /\ refused' = refused
      /\ refused[f[1]] \in BOOLEAN
  BY FramesType DEF OrInv, TypeInv, TypeOK, Answered, AndHead
<1>2. r.pc = "head" /\ r.phase = "and"
  BY DEF AndHead, At, InPhase
<1>3. s = [r EXCEPT !.phase = "or", !.path = 1] \/ s = [r EXCEPT !.path = @ + 1]
  BY <1>1 DEF AndHead
<1> HIDE DEF r, s
<1>4. /\ s.pc = "head" /\ s.set = r.set /\ s.qry = r.qry
      /\ s.phase = "or" => s.path = 1
      /\ s.phase # "end"
  <2>1. CASE s = [r EXCEPT !.phase = "or", !.path = 1]
    BY <1>1, <1>2, <2>1 DEF FrameType
  <2>2. CASE s = [r EXCEPT !.path = @ + 1]
    BY <1>1, <1>2, <2>2 DEF FrameType
  <2> QED
    BY <1>3, <2>1, <2>2
<1>5. \A p \in 1..Len(Paths[r.qry]) : \A k : ~Walked(s, p, k)
  BY <1>4 DEF Walked, WalkPcs
<1>6. Answering(s, refused[f[1]])
  BY <1>1, <1>4, <1>5, SameAnswer
<1> QED
  BY <1>1, <1>4, <1>6 DEF Moved, r, s

LEMMA AnsEndOfWalk ==
    ASSUME OrInv, AllOr, Answered, NEW f \in Frames, EndOfWalk(f)
    PROVE  Moved(f)
<1> DEFINE r == frame[f]
           s == frame'[f]
<1>1. /\ frame \in [Frames -> FrameType] /\ r \in FrameType /\ Good(r)
      /\ Answering(r, refused[f[1]]) /\ refused' = refused
      /\ refused[f[1]] \in BOOLEAN
  BY FramesType DEF OrInv, TypeInv, TypeOK, Answered, EndOfWalk
<1>2. r.pc = "visit" /\ r.qry \in Queries
  BY <1>1 DEF EndOfWalk, At, FrameType
<1>3. r.phase = "or" /\ r.path \in 1..Len(Paths[r.qry])
  BY <1>1, <1>2, NoReq DEF WalkPcs, Good
<1>4. s = [r EXCEPT !.pc = "head", !.path = @ + 1]
  BY <1>1, <1>3 DEF EndOfWalk
<1>5. ~(r.i <= Len(Visits(r.qry, r.path)))
  BY DEF EndOfWalk, InVisits, ThisPath, Visits
<1> HIDE DEF r, s
<1>6. /\ s.pc = "head" /\ s.set = r.set /\ s.qry = r.qry
      /\ s.phase = "or" /\ s.path = r.path + 1
  BY <1>1, <1>3, <1>4 DEF FrameType
<1>7. ASSUME NEW p \in 1..Len(Paths[r.qry]), NEW k \in 1..Len(Visits(r.qry, p)),
             Walked(s, p, k)
      PROVE  Walked(r, p, k)
  <2>1. p < r.path + 1
    BY <1>6, <1>7 DEF Walked, WalkPcs
  <2>2. r.path \in Nat /\ r.i \in Nat
    BY <1>1 DEF FrameType
  <2>3. CASE p < r.path
    BY <1>3, <2>3 DEF Walked
  <2>4. CASE p = r.path
    <3>1. Len(Visits(r.qry, r.path)) \in Nat
      BY <1>2, <1>3, LenVisits
    <3>2. k < r.i
      BY <1>5, <2>2, <2>4, <3>1
    <3> QED
      BY <1>2, <1>3, <2>4, <3>2 DEF Walked, WalkPcs
  <2> QED
    BY <2>1, <2>2, <2>3, <2>4
<1>8. Answering(s, refused[f[1]])
  BY <1>1, <1>6, <1>7, SameAnswer
<1> QED
  BY <1>1, <1>6, <1>8 DEF Moved, r, s

LEMMA AnsOrHead ==
    ASSUME OrInv, AllOr, Answered, NEW f \in Frames, OrHead(f)
    PROVE  Moved(f)
<1> DEFINE r == frame[f]
           s == frame'[f]
<1>1. /\ frame \in [Frames -> FrameType] /\ r \in FrameType /\ Good(r)
      /\ Answering(r, refused[f[1]]) /\ refused' = refused
      /\ refused[f[1]] \in BOOLEAN
  BY FramesType DEF OrInv, TypeInv, TypeOK, Answered, OrHead
<1>2. /\ r.pc = "head" /\ r.phase = "or" /\ r.qry \in Queries
      /\ r.path \in Nat \ {0} /\ Len(Paths[r.qry]) \in Nat
  BY <1>1, LenPaths DEF OrHead, At, InPhase, FrameType, Good
<1>3. r.path <= Len(Paths[r.qry]) =>
          r.req[r.path] = 0 /\ Paths[r.qry][r.path].rel = "or"
  BY <1>1, <1>2, NoReq DEF AllOr, OrOnly
<1>4. \/ /\ s = [r EXCEPT !.phase = "end", !.path = 0, !.pc = "rel", !.i = 1,
                          !.rid = r.glob]
         /\ r.path > Len(Paths[r.qry])
      \/ s = [r EXCEPT !.i = 1, !.pc = "visit"]
  <2>1. CASE ~InPaths(f)
    <3>1. r.path > Len(Paths[r.qry])
      BY <1>2, <2>1 DEF InPaths, NbPaths
    <3>2. frame' = [frame EXCEPT ![f].phase = "end", ![f].path = 0,
                       ![f].pc = "rel", ![f].i = 1, ![f].rid = frame[f].glob]
      BY <2>1 DEF OrHead
    <3>3. s = [r EXCEPT !.phase = "end", !.path = 0, !.pc = "rel", !.i = 1,
                        !.rid = r.glob]
      BY <1>1, <3>2
    <3> QED
      BY <3>1, <3>3
  <2>2. CASE InPaths(f)
    <3>1. ThisPath(f).rel = "or" /\ r.req[r.path] = 0
      BY <1>3, <2>2 DEF InPaths, NbPaths, ThisPath
    <3>2. frame' = [frame EXCEPT ![f].i = 1, ![f].pc = "visit"]
      BY <2>2, <3>1 DEF OrHead
    <3> QED
      BY <1>1, <3>2
  <2> QED
    BY <2>1, <2>2
<1> HIDE DEF r, s
<1>5. CASE /\ s = [r EXCEPT !.phase = "end", !.path = 0, !.pc = "rel", !.i = 1,
                            !.rid = r.glob]
           /\ r.path > Len(Paths[r.qry])
  <2>1. s.pc = "rel" /\ s.set = r.set /\ s.qry = r.qry
    BY <1>1, <1>5 DEF FrameType
  <2>2. \A p \in 1..Len(Paths[r.qry]) : \A k : Walked(r, p, k)
    BY <1>2, <1>5 DEF Walked
  <2> QED
    BY <1>1, <2>1, <2>2, SameAnswer DEF Moved, r, s
<1>6. CASE s = [r EXCEPT !.i = 1, !.pc = "visit"]
  <2>1. /\ s.pc = "visit" /\ s.set = r.set /\ s.qry = r.qry /\ s.i = 1
        /\ s.phase = "or" /\ s.path = r.path
    BY <1>1, <1>2, <1>6 DEF FrameType
  <2>2. ASSUME NEW p \in 1..Len(Paths[r.qry]),
               NEW k \in 1..Len(Visits(r.qry, p)), Walked(s, p, k)
        PROVE  Walked(r, p, k)
    BY <1>2, <2>1, <2>2 DEF Walked
  <2> QED
    BY <1>1, <2>1, <2>2, SameAnswer DEF Moved, r, s
<1> QED
  BY <1>4, <1>5, <1>6

\* The steps that release and finish: the walk is over.
LEMMA AnsEnd ==
    ASSUME OrInv, Answered, NEW f \in Frames,
           ReleaseToken(f) \/ ReleaseId(f) \/ EndHead(f)
    PROVE  Moved(f)
<1> DEFINE r == frame[f]
           s == frame'[f]
<1>1. /\ frame \in [Frames -> FrameType] /\ r \in FrameType /\ OrFrame(r)
      /\ Answering(r, refused[f[1]]) /\ refused' = refused
      /\ refused[f[1]] \in BOOLEAN /\ TypeInv /\ OrFrames
  BY FramesType
     DEF OrInv, TypeInv, TypeOK, OrFrames, Answered, ReleaseToken, ReleaseId, EndHead
<1>2. /\ r.phase = "end" /\ s.phase = "end" /\ s.set = r.set /\ s.qry = r.qry
      /\ s.pc # "add"
  <2>1. CASE ReleaseToken(f)
    <3>1. r.pc = "rel" /\ s = [r EXCEPT !.i = @ + 1]
      BY <1>1, <2>1 DEF ReleaseToken, At
    <3> HIDE DEF r, s
    <3> QED
      BY <1>1, <3>1 DEF FrameType, OrFrame
  <2>2. CASE ReleaseId(f)
    <3>1. r.pc = "rel" /\ s = [r EXCEPT !.pc = "head", !.path = @ + 1]
      BY <1>1, <2>2 DEF ReleaseId, At
    <3> HIDE DEF r, s
    <3> QED
      BY <1>1, <3>1 DEF FrameType, OrFrame
  <2>3. CASE EndHead(f)
    <3>1. r.pc = "head" /\ r.phase = "end"
      BY <2>3 DEF EndHead, At, InPhase
    <3>2. \/ s = [r EXCEPT !.pc = "done"]
          \/ s = [r EXCEPT !.path = @ + 1]
          \/ s = [r EXCEPT !.pc = "rel", !.i = 1, !.rid = r.req[r.path]]
      BY <1>1, <2>3 DEF EndHead
    <3> HIDE DEF r, s
    <3>3. CASE s = [r EXCEPT !.pc = "done"]
      BY <1>1, <3>1, <3>3 DEF FrameType
    <3>4. CASE s = [r EXCEPT !.path = @ + 1]
      BY <1>1, <3>1, <3>4 DEF FrameType
    <3>5. CASE s = [r EXCEPT !.pc = "rel", !.i = 1, !.rid = r.req[r.path]]
      BY <1>1, <3>1, <3>5 DEF FrameType
    <3> QED
      BY <3>2, <3>3, <3>4, <3>5
  <2> QED
    BY <2>1, <2>2, <2>3
<1> HIDE DEF r, s
<1>3. \A p, k : Walked(r, p, k)
  BY <1>2 DEF Walked
<1> QED
  BY <1>1, <1>2, <1>3, SameAnswer DEF Moved, r, s

LEMMA AppendNode ==
    ASSUME NEW x \in Seq(Nodes), NEW n \in Nodes
    PROVE  /\ NodesOf(Append(x, n)) = NodesOf(x) \cup {n}
           /\ NoRepetition(x) /\ n \notin NodesOf(x) =>
                  NoRepetition(Append(x, n))
<1> DEFINE y == Append(x, n)
<1>1. /\ Len(x) \in Nat /\ Len(y) = Len(x) + 1
      /\ \A k \in 1..Len(x) : y[k] = x[k]
      /\ y[Len(x) + 1] = n
  OBVIOUS
<1> HIDE DEF y
<1>2. \A k : k \in 1..Len(y) <=> k \in 1..Len(x) \/ k = Len(x) + 1
  BY <1>1
<1>3. NodesOf(y) = NodesOf(x) \cup {n}
  BY <1>1, <1>2 DEF NodesOf
<1>4. NoRepetition(x) /\ n \notin NodesOf(x) => NoRepetition(y)
  BY <1>1, <1>2 DEF NodesOf, NoRepetition
<1> QED
  BY <1>3, <1>4 DEF y

\* While a frame walks, the nodes that have its token are those of its answer.
LEMMA PoolIsSet ==
    ASSUME OrInv, AllPresent, NEW f \in Frames, NEW n \in Nodes,
           Holder(frame[f]), frame[f].pc # "rel"
    PROVE  frame[f].glob \in tok[n] <=> n \in NodesOf(frame[f].set)
<1>1. ASSUME frame[f].glob \in tok[n]
      PROVE  n \in NodesOf(frame[f].set)
  <2>1. PICK g \in Frames : Marked(frame[g], n, frame[f].glob)
    BY <1>1 DEF OrInv, TokInv
  <2>2. g = f
    BY <2>1 DEF OrInv, IdInv, Marked
  <2> QED
    BY <2>1, <2>2 DEF Marked, Kept, NodesOf
<1>2. ASSUME n \in NodesOf(frame[f].set)
      PROVE  frame[f].glob \in tok[n]
  BY <1>2 DEF AllPresent, Present, NodesOf
<1> QED
  BY <1>1, <1>2

LEMMA AnsAddToSet ==
    ASSUME OrInv, AllOr, Answered, AllPresent, NEW f \in Frames, AddToSet(f)
    PROVE  Moved(f)
<1> DEFINE n == ThisVisit(f).node
           r == frame[f]
           s == frame'[f]
           ref == refused[f[1]]
           v == Visits(r.qry, r.path)[r.i]
<1>1. /\ frame \in [Frames -> FrameType] /\ r \in FrameType /\ Good(r) /\ TypeInv
      /\ Answering(r, ref) /\ refused' = refused /\ ref \in BOOLEAN
  BY FramesType DEF OrInv, TypeInv, TypeOK, Answered, AddToSet
<1>2. r.pc \in {"visit", "add"} /\ r.qry \in Queries
  BY <1>1 DEF AddToSet, At, FrameType
<1>3. /\ r.phase = "or" /\ r.glob \in Ids
      /\ r.path \in 1..Len(Paths[r.qry])
  BY <1>1, <1>2, NoReq DEF WalkPcs, Good
<1>4. /\ r.i \in 1..Len(Visits(r.qry, r.path)) /\ ThisVisit(f) = v /\ n \in Nodes
  BY <1>1, ThisVisitType DEF AddToSet, At
<1>5. Selected(v)
  BY <1>1, <1>4 DEF AddToSet, At, Answering, Selected
<1>6. Holder(r) /\ WalkId(f) = r.glob
  BY <1>2, <1>3 DEF Holder, WalkId
<1>7. InPool(n, WalkId(f)) <=> n \in NodesOf(r.set)
  BY <1>2, <1>4, <1>6, PoolIsSet DEF InPool
<1>8. n = v.node /\ n \in Answer(r.qry)
  BY <1>2, <1>3, <1>4, <1>5, AnswerIs
<1>9. \/ /\ s = [r EXCEPT !.pc = "visit", !.i = @ + 1]
         /\ n \in NodesOf(r.set)
      \/ /\ s = [r EXCEPT !.pc = "visit", !.i = @ + 1, !.set = Append(@, n)]
         /\ n \notin NodesOf(r.set)
  BY <1>1, <1>7 DEF AddToSet
<1> HIDE DEF n, r, s, v
<1>10. /\ s.pc = "visit" /\ s.qry = r.qry /\ s.phase = "or" /\ s.path = r.path
       /\ s.i = r.i + 1 /\ r.i \in Nat /\ r.set \in Seq(Nodes)
       /\ \/ s.set = r.set /\ n \in NodesOf(r.set)
          \/ s.set = Append(r.set, n) /\ n \notin NodesOf(r.set)
  <2>1. CASE /\ s = [r EXCEPT !.pc = "visit", !.i = @ + 1]
             /\ n \in NodesOf(r.set)
    BY <1>1, <1>3, <2>1 DEF FrameType
  <2>2. CASE /\ s = [r EXCEPT !.pc = "visit", !.i = @ + 1, !.set = Append(@, n)]
             /\ n \notin NodesOf(r.set)
    BY <1>1, <1>3, <2>2 DEF FrameType
  <2> QED
    BY <1>9, <2>1, <2>2
<1>11. /\ NodesOf(s.set) = NodesOf(r.set) \cup {n}
       /\ NoRepetition(s.set)
  BY <1>1, <1>4, <1>10, AppendNode DEF Answering
<1>12. ASSUME Complete(r)
       PROVE  Complete(s)
  <2>1. SUFFICES ASSUME NEW p \in 1..Len(Paths[r.qry]),
                        NEW k \in 1..Len(Visits(r.qry, p)),
                        Walked(s, p, k), Selected(Visits(r.qry, p)[k])
                 PROVE  Visits(r.qry, p)[k].node \in NodesOf(s.set)
    BY <1>10 DEF Complete
  <2>2. CASE Walked(r, p, k)
    BY <1>11, <1>12, <2>1, <2>2 DEF Complete
  <2>3. CASE ~Walked(r, p, k)
    <3>1. p = r.path /\ k < r.i + 1 /\ ~(k < r.i)
      BY <1>2, <1>3, <1>10, <2>1, <2>3 DEF Walked, WalkPcs
    <3>2. k \in Nat
      BY <1>2, LenVisits
    <3>3. k = r.i
      BY <1>10, <3>1, <3>2
    <3> QED
      BY <1>8, <1>11, <3>1, <3>3 DEF v
  <2> QED
    BY <2>2, <2>3
<1>13. Answering(s, ref)
  BY <1>1, <1>8, <1>10, <1>11, <1>12 DEF Answering
<1> QED
  BY <1>1, <1>10, <1>13 DEF Moved, r, s

LEMMA AnsLocal ==
    ASSUME OrInv, AllOr, Answered, AllPresent, NEW f \in Frames, LocalStep(f)
    PROVE  Moved(f)
  BY OrActions, AnsRequestGlob, AnsAndHead, AnsAddToSet, AnsEndOfWalk,
     AnsOrHead, AnsEnd DEF OrInv

\* A refusal is not forgotten during a call.
LEMMA RefusedGrows ==
    ASSUME OrInv, AllOr, NEW f \in Frames, LocalStep(f), NEW t \in Threads
    PROVE  refused[t] => refused'[t]
<1>1. refused \in [Threads -> BOOLEAN] /\ f[1] \in Threads
  BY FramesType DEF OrInv, TypeInv, TypeOK
<1>2. CASE RequestGlob(f)
  BY <1>1, <1>2 DEF RequestGlob, RequestId
<1>3. CASE ~RequestGlob(f)
  <2>1. UNCHANGED refused
    BY <1>3, OrActions DEF OrInv, AndHead, AddToSet, EndOfWalk, OrHead,
       ReleaseToken, ReleaseId, EndHead
  <2> QED
    BY <2>1
<1> QED
  BY <1>2, <1>3

LEMMA AnsweredLocal ==
    ASSUME OrInv, AllOr, Answered, AllPresent, NEW f \in Frames, LocalStep(f)
    PROVE  Answered'
<1>1. /\ Moved(f) /\ refused \in [Threads -> BOOLEAN]
      /\ frame \in [Frames -> FrameType]
      /\ frame' = [frame EXCEPT ![f] = frame'[f]]
  BY AnsLocal, LocalFrame DEF OrInv, TypeInv, TypeOK
<1>2. ASSUME NEW g \in Frames
      PROVE  Answering(frame'[g], refused'[g[1]])
  <2>1. CASE g = f
    BY <1>1, <2>1 DEF Moved
  <2>2. CASE g # f
    <3>1. frame'[g] = frame[g]
      BY <1>1, <2>2
    <3>2. refused[g[1]] => refused'[g[1]]
      BY RefusedGrows, FramesType
    <3> QED
      BY <3>1, <3>2 DEF Answered, Answering
  <2> QED
    BY <2>1, <2>2
<1> QED
  BY <1>2 DEF Answered

LEMMA WaitingLocal ==
    ASSUME OrInv, AllOr, Answered, AllPresent, Waiting,
           NEW f \in Frames, LocalStep(f)
    PROVE  Waiting'
<1>1. /\ frame'[f].qry = frame[f].qry /\ frame'[f].pc # "nested"
      /\ frame \in [Frames -> FrameType]
      /\ frame' = [frame EXCEPT ![f] = frame'[f]]
  BY AnsLocal, LocalFrame DEF OrInv, TypeInv, TypeOK, Moved
<1>2. \A g \in Frames : frame'[g].qry = frame[g].qry
  BY <1>1
<1>3. SUFFICES ASSUME NEW h \in Frames, frame'[h].pc = "nested"
               PROVE  /\ h[2] < MaxDepth
                      /\ ThisVisit(h)'.pred # NoPred
                      /\ frame'[<<h[1], h[2] + 1>>].qry = ThisVisit(h)'.pred
  BY DEF Waiting
<1>4. frame'[h] = frame[h]
  BY <1>1, <1>3
<1>5. ThisVisit(h)' = ThisVisit(h)
  BY <1>4 DEF ThisVisit, ThisPath
<1>6. h[2] < MaxDepth => <<h[1], h[2] + 1>> \in Frames
  BY FramesType, QueriesAssumption DEF Frames
<1> QED
  BY <1>2, <1>3, <1>4, <1>5, <1>6 DEF Waiting

LEMMA PresentLocal ==
    ASSUME OrInv, AllOr, Answered, AllPresent, NEW f \in Frames, LocalStep(f)
    PROVE  AllPresent'
<1> DEFINE r == frame[f]
           s == frame'[f]
<1>1. /\ \A g \in Frames : g # f => frame'[g] = frame[g]
      /\ r \in FrameType /\ r.set \in Seq(Nodes) /\ r.i \in Nat
      /\ tok \in [Nodes -> SUBSET (Ids \cup {255})]
  BY LocalFrame DEF OrInv, TypeInv, TypeOK, FrameType
<1>2. /\ Step(r, s) /\ NoRepetition(r.set) /\ Present(r, tok)
  BY OrStep DEF OrInv, Answered, Answering, AllPresent
<1> HIDE DEF r, s
<1> DEFINE Marks(g) == \A n \in Nodes :
                          frame[g].glob \in tok[n] => frame[g].glob \in tok'[n]
<1>3. ASSUME NEW g \in Frames, g # f, Holder(frame[g])
      PROVE  Marks(g)
  <2>1. Holder(r) => frame[g].glob # r.glob
    BY <1>3 DEF OrInv, IdInv, r
  <2>2. CASE Acquire(r, s) \/ Quiet(r, s) \/ GiveBack(r, s)
    BY <2>2 DEF Acquire, Quiet, GiveBack
  <2>3. CASE Mark(r, s)
    BY <1>1, <2>3 DEF Mark
  <2>4. CASE Unmark(r, s)
    BY <1>1, <2>1, <2>4 DEF Unmark
  <2> QED
    BY <1>2, <2>2, <2>3, <2>4 DEF Step
<1>4. ASSUME NEW g \in Frames, g # f
      PROVE  Present(frame'[g], tok')
  <2>1. frame'[g] = frame[g]
    BY <1>1, <1>4
  <2>2. frame[g].set \in Seq(Nodes)
    BY DEF OrInv, TypeInv, TypeOK, FrameType
  <2> QED
    BY <1>3, <1>4, <2>1, <2>2 DEF AllPresent, Present, Holder
<1>5. Present(s, tok')
  <2>1. CASE Acquire(r, s)
    BY <2>1 DEF Acquire, Present
  <2>2. CASE Quiet(r, s)
    BY <1>2, <2>2 DEF Quiet, Present
  <2>3. CASE Mark(r, s)
    <3>1. PICK n \in Nodes : /\ s.set = Append(r.set, n)
                             /\ tok' = [tok EXCEPT ![n] = @ \cup {r.glob}]
      BY <2>3 DEF Mark
    <3>2. Holder(r) /\ s.glob = r.glob /\ r.pc # "rel"
      BY <2>3 DEF Mark
    <3>3. SUFFICES ASSUME NEW k \in 1..Len(s.set)
                   PROVE  r.glob \in tok'[s.set[k]]
      BY <3>2 DEF Present
    <3>4. CASE k \in 1..Len(r.set)
      <4>1. s.set[k] = r.set[k] /\ r.set[k] \in Nodes
        BY <1>1, <3>1, <3>4
      <4>2. r.glob \in tok[r.set[k]]
        BY <1>2, <3>2, <3>4 DEF Present
      <4> QED
        BY <1>1, <3>1, <4>1, <4>2
    <3>5. CASE k \notin 1..Len(r.set)
      <4>1. s.set[k] = n
        BY <1>1, <3>1, <3>3, <3>5
      <4> QED
        BY <1>1, <3>1, <4>1
    <3> QED
      BY <3>4, <3>5
  <2>4. CASE Unmark(r, s)
    <3>1. /\ Holder(r) /\ s.glob = r.glob /\ s.set = r.set
          /\ r.pc = "rel" /\ s.pc = "rel" /\ r.i \in 1..Len(r.set)
          /\ s.i = r.i + 1 /\ tok' = [tok EXCEPT ![r.set[r.i]] = @ \ {r.glob}]
      BY <2>4 DEF Unmark
    <3>2. SUFFICES ASSUME NEW k \in 1..Len(r.set), k >= r.i + 1
                   PROVE  r.glob \in tok'[r.set[k]]
      BY <3>1 DEF Present
    <3>3. r.set[k] # r.set[r.i] /\ k >= r.i /\ r.set[k] \in Nodes
      BY <1>1, <1>2, <3>1, <3>2 DEF NoRepetition
    <3>4. r.glob \in tok[r.set[k]]
      BY <1>2, <3>1, <3>3 DEF Present
    <3> QED
      BY <1>1, <3>1, <3>3, <3>4
  <2>5. CASE GiveBack(r, s)
    BY <2>5 DEF GiveBack, Present
  <2> QED
    BY <1>2, <2>1, <2>2, <2>3, <2>4, <2>5 DEF Step
<1> QED
  BY <1>4, <1>5 DEF AllPresent, s

LEMMA PresentSame ==
    ASSUME AllPresent, SameHolders
    PROVE  AllPresent'
<1>1. ASSUME NEW g \in Frames
      PROVE  Present(frame'[g], tok')
  BY DEF AllPresent, Present, SameHolders
<1> QED
  BY <1>1 DEF AllPresent

-----------------------------------------------------------------------------
(* Calls, entries in and returns from nested evaluations.                  *)

\* A frame that has not started its walk.
LEMMA Idle ==
    ASSUME NEW r, NEW ref, r.set = <<>>, r.phase = "and",
           r.pc \notin {"add", "done"}
    PROVE  Answering(r, ref)
<1>1. Complete(r)
  BY DEF Complete, Walked
<1> QED
  BY <1>1 DEF Answering, NodesOf, NoRepetition

LEMMA FreshIdle ==
    ASSUME NEW q, NEW ref
    PROVE  /\ Answering(Fresh(q), ref) /\ Answering(Off, ref)
           /\ Fresh(q).pc = "request" /\ Fresh(q).qry = q /\ Off.pc = "off"
<1> DEFINE z == Fresh(q)
<1>1. /\ z.set = <<>> /\ z.phase = "and" /\ z.pc = "request" /\ z.qry = q
      /\ Off.set = <<>> /\ Off.phase = "and" /\ Off.pc = "off"
  BY DEF Fresh, Off
<1> HIDE DEF z
<1> QED
  BY <1>1, Idle DEF z

LEMMA AnsCall ==
    ASSUME AnswerInv, NEW t \in Threads, NEW q \in TopQueries, Call(t, q)
    PROVE  Answered' /\ Waiting'
<1> DEFINE f == <<t, 1>>
           z == Fresh(q)
<1>1. /\ f \in Frames /\ frame \in [Frames -> FrameType] /\ f[1] = t
      /\ f[2] = 1 /\ top[t] = 0 /\ frame' = [frame EXCEPT ![f] = z]
      /\ refused \in [Threads -> BOOLEAN]
      /\ refused' = [refused EXCEPT ![t] = FALSE]
  BY QueriesAssumption DEF Frames, AnswerInv, OrInv, TypeInv, TypeOK, Call
<1>2. /\ \A ref : Answering(z, ref)
      /\ z.pc = "request"
  BY FreshIdle
<1> HIDE DEF f, z
<1>3. ASSUME NEW g \in Frames
      PROVE  Answering(frame'[g], refused'[g[1]])
  <2>1. CASE g = f
    BY <1>1, <1>2, <2>1
  <2>2. CASE g # f /\ g[1] = t
    <3>1. frame[g].pc = "off"
      BY <1>1, <2>2, FramesType DEF AnswerInv, OrInv, Stack
    <3>2. frame[g].set = <<>> /\ frame[g].phase = "and"
      BY <3>1 DEF AnswerInv, OrInv, OrFrames, OrFrame
    <3> QED
      BY <1>1, <2>2, <3>1, <3>2, Idle
  <2>3. CASE g[1] # t
    BY <1>1, <2>3, FramesType DEF AnswerInv, Answered
  <2> QED
    BY <2>1, <2>2, <2>3
<1>4. SUFFICES ASSUME NEW h \in Frames, frame'[h].pc = "nested"
               PROVE  /\ h[2] < MaxDepth
                      /\ ThisVisit(h)'.pred # NoPred
                      /\ frame'[<<h[1], h[2] + 1>>].qry = ThisVisit(h)'.pred
  BY <1>3 DEF Answered, Waiting
<1>5. frame'[h] = frame[h] /\ h # f
  BY <1>1, <1>2, <1>4
<1>6. ThisVisit(h)' = ThisVisit(h)
  BY <1>5 DEF ThisVisit, ThisPath
<1>7. <<h[1], h[2] + 1>> # f
  BY FramesType DEF f
<1>8. h[2] < MaxDepth => <<h[1], h[2] + 1>> \in Frames
  BY FramesType, QueriesAssumption DEF Frames
<1> QED
  BY <1>1, <1>4, <1>5, <1>6, <1>7, <1>8 DEF AnswerInv, Waiting

LEMMA AnsNest ==
    ASSUME AnswerInv, NEW f \in Frames, Nest(f)
    PROVE  Answered' /\ Waiting'
<1> DEFINE g == <<f[1], f[2] + 1>>
           r == frame[f]
           s == [r EXCEPT !.pc = "nested"]
           z == Fresh(ThisVisit(f).pred)
<1>1. /\ frame \in [Frames -> FrameType] /\ r \in FrameType /\ r.pc = "visit"
      /\ TypeOK /\ refused' = refused /\ refused \in [Threads -> BOOLEAN]
      /\ f[2] < MaxDepth /\ ThisVisit(f).pred # NoPred
  BY DEF AnswerInv, OrInv, TypeInv, TypeOK, Nest, At
<1>2. /\ g \in Frames /\ g # f
      /\ frame' = [frame EXCEPT ![f] = s, ![g] = z]
  BY <1>1, NestShape
<1>3. /\ \A ref : Answering(z, ref)
      /\ z.pc = "request" /\ z.qry = ThisVisit(f).pred
  BY FreshIdle
<1>4. /\ s.pc = "nested" /\ s.phase = r.phase /\ s.set = r.set
      /\ s.qry = r.qry /\ s.path = r.path /\ s.i = r.i
  BY <1>1 DEF FrameType
<1>5. frame[f] = r /\ g = <<f[1], f[2] + 1>>
  OBVIOUS
<1> HIDE DEF g, r, s, z
<1>6. /\ frame'[f] = s /\ frame'[g] = z
      /\ \A h \in Frames : h # f /\ h # g => frame'[h] = frame[h]
  BY <1>1, <1>2
<1>7. Answering(s, refused[f[1]])
  <2>1. \A p, k : Walked(s, p, k) => Walked(r, p, k)
    BY <1>1, <1>4 DEF Walked, WalkPcs
  <2>2. Answering(r, refused[f[1]]) /\ refused[f[1]] \in BOOLEAN
    BY <1>1, <1>5, FramesType DEF AnswerInv, Answered
  <2> QED
    BY <1>4, <2>1, <2>2, SameAnswer
<1>8. \A h \in Frames : Answering(frame'[h], refused'[h[1]])
  BY <1>1, <1>3, <1>6, <1>7 DEF AnswerInv, Answered
<1>9. SUFFICES ASSUME NEW h \in Frames, frame'[h].pc = "nested"
               PROVE  /\ h[2] < MaxDepth
                      /\ ThisVisit(h)'.pred # NoPred
                      /\ frame'[<<h[1], h[2] + 1>>].qry = ThisVisit(h)'.pred
  BY <1>8 DEF Answered, Waiting
<1>10. CASE h = f
  <2>1. ThisVisit(f)' = ThisVisit(f)
    BY <1>4, <1>5, <1>6 DEF ThisVisit, ThisPath
  <2> QED
    BY <1>1, <1>3, <1>5, <1>6, <1>10, <2>1
<1>11. CASE h # f
  <2>1. frame'[h] = frame[h]
    BY <1>3, <1>6, <1>9, <1>11
  <2>2. ThisVisit(h)' = ThisVisit(h)
    BY <2>1 DEF ThisVisit, ThisPath
  <2>3. /\ h[2] < MaxDepth /\ ThisVisit(h).pred # NoPred
        /\ frame[<<h[1], h[2] + 1>>].qry = ThisVisit(h).pred
    BY <1>9, <2>1 DEF AnswerInv, Waiting
  <2>4. <<h[1], h[2] + 1>> \in Frames /\ <<h[1], h[2] + 1>> # g
    BY <1>5, <1>11, <2>3, FramesType, QueriesAssumption DEF Frames
  <2>5. frame'[<<h[1], h[2] + 1>>].qry = frame[<<h[1], h[2] + 1>>].qry
    BY <1>4, <1>5, <1>6, <2>4
  <2> QED
    BY <2>2, <2>3, <2>5
<1> QED
  BY <1>10, <1>11

\* What an evaluation that is done answers about the predicate it was asked.
LEMMA DoneTruth ==
    ASSUME AllOr, AnswerInv, NEW f \in Frames, frame[f].pc = "done"
    PROVE  /\ frame[f].set # <<>> => Truth[frame[f].qry]
           /\ NodesOf(frame[f].set) \subseteq Answer(frame[f].qry)
           /\ ~refused[f[1]] =>
                 /\ Truth[frame[f].qry] => frame[f].set # <<>>
                 /\ NodesOf(frame[f].set) = Answer(frame[f].qry)
<1> DEFINE r == frame[f]
<1>1. /\ r.qry \in Queries /\ r.set \in Seq(Nodes)
      /\ Answering(r, refused[f[1]])
  BY DEF AnswerInv, OrInv, TypeInv, TypeOK, FrameType, Answered
<1> HIDE DEF r
<1>2. NodesOf(r.set) \subseteq Answer(r.qry)
  BY <1>1 DEF Answering
<1>3. r.set # <<>> <=> NodesOf(r.set) # {}
  <2>1. ASSUME r.set # <<>> PROVE NodesOf(r.set) # {}
    <3>1. 1 \in 1..Len(r.set)
      BY <1>1, <2>1
    <3> QED
      BY <3>1 DEF NodesOf
  <2>2. ASSUME r.set = <<>> PROVE NodesOf(r.set) = {}
    BY <2>2 DEF NodesOf
  <2> QED
    BY <2>1, <2>2
<1>4. ASSUME ~refused[f[1]]
      PROVE  Answer(r.qry) \subseteq NodesOf(r.set)
  <2>1. Complete(r) /\ r.phase = "end"
    BY <1>1, <1>4 DEF Answering, r
  <2>2. ASSUME NEW n \in Answer(r.qry)
        PROVE  n \in NodesOf(r.set)
    <3>1. PICK p \in 1..Len(Paths[r.qry]) : \E k \in 1..Len(Visits(r.qry, p)) :
             Selected(Visits(r.qry, p)[k]) /\ Visits(r.qry, p)[k].node = n
      BY <1>1, <2>2, AnswerIs
    <3> QED
      BY <2>1, <3>1 DEF Complete, Walked
  <2> QED
    BY <2>2
<1>5. Truth[r.qry] <=> Answer(r.qry) # {}
  BY <1>1, TruthIs
<1> QED
  BY <1>2, <1>3, <1>4, <1>5 DEF r

\* A frame goes on after a nested evaluation according to what its predicate
\* means.
LEMMA AnsResume ==
    ASSUME AllOr, AnswerInv, NEW f \in Frames, NEW g \in Frames, NEW s,
           g[1] = f[1], f[2] = g[2] + 1,
           frame[f].pc = "done", frame[g].pc = "nested",
           \/ s = [frame[g] EXCEPT !.pc = "add"] /\ frame[f].set # <<>>
           \/ s = [frame[g] EXCEPT !.pc = "visit", !.i = @ + 1]
              /\ frame[f].set = <<>>
    PROVE  Answering(s, refused[g[1]])
<1> DEFINE r == frame[g]
           ref == refused[g[1]]
           v == Visits(r.qry, r.path)[r.i]
<1>1. /\ r \in FrameType /\ Good(r) /\ TypeInv /\ ref \in BOOLEAN
      /\ Answering(r, ref) /\ r.pc = "nested" /\ ThisVisit(g) = v
  BY FramesType
     DEF AnswerInv, OrInv, TypeInv, TypeOK, Answered, ThisVisit, ThisPath, Visits
<1>2. /\ r.path \in 1..Len(Paths[r.qry]) /\ r.qry \in Queries /\ r.phase = "or"
      /\ r.i \in 1..Len(Visits(r.qry, r.path))
  BY <1>1, ThisVisitType, NoReq DEF Good, FrameType, WalkPcs, r
<1>3. v.pred = frame[f].qry /\ v.pred # NoPred
  <2>1. f = <<g[1], g[2] + 1>>
    BY FramesType
  <2> QED
    BY <1>1, <2>1 DEF AnswerInv, Waiting
<1>4. Selected(v) <=> Truth[frame[f].qry]
  BY <1>3 DEF Selected
<1>5. CASE s = [r EXCEPT !.pc = "add"] /\ frame[f].set # <<>>
  <2>1. Selected(v)
    BY <1>4, <1>5, DoneTruth
  <2> HIDE DEF r, v
  <2>2. /\ s.pc = "add" /\ s.set = r.set /\ s.qry = r.qry /\ s.phase = r.phase
        /\ s.path = r.path /\ s.i = r.i
    BY <1>1, <1>5 DEF FrameType
  <2>3. \A p, k : Walked(s, p, k) => Walked(r, p, k)
    BY <1>1, <2>2 DEF Walked, WalkPcs
  <2>4. Complete(r) => Complete(s)
    BY <2>2, <2>3 DEF Complete
  <2> QED
    BY <1>1, <2>1, <2>2, <2>4 DEF Answering, v
<1>6. CASE /\ s = [r EXCEPT !.pc = "visit", !.i = @ + 1]
           /\ frame[f].set = <<>>
  <2>1. ~ref => ~Selected(v)
    BY <1>4, <1>6, DoneTruth
  <2> HIDE DEF r, v
  <2>2. /\ s.pc = "visit" /\ s.set = r.set /\ s.qry = r.qry /\ s.phase = r.phase
        /\ s.path = r.path /\ s.i = r.i + 1 /\ r.i \in Nat
    BY <1>1, <1>6 DEF FrameType
  <2>3. ASSUME Complete(r), ~Selected(v)
        PROVE  Complete(s)
    <3>1. SUFFICES ASSUME NEW p \in 1..Len(Paths[r.qry]),
                          NEW k \in 1..Len(Visits(r.qry, p)),
                          Walked(s, p, k), Selected(Visits(r.qry, p)[k])
                   PROVE  Visits(r.qry, p)[k].node \in NodesOf(r.set)
      BY <2>2 DEF Complete
    <3>2. k \in Nat
      BY <1>2, LenVisits
    <3>3. p = r.path => k # r.i
      BY <2>3, <3>1 DEF v
    <3>4. Walked(r, p, k)
      BY <1>1, <1>2, <2>2, <3>1, <3>2, <3>3 DEF Walked, WalkPcs
    <3> QED
      BY <2>3, <3>1, <3>4 DEF Complete
  <2> QED
    BY <1>1, <2>1, <2>2, <2>3 DEF Answering
<1> QED
  BY <1>5, <1>6 DEF r

LEMMA AnsReturn ==
    ASSUME AllOr, AnswerInv, NEW f \in Frames, Return(f)
    PROVE  Answered' /\ Waiting'
<1> DEFINE g == <<f[1], f[2] - 1>>
           r == frame[g]
<1>1. /\ frame \in [Frames -> FrameType] /\ TypeInv /\ Stack
      /\ refused' = refused
  BY DEF AnswerInv, OrInv, TypeInv, TypeOK, Return
<1>2. frame[f].pc = "done"
  BY <1>1, ReturnShape
<1>3. Off.pc = "off" /\ \A ref : Answering(Off, ref)
  BY FreshIdle
<1>4. PICK s : \/ f[2] = 1 /\ frame' = [frame EXCEPT ![f] = Off]
               \/ /\ f[2] # 1 /\ g \in Frames /\ g # f /\ r.pc = "nested"
                  /\ frame' = [frame EXCEPT ![f] = Off, ![g] = s]
                  /\ \/ s = [r EXCEPT !.pc = "add"] /\ frame[f].set # <<>>
                     \/ s = [r EXCEPT !.pc = "visit", !.i = @ + 1]
                        /\ frame[f].set = <<>>
  BY <1>1, ReturnShape
<1>5. g[1] = f[1] /\ f[2] = g[2] + 1 /\ f = <<f[1], f[2]>> /\ f[2] \in Nat
  BY FramesType, QueriesAssumption
<1> HIDE DEF g
<1>6. f[2] # 1 => /\ Answering(s, refused[g[1]]) /\ s.pc # "nested"
                  /\ s.qry = r.qry
  <2>1. SUFFICES ASSUME f[2] # 1
                 PROVE  /\ Answering(s, refused[g[1]]) /\ s.pc # "nested"
                        /\ s.qry = r.qry
    OBVIOUS
  <2>2. Answering(s, refused[g[1]])
    BY <1>2, <1>4, <1>5, <2>1, AnsResume
  <2>3. r \in FrameType
    BY <1>1, <1>4, <2>1
  <2> HIDE DEF r
  <2>4. CASE s = [r EXCEPT !.pc = "add"]
    BY <2>2, <2>3, <2>4 DEF FrameType
  <2>5. CASE s = [r EXCEPT !.pc = "visit", !.i = @ + 1]
    BY <2>2, <2>3, <2>5 DEF FrameType
  <2> QED
    BY <1>4, <2>1, <2>4, <2>5
<1>7. /\ frame'[f] = Off
      /\ f[2] # 1 => g \in Frames /\ frame'[g] = s
      /\ \A h \in Frames : h # f /\ (h = g => f[2] = 1) => frame'[h] = frame[h]
  BY <1>1, <1>4
<1>8. \A h \in Frames : Answering(frame'[h], refused'[h[1]])
  BY <1>1, <1>3, <1>6, <1>7 DEF AnswerInv, Answered
<1>9. SUFFICES ASSUME NEW h \in Frames, frame'[h].pc = "nested"
               PROVE  /\ h[2] < MaxDepth
                      /\ ThisVisit(h)'.pred # NoPred
                      /\ frame'[<<h[1], h[2] + 1>>].qry = ThisVisit(h)'.pred
  BY <1>8 DEF Answered, Waiting
<1>10. h # f /\ (h = g => f[2] = 1) /\ frame'[h] = frame[h]
  BY <1>3, <1>6, <1>7, <1>9
<1>11. ThisVisit(h)' = ThisVisit(h)
  BY <1>10 DEF ThisVisit, ThisPath
<1>12. /\ h[2] < MaxDepth /\ ThisVisit(h).pred # NoPred
       /\ frame[<<h[1], h[2] + 1>>].qry = ThisVisit(h).pred
  BY <1>9, <1>10 DEF AnswerInv, Waiting
<1> DEFINE above == <<h[1], h[2] + 1>>
<1>13. above \in Frames
  BY <1>12, FramesType, QueriesAssumption DEF Frames
<1>14. above # f
  <2>1. SUFFICES ASSUME above = f PROVE FALSE
    OBVIOUS
  <2>2. h = g
    BY <1>5, <2>1, FramesType, QueriesAssumption DEF g
  <2>3. f[2] = h[2] + 1 /\ h[2] \in 1..MaxDepth
    BY <2>1, FramesType
  <2> QED
    BY <1>10, <2>2, <2>3, QueriesAssumption
<1>15. frame'[above].qry = frame[above].qry
  BY <1>6, <1>7, <1>13, <1>14
<1> QED
  BY <1>11, <1>12, <1>15

-----------------------------------------------------------------------------
(* The theorems.                                                           *)

\* Answers, tokens and waiting frames agree in every reachable state.
THEOREM AnswerInvariant ==
    ASSUME AllOr
    PROVE  Spec => []AnswerInv
<1>1. Init => Answered /\ AllPresent /\ Waiting
  <2> SUFFICES ASSUME Init
               PROVE  Answered /\ AllPresent /\ Waiting
    OBVIOUS
  <2>1. \A f \in Frames : frame[f] = Off
    BY DEF Init
  <2>2. Off.pc = "off" /\ \A ref : Answering(Off, ref)
    BY FreshIdle
  <2> QED
    BY <2>1, <2>2 DEF Answered, AllPresent, Present, Holder, Waiting
<1>2. OrInv /\ Answered /\ AllPresent /\ Waiting /\ [Next]_vars =>
          (Answered /\ AllPresent /\ Waiting)'
  <2> SUFFICES ASSUME AnswerInv, [Next]_vars
               PROVE  Answered' /\ AllPresent' /\ Waiting'
    BY DEF AnswerInv
  <2>0. OrInv /\ Answered /\ AllPresent /\ Waiting
    BY DEF AnswerInv
  <2>1. CASE UNCHANGED vars
    BY <2>0, <2>1 DEF Answered, AllPresent, Waiting, ThisVisit, ThisPath, vars
  <2>2. ASSUME NEW t \in Threads, NEW q \in TopQueries, Call(t, q)
        PROVE  Answered' /\ AllPresent' /\ Waiting'
    BY <2>0, <2>2, AnsCall, OrCall, PresentSame
  <2>3. ASSUME NEW f \in Frames, Exec(f)
        PROVE  Answered' /\ AllPresent' /\ Waiting'
    <3>1. CASE LocalStep(f)
      BY <2>0, <3>1, AnsweredLocal, PresentLocal, WaitingLocal
    <3>2. CASE Nest(f)
      BY <2>0, <3>2, AnsNest, OrNest, PresentSame
    <3>3. CASE Return(f)
      BY <2>0, <3>3, AnsReturn, OrReturn, PresentSame
    <3> QED
      BY <2>3, <3>1, <3>2, <3>3, ExecCases
  <2> QED
    BY <2>1, <2>2, <2>3 DEF Next
<1> QED
  BY <1>1, <1>2, OrInvariant, PTL DEF Spec, AnswerInv

\* An evaluation selects nothing its xpath does not mean, and no node twice,
\* even when it or a predicate it asks is refused an id, when no xpath has an
\* 'and' (roxml_exec_xpath, roxml_add_to_set).
THEOREM AnswersAreSound ==
    ASSUME AllOr
    PROVE  Spec => []AnswerSound
<1>1. AnswerInv => AnswerSound
  BY DoneTruth DEF AnswerInv, Answered, Answering, AnswerSound
<1> QED
  BY <1>1, AnswerInvariant, PTL

\* An evaluation that was refused no id selects exactly what its xpath means,
\* each node once, whatever the other threads do to the table and the tokens
\* meanwhile, when no xpath has an 'and' (roxml_exec_xpath, roxml_add_to_set,
\* roxml_validate_predicat).
THEOREM AnswersAreExact ==
    ASSUME AllOr
    PROVE  Spec => []AnswerExact
<1>1. ASSUME AnswerInv PROVE AnswerExact
  <2>1. SUFFICES ASSUME NEW f \in Frames, frame[f].pc = "done", ~refused[f[1]]
                 PROVE  /\ (frame[f].set # <<>>) = Truth[frame[f].qry]
                        /\ NoRepetition(frame[f].set)
                        /\ NodesOf(frame[f].set) = Answer(frame[f].qry)
    BY DEF AnswerExact
  <2>2. Truth[frame[f].qry] \in BOOLEAN
    BY <1>1, TruthAssumption DEF AnswerInv, OrInv, TypeInv, TypeOK, FrameType
  <2> QED
    BY <1>1, <2>1, <2>2, DoneTruth DEF AnswerInv, Answered, Answering
<1> QED
  BY <1>1, AnswerInvariant, PTL
=============================================================================
