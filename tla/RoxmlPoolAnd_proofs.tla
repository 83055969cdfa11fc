------------------------ MODULE RoxmlPoolAnd_proofs ------------------------
(***************************************************************************)
(* Theorems about RoxmlPool when one thread queries the tree and no xpath  *)
(* has more than one 'and': for any number of nodes, ids and queries, with *)
(* predicates nested to any depth, no token outlives its request, a tree   *)
(* no one queries holds neither ids nor tokens, and an evaluation answers  *)
(* what its xpath means.                                                   *)
(*                                                                         *)
(* Both are necessary: the run PoolSharedId has two threads, PoolStale-    *)
(* Answer an xpath with two 'and'.  The id of the and-ed path is released  *)
(* twice, and evaluations nested in between may have had it meanwhile; the *)
(* second release is harmless because they have ended, and no other thread *)
(* can have been given it.                                                 *)
(***************************************************************************)
EXTENDS RoxmlPoolOr_proofs

OneThread == \A t, u \in Threads : t = u

OnePair ==
    \A q \in Queries : \A j, k \in 1..Len(Paths[q]) :
        Paths[q][j].rel = "and" /\ Paths[q][k].rel = "and" => j = k

-----------------------------------------------------------------------------
(* The ids of one frame.                                                   *)

\* The evaluation has no id yet, or none any more.
Idling(r) == r.pc \in {"off", "request", "done"}

\* It walks or compares a path of the 'and', with the id cur.
Comparing(r) == r.phase = "and" /\ r.pc \in WalkPcs \cup AndPcs

\* The id of path k has been released: that of the and-ed path before the
\* next 'or' path is walked.
Released(r, k) ==
    \/ /\ Paths[r.qry][k].rel = "and"
       /\ \/ r.phase = "end"
          \/ r.phase = "or" /\ k <= r.path
    \/ r.phase = "end" /\ k < r.path

\* It has been given id and has not released it.
Owns(r, id) ==
    \/ Holder(r) /\ id = r.glob
    \/ Comparing(r) /\ id = r.cur
    \/ /\ ~Idling(r)
       /\ \E k \in 1..Len(r.req) : ~Released(r, k) /\ r.req[k] = id

\* It has released id and will do so again.
Spent(r, id) ==
    /\ ~Idling(r)
    /\ \E k \in 1..Len(r.req) :
          Paths[r.qry][k].rel = "and" /\ Released(r, k) /\ r.req[k] = id

\* It has yet to remove the token id from node n.
Owes(r, n, id) ==
    /\ Owns(r, id)
    /\ r.phase = "and" => id # r.glob
    /\ \E k \in 1..Len(r.set) :
          /\ r.set[k] = n
          /\ r.pc = "rel" /\ id = r.rid => k >= r.i
          /\ r.pc \in {"wipe1", "wipe2"} => k >= r.i
          /\ r.pc = "wipe2" /\ id = r.cur => k > r.i

\* Where a frame stands.
Placed(r) ==
    /\ r.pc \in {"off", "request"} =>
          /\ r.phase = "and" /\ r.set = <<>> /\ r.path = 1
          /\ \A k \in 1..Len(r.req) : r.req[k] = 0
    /\ r.phase = "and" => r.pc \notin OrPcs \cup {"rel"}
    /\ r.phase = "or" => r.pc \notin AndPcs \cup {"done"}
    /\ r.phase = "end" => r.pc \in {"head", "rel", "done"}
    /\ r.pc \in AndPcs => Paths[r.qry][r.path].rel = "and" /\ r.cur # 0
    /\ r.pc \in {"probe2", "wipe2", "or2", "or3"} => r.i <= Len(r.set)
    /\ r.pc \in WalkPcs /\ r.phase = "or" => ~PathInAnd(r.qry, r.path)
    /\ r.pc \in OrPcs \cup {"rel"} /\ r.phase = "or" =>
          r.path + 1 \in 2..Len(r.req) /\ Paths[r.qry][r.path + 1].rel = "and"
    /\ r.pc = "rel" =>
          /\ r.i # 0 /\ r.path <= Len(r.req)
          /\ r.rid = IF r.phase = "or" THEN r.req[r.path + 1]
                     ELSE IF r.path = 0 THEN r.glob ELSE r.req[r.path]
    /\ ~Idling(r) =>
          \A k \in 1..Len(r.req) : PathInAnd(r.qry, k) =>
              (r.req[k] = 0 <=> r.phase = "and" /\ k >= r.path)

\* No two of its ids are the same.
Distinct(r) ==
    /\ \A j, k \in 1..Len(r.req) : j # k /\ r.req[j] \in Ids => r.req[j] # r.req[k]
    /\ ~Idling(r) => \A k \in 1..Len(r.req) : r.req[k] # r.glob
    /\ Comparing(r) /\ r.cur \in Ids =>
          r.cur # r.glob /\ \A k \in 1..Len(r.req) : r.cur # r.req[k]

PairFrame(r) == Placed(r) /\ Distinct(r)

-----------------------------------------------------------------------------
(* The invariant of ids and tokens.                                        *)

PairFrames == \A f \in Frames : PairFrame(frame[f])

\* An id is in use while one frame owns it.
PairIds ==
    /\ \A id \in Ids : ids[id] = 1 <=> \E f \in Frames : Owns(frame[f], id)
    /\ \A f, g \in Frames : \A id \in Ids :
          Owns(frame[f], id) /\ Owns(frame[g], id) => f = g

\* An id that will be released a second time is not one of the frames below,
\* which were given theirs before.
PairSpent ==
    \A f, g \in Frames : \A id \in Ids :
        g[2] <= f[2] /\ Spent(frame[f], id) => ~Owns(frame[g], id)

PairTokens ==
    \A n \in Nodes : \A id \in tok[n] \cap Ids : \E f \in Frames : Owes(frame[f], n, id)

PairInv ==
    TypeInv /\ Stack /\ PairFrames /\ PairIds /\ PairSpent /\ PairTokens

-----------------------------------------------------------------------------
(* What a step of one frame does to the ids and the tokens.                *)

PairStep(r, s) ==
    /\ \A id \in Ids :
          /\ ids'[id] = 1 <=> Owns(s, id) \/ (ids[id] = 1 /\ ~Owns(r, id))
          /\ Owns(s, id) => Owns(r, id) \/ ids[id] = 0
          /\ Spent(s, id) => ~Owns(s, id) /\ (Spent(r, id) \/ Owns(r, id))
    /\ \A n \in Nodes : \A id \in Ids :
          /\ id \in tok'[n] => Owes(s, n, id) \/ (id \in tok[n] /\ ~Owes(r, n, id))
          /\ ~Owns(r, id) /\ ~Spent(r, id) => (id \in tok'[n] <=> id \in tok[n])

\* The frame on top is the last one.
LEMMA OffOwns ==
    ASSUME NEW r, NEW id, r.pc = "off" \/ r.pc = "request" \/ r.pc = "done"
    PROVE  ~Owns(r, id) /\ ~Spent(r, id)
  BY DEF Owns, Spent, Holder, Comparing, Idling, WalkPcs, AndPcs

LEMMA AboveTop ==
    ASSUME OneThread, TypeInv, Stack, NEW f \in Frames, top[f[1]] = f[2],
           NEW g \in Frames, g[2] > f[2]
    PROVE  frame[g].pc = "off"
<1>1. g[1] = f[1]
  BY FramesType DEF OneThread
<1> QED
  BY <1>1 DEF Stack

LEMMA SpentFree ==
    ASSUME OneThread, PairInv, NEW f \in Frames, top[f[1]] = f[2],
           NEW id \in Ids, Spent(frame[f], id)
    PROVE  ids[id] = 0
<1>1. ASSUME NEW g \in Frames
      PROVE  ~Owns(frame[g], id)
  <2>1. f[2] \in Nat /\ g[2] \in Nat
    BY FramesType, QueriesAssumption
  <2>2. CASE g[2] <= f[2]
    BY <2>2 DEF PairInv, PairSpent
  <2>3. CASE g[2] > f[2]
    BY <2>3, AboveTop, OffOwns DEF PairInv
  <2> QED
    BY <2>1, <2>2, <2>3
<1>2. ids \in [Ids -> {0, 1}]
  BY DEF PairInv, TypeInv, TypeOK
<1> QED
  BY <1>1, <1>2 DEF PairInv, PairIds

\* A step of the frame on top keeps the invariant.
LEMMA PairLocal ==
    ASSUME OneThread, PairInv, NEW f \in Frames,
           frame' = [frame EXCEPT ![f] = frame'[f]], top[f[1]] = f[2],
           PairFrame(frame'[f]), PairStep(frame[f], frame'[f])
    PROVE  PairFrames' /\ PairIds' /\ PairSpent' /\ PairTokens'
<1> DEFINE r == frame[f]
           s == frame'[f]
<1>1. /\ frame'[f] = s /\ \A g \in Frames : g # f => frame'[g] = frame[g]
      /\ ids \in [Ids -> {0, 1}]
  BY DEF PairInv, TypeInv, TypeOK
<1>2. PairFrame(s) /\ PairStep(r, s)
  OBVIOUS
<1>3. \A id \in Ids : ids[id] = 1 <=> \E g \in Frames : Owns(frame[g], id)
  BY DEF PairInv, PairIds
<1>4. \A g \in Frames : \A id \in Ids : Owns(frame[g], id) /\ Owns(r, id) => g = f
  BY DEF PairInv, PairIds
<1>5. frame[f] = r
  OBVIOUS
<1> HIDE DEF r, s
<1>6. PairFrames'
  BY <1>1, <1>2 DEF PairInv, PairFrames
<1>7. ASSUME NEW id \in Ids
      PROVE  ids'[id] = 1 <=> \E g \in Frames : Owns(frame'[g], id)
  <2>1. ids'[id] = 1 <=> Owns(s, id) \/ (ids[id] = 1 /\ ~Owns(r, id))
    BY <1>2 DEF PairStep
  <2>2. ASSUME ids[id] = 1, ~Owns(r, id)
        PROVE  \E g \in Frames : Owns(frame'[g], id)
    <3>1. PICK g \in Frames : Owns(frame[g], id)
      BY <1>3, <2>2
    <3> QED
      BY <1>1, <1>5, <2>2, <3>1
  <2>3. ASSUME NEW g \in Frames, Owns(frame'[g], id), g # f
        PROVE  ids[id] = 1 /\ ~Owns(r, id)
    BY <1>1, <1>3, <1>4, <2>3
  <2> QED
    BY <1>1, <2>1, <2>2, <2>3
<1>8. ASSUME NEW g \in Frames, NEW h \in Frames, NEW id \in Ids,
             Owns(frame'[g], id), Owns(frame'[h], id)
      PROVE  g = h
  <2>1. \A e \in Frames : e # f /\ Owns(frame[e], id) => ~Owns(s, id)
    <3>1. SUFFICES ASSUME NEW e \in Frames, e # f, Owns(frame[e], id), Owns(s, id)
                   PROVE  FALSE
      OBVIOUS
    <3>2. ids[id] = 1 /\ ~Owns(r, id)
      BY <1>3, <1>4, <3>1
    <3> QED
      BY <1>2, <3>1, <3>2 DEF PairStep
  <2> QED
    BY <1>1, <1>8, <2>1 DEF PairInv, PairIds
<1>9. PairIds'
  BY <1>7, <1>8 DEF PairIds
<1>10. ASSUME NEW g \in Frames, NEW h \in Frames, NEW id \in Ids,
              h[2] <= g[2], Spent(frame'[g], id)
       PROVE  ~Owns(frame'[h], id)
  <2>1. CASE g = f /\ h = f
    BY <1>1, <1>2, <1>10, <2>1 DEF PairStep
  <2>2. CASE g = f /\ h # f
    <3>1. Spent(r, id) \/ Owns(r, id)
      BY <1>1, <1>2, <1>10, <2>2 DEF PairStep
    <3> QED
      BY <1>1, <1>4, <1>5, <1>10, <2>2, <3>1 DEF PairInv, PairSpent
  <2>3. CASE g # f /\ h # f
    BY <1>1, <1>10, <2>3 DEF PairInv, PairSpent
  <2>4. CASE g # f /\ h = f
    <3>1. Spent(frame[g], id)
      BY <1>1, <1>10, <2>4
    <3>2. g[2] # f[2]
      BY <2>4, FramesType DEF OneThread
    <3>3. g[2] > f[2]
      BY <1>10, <2>4, <3>2, FramesType, QueriesAssumption
    <3> QED
      BY <3>1, <3>3, AboveTop, OffOwns DEF PairInv
  <2> QED
    BY <2>1, <2>2, <2>3, <2>4
<1>11. PairSpent'
  BY <1>10 DEF PairSpent
<1>12. ASSUME NEW n \in Nodes, NEW id \in tok'[n] \cap Ids
       PROVE  \E g \in Frames : Owes(frame'[g], n, id)
  <2>1. Owes(s, n, id) \/ (id \in tok[n] /\ ~Owes(r, n, id))
    BY <1>2, <1>12 DEF PairStep
  <2>2. CASE Owes(s, n, id)
    BY <1>1, <2>2
  <2>3. CASE id \in tok[n] /\ ~Owes(r, n, id)
    <3>1. PICK g \in Frames : Owes(frame[g], n, id)
      BY <1>12, <2>3 DEF PairInv, PairTokens
    <3> QED
      BY <1>1, <1>5, <2>3, <3>1
  <2> QED
    BY <2>1, <2>2, <2>3
<1>13. PairTokens'
  BY <1>12 DEF PairTokens
<1> QED
  BY <1>6, <1>9, <1>11, <1>13

\* What the table says of the ids of one frame.
InUse(r) == \A id \in Ids : Owns(r, id) => ids[id] = 1 /\ ~Spent(r, id)

LEMMA UsesOwn ==
    ASSUME PairInv, NEW f \in Frames
    PROVE  InUse(frame[f])
<1>1. f[2] <= f[2]
  BY FramesType, QueriesAssumption
<1> QED
  BY <1>1 DEF PairInv, PairIds, PairSpent, InUse

\* A step that touches neither the table nor a token.
LEMMA QuietStep ==
    ASSUME NEW r, NEW s, InUse(r), ids' = ids, tok' = tok,
           \A id \in Ids : Owns(s, id) <=> Owns(r, id),
           \A id \in Ids : Spent(s, id) => Spent(r, id),
           \A n \in Nodes : \A id \in Ids : Owes(r, n, id) => Owes(s, n, id)
    PROVE  PairStep(r, s)
  BY DEF PairStep, InUse

\* A step that changes tokens of its own ids only.
LEMMA TokenStep ==
    ASSUME NEW r, NEW s, InUse(r), ids' = ids,
           \A id \in Ids : Owns(s, id) <=> Owns(r, id),
           \A id \in Ids : Spent(s, id) => Spent(r, id),
           \A n \in Nodes : \A id \in Ids :
               id \in tok'[n] => Owes(s, n, id) \/ (id \in tok[n] /\ ~Owes(r, n, id)),
           \A n \in Nodes : \A id \in Ids :
               ~Owns(r, id) /\ ~Spent(r, id) => (id \in tok'[n] <=> id \in tok[n])
    PROVE  PairStep(r, s)
  BY DEF PairStep, InUse

LEMMA PairRequestGlob ==
    ASSUME PairInv, NEW f \in Frames, RequestGlob(f)
    PROVE  PairFrame(frame'[f]) /\ PairStep(frame[f], frame'[f])
<1> DEFINE r == frame[f]
           s == frame'[f]
<1>1. /\ frame \in [Frames -> FrameType] /\ PairFrame(r) /\ Good(r) /\ InUse(r)
      /\ ids \in [Ids -> {0, 1}]
  BY UsesOwn DEF PairInv, TypeInv, TypeOK, PairFrames
<1>2. r \in FrameType /\ r.pc = "request" /\ tok' = tok
  BY <1>1 DEF RequestGlob, At
<1>3. PICK id \in Ids \cup {-1} :
         /\ RequestId(f, id)
         /\ frame' = [frame EXCEPT ![f].glob = id,
                                   ![f].pc = IF id < 0 THEN "done" ELSE "head"]
  BY DEF RequestGlob
<1>4. s = [r EXCEPT !.glob = id, !.pc = IF id < 0 THEN "done" ELSE "head"]
  BY <1>1, <1>3
<1> HIDE DEF r, s
<1>5. /\ s.glob = id /\ s.pc = IF id < 0 THEN "done" ELSE "head"
      /\ s.cur = r.cur /\ s.phase = r.phase /\ s.set = r.set /\ s.path = r.path
      /\ s.req = r.req /\ s.qry = r.qry
  BY <1>2, <1>4 DEF FrameType
<1>6. /\ r.phase = "and" /\ r.set = <<>> /\ r.path = 1
      /\ \A k \in 1..Len(r.req) : r.req[k] = 0
  BY <1>1, <1>2 DEF PairFrame, Placed
<1>7. (id < 0 <=> id = -1) /\ (id \in Ids => id # -1 /\ id # 0) /\ 0 \notin Ids
  BY IdsAssumption DEF Ids
<1>8. Placed(s)
  <2>1. \A k \in 1..Len(s.req) : k >= s.path /\ s.req[k] = 0
    BY <1>5, <1>6, <1>1 DEF Good
  <2> QED
    BY <1>5, <1>6, <2>1 DEF Placed, OrPcs, AndPcs, WalkPcs
<1>9. Distinct(s)
  BY <1>5, <1>6, <1>7 DEF Distinct, Comparing, WalkPcs, AndPcs, Idling
<1>10. \A j : ~Owns(r, j) /\ ~Spent(r, j)
  BY <1>2, OffOwns
<1>11. \A j \in Ids : (Owns(s, j) <=> j = id) /\ ~Spent(s, j)
  <2>1. CASE id \in Ids
    BY <1>5, <1>6, <1>7, <2>1 DEF Owns, Spent, Holder, Comparing, Idling, WalkPcs, AndPcs
  <2>2. CASE id = -1
    BY <1>5, <1>7, <2>2, OffOwns
  <2> QED
    BY <2>1, <2>2
<1>12. \A j \in Ids : (ids'[j] = 1 <=> j = id \/ ids[j] = 1) /\ (j = id => ids[j] = 0)
  BY <1>1, <1>3, <1>7 DEF RequestId, Free
<1>13. \A n, j : ~Owes(r, n, j)
  BY <1>10 DEF Owes
<1>14. PairStep(r, s)
  BY <1>2, <1>10, <1>11, <1>12, <1>13 DEF PairStep
<1> QED
  BY <1>8, <1>9, <1>14 DEF PairFrame, r, s

\* The paths of the 'and'.
LEMMA PairIs ==
    ASSUME OnePair, NEW q \in Queries, NEW p \in 1..Len(Paths[q]),
           Paths[q][p].rel = "and"
    PROVE  /\ p - 1 \in 1..Len(Paths[q]) /\ Paths[q][p - 1].rel = "or"
           /\ \A k \in 1..Len(Paths[q]) :
                 /\ Paths[q][k].rel = "and" <=> k = p
                 /\ PathInAnd(q, k) <=> k \in {p - 1, p}
<1>1. Len(Paths[q]) \in Nat /\ Paths[q][1].rel = "or"
  BY QueriesAssumption
<1>2. p # 1
  BY <1>1
<1>3. p - 1 \in 1..Len(Paths[q])
  BY <1>1, <1>2
<1>4. \A k \in 1..Len(Paths[q]) : Paths[q][k].rel \in {"or", "and"}
  <2>1. Paths[q] \in Seq(Path)
    BY QueriesAssumption
  <2>2. \A k \in 1..Len(Paths[q]) : Paths[q][k] \in Path
    BY <2>1
  <2> QED
    BY <2>2 DEF Path
<1>5. \A k \in 1..Len(Paths[q]) : Paths[q][k].rel = "and" <=> k = p
  BY DEF OnePair
<1>6. ASSUME NEW k \in 1..Len(Paths[q])
      PROVE  PathInAnd(q, k) <=> k \in {p - 1, p}
  <2>1. k < Len(Paths[q]) => k + 1 \in 1..Len(Paths[q])
    BY <1>1
  <2>2. k + 1 = p <=> k = p - 1
    OBVIOUS
  <2> QED
    BY <1>1, <1>3, <1>5, <2>1, <2>2 DEF PathInAnd
<1> QED
  BY <1>3, <1>4, <1>5, <1>6

LEMMA PairAndHead ==
    ASSUME OnePair, PairInv, NEW f \in Frames, AndHead(f)
    PROVE  PairFrame(frame'[f]) /\ PairStep(frame[f], frame'[f])
<1> DEFINE r == frame[f]
           s == frame'[f]
<1>1. frame \in [Frames -> FrameType] /\ PairFrame(r) /\ Good(r) /\ InUse(r)
  BY UsesOwn DEF PairInv, TypeInv, TypeOK, PairFrames
<1>2. /\ r \in FrameType /\ r.pc = "head" /\ r.phase = "and"
      /\ ids' = ids /\ tok' = tok
  BY <1>1 DEF AndHead, At, InPhase
<1>3. \/ s = [r EXCEPT !.phase = "or", !.path = 1] /\ ~InPaths(f)
      \/ s = [r EXCEPT !.path = @ + 1] /\ ~InAnd(f) /\ InPaths(f)
  BY <1>1 DEF AndHead
<1>4. /\ InPaths(f) <=> r.path <= Len(Paths[r.qry])
      /\ InAnd(f) <=> PathInAnd(r.qry, r.path)
  BY DEF InPaths, NbPaths, InAnd, ThisPath, PathInAnd
<1> HIDE DEF r, s
<1>5. /\ r.qry \in Queries /\ r.path \in Nat \ {0} /\ Len(r.req) = Len(Paths[r.qry])
      /\ Len(r.req) \in Nat /\ r.glob \in Ids /\ Paths[r.qry][1].rel = "or"
  BY <1>1, <1>2, LenPaths, QueriesAssumption DEF Good, FrameType
<1>6. /\ \A k \in 1..Len(r.req) : PathInAnd(r.qry, k) => (r.req[k] = 0 <=> k >= r.path)
      /\ Distinct(r)
  BY <1>1, <1>2 DEF PairFrame, Placed, Idling
<1>7. \A n, id : Owes(r, n, id) => Owns(r, id) /\ id # r.glob /\ n \in NodesOf(r.set)
  BY <1>2 DEF Owes, NodesOf
<1>8. CASE s = [r EXCEPT !.phase = "or", !.path = 1] /\ ~InPaths(f)
  <2>1. /\ s.pc = "head" /\ s.phase = "or" /\ s.path = 1 /\ s.glob = r.glob
        /\ s.set = r.set /\ s.cur = r.cur /\ s.req = r.req /\ s.qry = r.qry
    BY <1>2, <1>8 DEF FrameType
  <2>2. \A k \in 1..Len(r.req) : PathInAnd(r.qry, k) => r.req[k] # 0
    BY <1>4, <1>5, <1>6, <1>8
  <2>3. Placed(s)
    BY <2>1, <2>2 DEF Placed, OrPcs, AndPcs, WalkPcs
  <2>4. Distinct(s)
    BY <1>2, <1>6, <2>1 DEF Distinct, Comparing, WalkPcs, AndPcs, Idling
  <2>5. \A k \in 1..Len(r.req) : ~Released(s, k) /\ ~Released(r, k)
    BY <1>2, <1>5, <2>1 DEF Released
  <2>6. \A id : (Owns(s, id) <=> Owns(r, id)) /\ ~Spent(s, id)
    BY <1>2, <2>1, <2>5 DEF Owns, Spent, Holder, Comparing, WalkPcs, AndPcs, Idling
  <2>7. \A n, id : Owes(r, n, id) => Owes(s, n, id)
    BY <1>2, <2>1, <2>6 DEF Owes
  <2> QED
    BY <1>1, <1>2, <2>3, <2>4, <2>6, <2>7, QuietStep DEF PairFrame, r, s
<1>9. CASE s = [r EXCEPT !.path = @ + 1] /\ ~InAnd(f) /\ InPaths(f)
  <2>1. /\ s.pc = "head" /\ s.phase = "and" /\ s.path = r.path + 1 /\ s.glob = r.glob
        /\ s.set = r.set /\ s.cur = r.cur /\ s.req = r.req /\ s.qry = r.qry
    BY <1>2, <1>9 DEF FrameType
  <2>2. \A k \in 1..Len(r.req) :
            PathInAnd(r.qry, k) => (r.req[k] = 0 <=> k >= r.path + 1)
    BY <1>4, <1>5, <1>6, <1>9
  <2>3. Placed(s)
    BY <2>1, <2>2 DEF Placed, OrPcs, AndPcs, WalkPcs
  <2>4. Distinct(s)
    BY <1>2, <1>6, <2>1 DEF Distinct, Comparing, WalkPcs, AndPcs, Idling
  <2>5. \A k \in 1..Len(r.req) : ~Released(s, k) /\ ~Released(r, k)
    BY <1>2, <1>5, <2>1 DEF Released
  <2>6. \A id : (Owns(s, id) <=> Owns(r, id)) /\ ~Spent(s, id)
    BY <1>2, <2>1, <2>5 DEF Owns, Spent, Holder, Comparing, WalkPcs, AndPcs, Idling
  <2>7. \A n, id : Owes(r, n, id) => Owes(s, n, id)
    BY <1>2, <2>1, <2>6 DEF Owes
  <2> QED
    BY <1>1, <1>2, <2>3, <2>4, <2>6, <2>7, QuietStep DEF PairFrame, r, s
<1> QED
  BY <1>3, <1>8, <1>9

LEMMA PairRequestAnd ==
    ASSUME PairInv, NEW f \in Frames, RequestAnd(f)
    PROVE  PairFrame(frame'[f]) /\ PairStep(frame[f], frame'[f])
<1> DEFINE r == frame[f]
           s == frame'[f]
<1>1. /\ frame \in [Frames -> FrameType] /\ PairFrame(r) /\ Good(r) /\ InUse(r)
      /\ ids \in [Ids -> {0, 1}]
  BY UsesOwn DEF PairInv, TypeInv, TypeOK, PairFrames
<1>2. r \in FrameType /\ r.pc = "head" /\ r.phase = "and" /\ tok' = tok
  BY <1>1 DEF RequestAnd, At, InPhase
<1>3. PICK id \in Ids \cup {-1} :
         /\ RequestId(f, id)
         /\ frame' = [frame EXCEPT ![f].cur = id, ![f].pc = "visit", ![f].i = 1]
  BY DEF RequestAnd
<1>4. s = [r EXCEPT !.cur = id, !.pc = "visit", !.i = 1]
  BY <1>1, <1>3
<1> HIDE DEF r, s
<1>5. /\ s.cur = id /\ s.pc = "visit" /\ s.i = 1 /\ s.glob = r.glob
      /\ s.phase = "and" /\ s.set = r.set /\ s.path = r.path
      /\ s.req = r.req /\ s.qry = r.qry
  BY <1>2, <1>4 DEF FrameType
<1>6. r.glob \in Ids /\ Holder(r)
  BY <1>1, <1>2 DEF Good, Holder
<1>7. /\ -1 \notin Ids
      /\ \A j \in Ids : (ids'[j] = 1 <=> j = id \/ ids[j] = 1) /\ (j = id => ids[j] = 0)
  <2>1. -1 \notin Ids
    BY IdsAssumption DEF Ids
  <2> QED
    BY <1>1, <1>3, <2>1 DEF RequestId, Free
<1>8. \A k \in 1..Len(r.req) : ~Released(r, k) /\ ~Released(s, k)
  BY <1>2, <1>5 DEF Released
<1>9. ASSUME NEW j
      PROVE  /\ Owns(r, j) <=> j = r.glob \/ \E k \in 1..Len(r.req) : r.req[k] = j
             /\ Owns(s, j) <=> j = id \/ Owns(r, j)
             /\ ~Spent(s, j)
  <2>1. Owns(r, j) <=> j = r.glob \/ \E k \in 1..Len(r.req) : r.req[k] = j
    BY <1>2, <1>6, <1>8 DEF Owns, Comparing, Idling, WalkPcs, AndPcs
  <2>2. Holder(s) /\ Comparing(s) /\ ~Idling(s)
    BY <1>5, <1>6 DEF Holder, Comparing, Idling, WalkPcs
  <2> QED
    BY <1>5, <1>8, <2>1, <2>2 DEF Owns, Spent
<1>10. Placed(s)
  BY <1>1, <1>2, <1>5 DEF PairFrame, Placed, Idling, OrPcs, AndPcs, WalkPcs
<1>11. \A j \in Ids : Owns(r, j) => j # id
  BY <1>1, <1>7 DEF InUse
<1>12. Distinct(s)
  <2>1. Distinct(r)
    BY <1>1 DEF PairFrame
  <2>2. id \in Ids => id # r.glob /\ \A k \in 1..Len(r.req) : id # r.req[k]
    BY <1>9, <1>11
  <2> QED
    BY <1>2, <1>5, <2>1, <2>2 DEF Distinct, Idling
<1>13. \A n, j : Owes(r, n, j) => Owes(s, n, j)
  BY <1>2, <1>5, <1>9 DEF Owes
<1>14. \A j \in Ids : Owns(r, j) => ids[j] = 1
  BY <1>1 DEF InUse
<1>15. PairStep(r, s)
  BY <1>2, <1>7, <1>9, <1>13, <1>14 DEF PairStep
<1> QED
  BY <1>10, <1>12, <1>15 DEF PairFrame, r, s

\* Moves of a frame that owns the same ids in the same place.
Alike(r, s) ==
    /\ s.glob = r.glob /\ s.req = r.req /\ s.qry = r.qry
    /\ s.phase = "and" => r.phase = "and"
    /\ \A k \in 1..Len(r.req) : Released(s, k) <=> Released(r, k)
    /\ Comparing(r) <=> Comparing(s)
    /\ Comparing(r) => s.cur = r.cur
    /\ Holder(r) <=> Holder(s)
    /\ ~Idling(r) /\ ~Idling(s)

LEMMA AlikeOwns ==
    ASSUME NEW r, NEW s, Alike(r, s)
    PROVE  \A id : (Owns(s, id) <=> Owns(r, id)) /\ (Spent(s, id) <=> Spent(r, id))
  BY DEF Alike, Owns, Spent

LEMMA AlikeDistinct ==
    ASSUME NEW r, NEW s, Alike(r, s), Distinct(r)
    PROVE  Distinct(s)
  BY DEF Alike, Distinct

LEMMA PairAddToSet ==
    ASSUME PairInv, NEW f \in Frames, AddToSet(f)
    PROVE  PairFrame(frame'[f]) /\ PairStep(frame[f], frame'[f])
<1> DEFINE n == ThisVisit(f).node
           r == frame[f]
           s == frame'[f]
           w == WalkId(f)
<1>1. frame \in [Frames -> FrameType]
  BY DEF PairInv, TypeInv, TypeOK
<1>2. /\ frame \in [Frames -> FrameType] /\ PairFrame(r) /\ Good(r) /\ InUse(r)
      /\ TypeInv /\ tok \in [Nodes -> SUBSET (Ids \cup {255})]
  BY UsesOwn DEF PairInv, TypeInv, TypeOK, PairFrames
<1>3. r \in FrameType /\ r.pc \in {"visit", "add"} /\ ids' = ids
  BY <1>2 DEF AddToSet, At
<1>4. n \in Nodes
  BY <1>2, ThisVisitType DEF AddToSet, At
<1>5. w \in Ids \cup {-1} /\ w = IF r.phase = "and" THEN r.cur ELSE r.glob
  BY <1>2, <1>3, WalkIdType DEF WalkPcs, WalkId
<1> HIDE DEF n
<1>6. \/ s = [r EXCEPT !.pc = "visit", !.i = @ + 1] /\ tok' = tok
      \/ /\ s = [r EXCEPT !.pc = "visit", !.i = @ + 1, !.set = Append(@, n)]
         /\ AddToPool(n, WalkId(f))
  BY <1>1 DEF AddToSet, n
<1>7. \/ s = [r EXCEPT !.pc = "visit", !.i = @ + 1] /\ tok' = tok
      \/ /\ s = [r EXCEPT !.pc = "visit", !.i = @ + 1, !.set = Append(@, n)]
         /\ tok' = [tok EXCEPT ![n] = @ \cup {UChar(w)}]
  BY <1>6 DEF AddToPool
<1> HIDE DEF w
<1> HIDE DEF r, s
<1>8. /\ s.pc = "visit" /\ s.i = r.i + 1 /\ s.glob = r.glob /\ s.cur = r.cur
      /\ s.phase = r.phase /\ s.path = r.path /\ s.req = r.req /\ s.qry = r.qry
      /\ \/ s.set = r.set /\ tok' = tok
         \/ s.set = Append(r.set, n) /\ tok' = [tok EXCEPT ![n] = @ \cup {UChar(w)}]
  <2>1. CASE s = [r EXCEPT !.pc = "visit", !.i = @ + 1] /\ tok' = tok
    BY <1>3, <2>1 DEF FrameType
  <2>2. CASE /\ s = [r EXCEPT !.pc = "visit", !.i = @ + 1, !.set = Append(@, n)]
             /\ tok' = [tok EXCEPT ![n] = @ \cup {UChar(w)}]
    BY <1>3, <2>2 DEF FrameType
  <2> QED
    BY <1>7, <2>1, <2>2
<1>9. r.set \in Seq(Nodes) /\ r.phase \in {"and", "or"} /\ r.glob \in Ids
  BY <1>2, <1>3 DEF FrameType, Good, WalkPcs
<1>10. Alike(r, s)
  BY <1>3, <1>8, <1>9 DEF Alike, Released, Comparing, Holder, Idling, WalkPcs
<1>11. Placed(s)
  BY <1>2, <1>3, <1>8 DEF PairFrame, Placed, Idling, OrPcs, AndPcs, WalkPcs
<1>12. Distinct(r) /\ Distinct(s)
  BY <1>2, <1>10, AlikeDistinct DEF PairFrame
<1>13. /\ \A k \in 1..Len(r.set) : k \in 1..Len(s.set) /\ s.set[k] = r.set[k]
       /\ s.set # r.set => Len(s.set) \in 1..Len(s.set) /\ s.set[Len(s.set)] = n
  BY <1>4, <1>8, <1>9
<1>14. \A m, id : Owes(r, m, id) => Owes(s, m, id)
  BY <1>3, <1>8, <1>10, <1>13, AlikeOwns DEF Owes
<1>15. w \in Ids => Owns(s, w) /\ Owns(r, w) /\ (r.phase = "and" => w # r.glob)
  <2>1. CASE r.phase = "and"
    <3>1. Comparing(r) /\ Comparing(s)
      BY <1>3, <1>8, <2>1 DEF Comparing, WalkPcs
    <3> QED
      BY <1>5, <1>8, <1>12, <2>1, <3>1 DEF Owns, Distinct
  <2>2. CASE r.phase # "and"
    <3>1. Holder(r) /\ Holder(s)
      BY <1>3, <1>8, <1>9, <2>2 DEF Holder
    <3> QED
      BY <1>5, <1>8, <2>2, <3>1 DEF Owns
  <2> QED
    BY <2>1, <2>2
<1>16. CASE s.set = r.set /\ tok' = tok
  <2>1. PairStep(r, s)
    BY <1>2, <1>3, <1>10, <1>14, <1>16, AlikeOwns, QuietStep
  <2> QED
    BY <1>11, <1>12, <2>1 DEF PairFrame, r, s
<1>17. CASE /\ s.set = Append(r.set, n)
            /\ tok' = [tok EXCEPT ![n] = @ \cup {UChar(w)}]
  <2>1. UChar(w) = w \/ (UChar(w) = 255 /\ w \notin Ids)
    <3>1. CASE w \in Ids
      BY <3>1, UCharSame
    <3>2. CASE w = -1
      <4>1. UChar(-1) = 255 /\ -1 \notin Ids
        BY IdsAssumption DEF UChar, Ids
      <4> QED
        BY <3>2, <4>1
    <3> QED
      BY <1>5, <3>1, <3>2
  <2>2. 255 \notin Ids
    BY IdsAssumption DEF Ids
  <2>3. ASSUME NEW m \in Nodes, NEW id \in Ids
        PROVE  id \in tok'[m] <=> id \in tok[m] \/ (m = n /\ id = w)
    BY <1>2, <1>4, <1>17, <2>1, <2>2
  <2>4. w \in Ids => Owes(s, n, w)
    <3>1. Len(s.set) \in 1..Len(s.set) /\ s.set[Len(s.set)] = n
      BY <1>4, <1>9, <1>17
    <3> QED
      BY <1>8, <1>15, <3>1 DEF Owes
  <2>5. PairStep(r, s)
    BY <1>2, <1>3, <1>10, <1>14, <1>15, <2>3, <2>4, AlikeOwns, TokenStep
  <2> QED
    BY <1>11, <1>12, <2>5 DEF PairFrame, r, s
<1> QED
  BY <1>8, <1>16, <1>17

\* What is known of a frame before its step.
LEMMA PairFacts ==
    ASSUME PairInv, NEW f \in Frames
    PROVE  /\ frame \in [Frames -> FrameType] /\ tok \in [Nodes -> SUBSET (Ids \cup {255})]
           /\ frame[f] \in FrameType /\ Good(frame[f])
           /\ Placed(frame[f]) /\ Distinct(frame[f]) /\ InUse(frame[f])
  BY UsesOwn DEF PairInv, TypeInv, TypeOK, PairFrames, PairFrame

\* The id of the path that has been walked is stored with the path.
Stored(r, s) ==
    /\ r.phase = "and" /\ r.pc \in WalkPcs \cup AndPcs
    /\ s.pc = "head" /\ s.phase = "and" /\ s.path = r.path + 1
    /\ s.req = [r.req EXCEPT ![r.path] = r.cur]
    /\ s.glob = r.glob /\ s.qry = r.qry

LEMMA StoredFrame ==
    ASSUME NEW r, NEW s, Good(r), Placed(r), Distinct(r), Stored(r, s)
    PROVE  /\ PairFrame(s)
           /\ \A id \in Ids : (Owns(s, id) <=> Owns(r, id)) /\ ~Spent(s, id)
<1>1. /\ r.path \in 1..Len(r.req) /\ r.req \in Seq(Ids \cup {-1, 0})
      /\ r.cur \in Ids \cup {-1} /\ PathInAnd(r.qry, r.path) /\ r.glob \in Ids
      /\ Len(r.req) \in Nat
  BY LenPaths DEF Good, Placed, Stored, FrameType, WalkPcs, AndPcs
<1>2. /\ Len(s.req) = Len(r.req) /\ s.req[r.path] = r.cur
      /\ \A k \in 1..Len(r.req) : k # r.path => s.req[k] = r.req[k]
  BY <1>1 DEF Stored
<1>3. -1 \notin Ids /\ 0 \notin Ids
  BY IdsAssumption DEF Ids
<1>4. Comparing(r) /\ ~Comparing(s) /\ ~Idling(r) /\ ~Idling(s) /\ Holder(r) /\ Holder(s)
  BY <1>1 DEF Stored, Comparing, Idling, Holder, WalkPcs, AndPcs
<1>5. \A k \in 1..Len(r.req) : PathInAnd(r.qry, k) => (r.req[k] = 0 <=> k >= r.path)
  BY <1>4 DEF Placed, Stored
<1>6. r.req[r.path] = 0
  BY <1>1, <1>5
<1>7. Placed(s)
  <2>1. \A k \in 1..Len(s.req) : PathInAnd(s.qry, k) => (s.req[k] = 0 <=> k >= s.path)
    BY <1>1, <1>2, <1>3, <1>5 DEF Stored
  <2> QED
    BY <2>1 DEF Placed, Stored, OrPcs, AndPcs, WalkPcs
<1>8. Distinct(s)
  <2>1. ASSUME NEW j \in 1..Len(s.req), NEW k \in 1..Len(s.req), j # k, s.req[j] \in Ids
        PROVE  s.req[j] # s.req[k]
    <3>1. CASE j = r.path
      BY <1>2, <1>4, <2>1, <3>1 DEF Distinct
    <3>2. CASE k = r.path
      BY <1>2, <1>4, <2>1, <3>2 DEF Distinct
    <3>3. CASE j # r.path /\ k # r.path
      BY <1>2, <2>1, <3>3 DEF Distinct
    <3> QED
      BY <3>1, <3>2, <3>3
  <2>2. \A k \in 1..Len(s.req) : s.req[k] # s.glob
    <3>1. r.cur # r.glob
      BY <1>1, <1>3, <1>4 DEF Distinct
    <3> QED
      BY <1>2, <1>4, <3>1 DEF Distinct, Stored
  <2> QED
    BY <1>4, <2>1, <2>2 DEF Distinct
<1>9. \A k \in 1..Len(r.req) : ~Released(r, k) /\ ~Released(s, k)
  BY DEF Released, Stored
<1>10. ASSUME NEW id \in Ids
       PROVE  (Owns(s, id) <=> Owns(r, id)) /\ ~Spent(s, id)
  <2>1. Owns(r, id) <=> \/ id = r.glob \/ id = r.cur
                        \/ \E k \in 1..Len(r.req) : r.req[k] = id
    BY <1>4, <1>9 DEF Owns
  <2>2. Owns(s, id) <=> id = r.glob \/ \E k \in 1..Len(r.req) : s.req[k] = id
    BY <1>2, <1>4, <1>9 DEF Owns, Stored
  <2>3. (\E k \in 1..Len(r.req) : s.req[k] = id) <=>
            \/ id = r.cur
            \/ \E k \in 1..Len(r.req) : r.req[k] = id
    BY <1>1, <1>2, <1>3, <1>6
  <2> QED
    BY <1>2, <1>9, <2>1, <2>2, <2>3 DEF Spent
<1> QED
  BY <1>7, <1>8, <1>10 DEF PairFrame

LEMMA PairEndOfWalk ==
    ASSUME PairInv, NEW f \in Frames, EndOfWalk(f)
    PROVE  PairFrame(frame'[f]) /\ PairStep(frame[f], frame'[f])
<1> DEFINE r == frame[f]
           s == frame'[f]
           q == [r.req EXCEPT ![r.path] = r.cur]
<1>1. /\ frame \in [Frames -> FrameType] /\ r \in FrameType /\ Good(r)
      /\ Placed(r) /\ Distinct(r) /\ InUse(r)
  BY PairFacts
<1>2. r.pc = "visit" /\ ids' = ids /\ tok' = tok
  BY DEF EndOfWalk, At
<1>q. q = [r.req EXCEPT ![r.path] = r.cur]
  OBVIOUS
<1> HIDE DEF q
<1>3. \/ /\ r.phase = "and" /\ Paths[r.qry][r.path].rel = "and"
         /\ s = [r EXCEPT !.pc = "probe1", !.i = 1, !.has1 = FALSE, !.has2 = FALSE]
      \/ r.phase = "and" /\ s = [r EXCEPT !.pc = "head", !.path = @ + 1, !.req = q]
      \/ r.phase # "and" /\ s = [r EXCEPT !.pc = "head", !.path = @ + 1]
  <2>1. CASE r.phase = "and" /\ ThisPath(f).rel = "and"
    <3>1. frame' = [frame EXCEPT ![f].pc = "probe1", ![f].i = 1,
                                 ![f].has1 = FALSE, ![f].has2 = FALSE]
      BY <2>1 DEF EndOfWalk
    <3> QED
      BY <1>1, <2>1, <3>1 DEF ThisPath
  <2>2. CASE r.phase = "and" /\ ThisPath(f).rel # "and"
    <3>1. frame' = [frame EXCEPT ![f].pc = "head", ![f].path = @ + 1,
                                 ![f].req[frame[f].path] = frame[f].cur]
      BY <2>2 DEF EndOfWalk
    <3> QED
      BY <1>1, <1>q, <2>2, <3>1
  <2>3. CASE r.phase # "and"
    <3>1. frame' = [frame EXCEPT ![f].pc = "head", ![f].path = @ + 1]
      BY <2>3 DEF EndOfWalk
    <3> QED
      BY <1>1, <2>3, <3>1
  <2> QED
    BY <2>1, <2>2, <2>3
<1> HIDE DEF r, s
<1>4. r.phase \in {"and", "or"} /\ r.path \in 1..Len(r.req) /\ r.glob \in Ids
  BY <1>1, <1>2 DEF FrameType, Good, WalkPcs
<1>5. CASE /\ r.phase = "and" /\ Paths[r.qry][r.path].rel = "and"
           /\ s = [r EXCEPT !.pc = "probe1", !.i = 1, !.has1 = FALSE, !.has2 = FALSE]
  <2>1. /\ s.pc = "probe1" /\ s.i = 1 /\ s.glob = r.glob /\ s.cur = r.cur
        /\ s.phase = r.phase /\ s.path = r.path /\ s.req = r.req /\ s.qry = r.qry
        /\ s.set = r.set
    BY <1>1, <1>5 DEF FrameType
  <2>2. Alike(r, s)
    BY <1>2, <1>4, <1>5, <2>1
       DEF Alike, Released, Comparing, Holder, Idling, WalkPcs, AndPcs
  <2>3. r.cur # 0
    BY <1>1, <1>2, <1>5 DEF Good, WalkPcs
  <2>4. Placed(s)
    BY <1>1, <1>2, <1>5, <2>1, <2>3 DEF Placed, Idling, OrPcs, AndPcs, WalkPcs
  <2>5. Distinct(s)
    BY <1>1, <2>2, AlikeDistinct
  <2>6. \A m, id : Owes(r, m, id) => Owes(s, m, id)
    BY <1>2, <2>1, <2>2, AlikeOwns DEF Owes
  <2>7. PairStep(r, s)
    BY <1>1, <1>2, <2>2, <2>6, AlikeOwns, QuietStep
  <2> QED
    BY <2>4, <2>5, <2>7 DEF PairFrame, r, s
<1>6. CASE r.phase = "and" /\ s = [r EXCEPT !.pc = "head", !.path = @ + 1, !.req = q]
  <2>1. /\ s.pc = "head" /\ s.glob = r.glob /\ s.phase = r.phase
        /\ s.path = r.path + 1 /\ s.req = q /\ s.qry = r.qry /\ s.set = r.set
    BY <1>1, <1>6 DEF FrameType
  <2>2. Stored(r, s)
    BY <1>2, <1>6, <1>q, <2>1 DEF Stored, WalkPcs
  <2>3. PairFrame(s) /\ \A id \in Ids : (Owns(s, id) <=> Owns(r, id)) /\ ~Spent(s, id)
    BY <1>1, <2>2, StoredFrame
  <2>4. \A m, id : id \in Ids /\ Owes(r, m, id) => Owes(s, m, id)
    BY <1>2, <2>1, <2>3 DEF Owes
  <2>5. PairStep(r, s)
    BY <1>1, <1>2, <2>3, <2>4, QuietStep
  <2> QED
    BY <2>3, <2>5 DEF r, s
<1>7. CASE r.phase # "and" /\ s = [r EXCEPT !.pc = "head", !.path = @ + 1]
  <2>1. /\ s.pc = "head" /\ s.glob = r.glob /\ s.cur = r.cur
        /\ s.phase = r.phase /\ s.path = r.path + 1 /\ s.req = r.req /\ s.qry = r.qry
        /\ s.set = r.set
    BY <1>1, <1>7 DEF FrameType
  <2>2. ~PathInAnd(r.qry, r.path) /\ r.phase = "or"
    BY <1>1, <1>2, <1>4, <1>7 DEF Placed, WalkPcs
  <2>3. \A k \in 1..Len(r.req) : k = r.path + 1 => Paths[r.qry][k].rel # "and"
    BY <1>1, <1>4, <2>2 DEF PathInAnd, Good
  <2>4. \A k \in 1..Len(r.req) : Released(s, k) <=> Released(r, k)
    BY <1>4, <2>1, <2>2, <2>3 DEF Released
  <2>5. Alike(r, s)
    BY <1>2, <1>4, <2>1, <2>2, <2>4
       DEF Alike, Comparing, Holder, Idling, WalkPcs, AndPcs
  <2>6. Placed(s)
    BY <1>1, <1>2, <2>1, <2>2 DEF Placed, Idling, OrPcs, AndPcs, WalkPcs
  <2>7. Distinct(s)
    BY <1>1, <2>5, AlikeDistinct
  <2>8. \A m, id : Owes(r, m, id) => Owes(s, m, id)
    BY <1>2, <2>1, <2>5, AlikeOwns DEF Owes
  <2>9. PairStep(r, s)
    BY <1>1, <1>2, <2>5, <2>8, AlikeOwns, QuietStep
  <2> QED
    BY <2>6, <2>7, <2>9 DEF PairFrame, r, s
<1> QED
  BY <1>3, <1>5, <1>6, <1>7

\* Moves that touch neither the table nor a token, and keep the set.
LEMMA PairQuiet ==
    ASSUME NEW r, NEW s, Alike(r, s), Placed(s), Distinct(r), InUse(r),
           ids' = ids, tok' = tok, s.set = r.set,
           r.pc \notin {"rel", "wipe1", "wipe2"},
           s.pc # "wipe2", s.pc \in {"rel", "wipe1"} => s.i = 1
    PROVE  PairFrame(s) /\ PairStep(r, s)
<1>1. Distinct(s)
  BY AlikeDistinct
<1>2. \A m, id : Owes(r, m, id) => Owes(s, m, id)
  BY AlikeOwns DEF Owes, Alike
<1> QED
  BY <1>1, <1>2, AlikeOwns, QuietStep DEF PairFrame

LEMMA PairProbeCur ==
    ASSUME PairInv, NEW f \in Frames, ProbeCur(f)
    PROVE  PairFrame(frame'[f]) /\ PairStep(frame[f], frame'[f])
<1> DEFINE r == frame[f]
           s == frame'[f]
           b == r.has1 \/ InPool(ThisNode(f), r.cur)
<1>1. /\ frame \in [Frames -> FrameType] /\ r \in FrameType /\ Good(r)
      /\ Placed(r) /\ Distinct(r) /\ InUse(r)
  BY PairFacts
<1>2. r.pc = "probe1" /\ ids' = ids /\ tok' = tok /\ r.i <= Len(r.set)
  BY DEF ProbeCur, At, InSet
<1>3. frame' = [frame EXCEPT ![f].pc = "probe2", ![f].has1 = b]
  BY DEF ProbeCur
<1> HIDE DEF b
<1>4. s = [r EXCEPT !.pc = "probe2", !.has1 = b]
  BY <1>1, <1>3
<1> HIDE DEF r, s
<1>5. /\ s.pc = "probe2" /\ s.i = r.i /\ s.glob = r.glob /\ s.cur = r.cur
      /\ s.phase = r.phase /\ s.path = r.path /\ s.req = r.req /\ s.qry = r.qry
      /\ s.set = r.set
  BY <1>1, <1>4 DEF FrameType
<1>6. r.phase = "and"
  BY <1>1, <1>2 DEF Placed, AndPcs, FrameType
<1>7. Alike(r, s)
  BY <1>2, <1>5, <1>6 DEF Alike, Released, Comparing, Holder, Idling, WalkPcs, AndPcs
<1>8. Placed(s)
  BY <1>1, <1>2, <1>5, <1>6 DEF Placed, Idling, OrPcs, AndPcs, WalkPcs
<1> QED
  BY <1>1, <1>2, <1>5, <1>7, <1>8, PairQuiet DEF r, s

LEMMA PairProbePrev ==
    ASSUME PairInv, NEW f \in Frames, ProbePrev(f)
    PROVE  PairFrame(frame'[f]) /\ PairStep(frame[f], frame'[f])
<1> DEFINE r == frame[f]
           s == frame'[f]
           b == r.has2 \/ InPool(ThisNode(f), PrevReq(f))
<1>1. /\ frame \in [Frames -> FrameType] /\ r \in FrameType /\ Good(r)
      /\ Placed(r) /\ Distinct(r) /\ InUse(r)
  BY PairFacts
<1>2. r.pc = "probe2" /\ ids' = ids /\ tok' = tok
  BY DEF ProbePrev, At
<1>3. frame' = [frame EXCEPT ![f].pc = "probe1", ![f].i = @ + 1, ![f].has2 = b]
  BY DEF ProbePrev
<1> HIDE DEF b
<1>4. s = [r EXCEPT !.pc = "probe1", !.i = @ + 1, !.has2 = b]
  BY <1>1, <1>3
<1> HIDE DEF r, s
<1>5. /\ s.pc = "probe1" /\ s.glob = r.glob /\ s.cur = r.cur
      /\ s.phase = r.phase /\ s.path = r.path /\ s.req = r.req /\ s.qry = r.qry
      /\ s.set = r.set
  BY <1>1, <1>4 DEF FrameType
<1>6. r.phase = "and"
  BY <1>1, <1>2 DEF Placed, AndPcs, FrameType
<1>7. Alike(r, s)
  BY <1>2, <1>5, <1>6 DEF Alike, Released, Comparing, Holder, Idling, WalkPcs, AndPcs
<1>8. Placed(s)
  BY <1>1, <1>2, <1>5, <1>6 DEF Placed, Idling, OrPcs, AndPcs, WalkPcs
<1> QED
  BY <1>1, <1>2, <1>5, <1>7, <1>8, PairQuiet DEF r, s

LEMMA PairEndOfProbe ==
    ASSUME PairInv, NEW f \in Frames, EndOfProbe(f)
    PROVE  PairFrame(frame'[f]) /\ PairStep(frame[f], frame'[f])
<1> DEFINE r == frame[f]
           s == frame'[f]
           q == [r.req EXCEPT ![r.path] = r.cur]
<1>1. /\ frame \in [Frames -> FrameType] /\ r \in FrameType /\ Good(r)
      /\ Placed(r) /\ Distinct(r) /\ InUse(r)
  BY PairFacts
<1>2. r.pc = "probe1" /\ ids' = ids /\ tok' = tok
  BY DEF EndOfProbe, At
<1>q. q = [r.req EXCEPT ![r.path] = r.cur]
  OBVIOUS
<1> HIDE DEF q
<1>3. \/ s = [r EXCEPT !.pc = "head", !.path = @ + 1, !.req = q]
      \/ s = [r EXCEPT !.pc = "wipe1", !.i = 1]
  <2>1. \/ frame' = [frame EXCEPT ![f].pc = "head", ![f].path = @ + 1,
                                  ![f].req[frame[f].path] = frame[f].cur]
        \/ frame' = [frame EXCEPT ![f].pc = "wipe1", ![f].i = 1]
    BY DEF EndOfProbe
  <2>2. frame' = [frame EXCEPT ![f].pc = "head", ![f].path = @ + 1,
                               ![f].req[frame[f].path] = frame[f].cur]
        => s = [r EXCEPT !.pc = "head", !.path = @ + 1, !.req = q]
    BY <1>1, <1>q
  <2>3. frame' = [frame EXCEPT ![f].pc = "wipe1", ![f].i = 1]
        => s = [r EXCEPT !.pc = "wipe1", !.i = 1]
    BY <1>1
  <2> QED
    BY <2>1, <2>2, <2>3
<1> HIDE DEF r, s
<1>4. r.phase = "and"
  BY <1>1, <1>2 DEF Placed, AndPcs, FrameType
<1>5. CASE s = [r EXCEPT !.pc = "wipe1", !.i = 1]
  <2>1. /\ s.pc = "wipe1" /\ s.i = 1 /\ s.glob = r.glob /\ s.cur = r.cur
        /\ s.phase = r.phase /\ s.path = r.path /\ s.req = r.req /\ s.qry = r.qry
        /\ s.set = r.set
    BY <1>1, <1>5 DEF FrameType
  <2>2. Alike(r, s)
    BY <1>2, <1>4, <2>1 DEF Alike, Released, Comparing, Holder, Idling, WalkPcs, AndPcs
  <2>3. Placed(s)
    BY <1>1, <1>2, <1>4, <2>1 DEF Placed, Idling, OrPcs, AndPcs, WalkPcs
  <2> QED
    BY <1>1, <1>2, <2>1, <2>2, <2>3, PairQuiet DEF r, s
<1>6. CASE s = [r EXCEPT !.pc = "head", !.path = @ + 1, !.req = q]
  <2>1. /\ s.pc = "head" /\ s.glob = r.glob /\ s.phase = r.phase
        /\ s.path = r.path + 1 /\ s.req = q /\ s.qry = r.qry /\ s.set = r.set
    BY <1>1, <1>6 DEF FrameType
  <2>2. Stored(r, s)
    BY <1>2, <1>4, <1>q, <2>1 DEF Stored, AndPcs
  <2>3. PairFrame(s) /\ \A id \in Ids : (Owns(s, id) <=> Owns(r, id)) /\ ~Spent(s, id)
    BY <1>1, <2>2, StoredFrame
  <2>4. \A m, id : id \in Ids /\ Owes(r, m, id) => Owes(s, m, id)
    BY <1>2, <2>1, <2>3 DEF Owes
  <2>5. PairStep(r, s)
    BY <1>1, <1>2, <2>3, <2>4, QuietStep
  <2> QED
    BY <2>3, <2>5 DEF r, s
<1> QED
  BY <1>3, <1>5, <1>6

LEMMA PairEndOfWipe ==
    ASSUME PairInv, NEW f \in Frames, EndOfWipe(f)
    PROVE  PairFrame(frame'[f]) /\ PairStep(frame[f], frame'[f])
<1> DEFINE r == frame[f]
           s == frame'[f]
           q == [r.req EXCEPT ![r.path] = r.cur]
<1>1. /\ frame \in [Frames -> FrameType] /\ r \in FrameType /\ Good(r)
      /\ Placed(r) /\ Distinct(r) /\ InUse(r)
  BY PairFacts
<1>2. r.pc = "wipe1" /\ ids' = ids /\ tok' = tok /\ ~(r.i <= Len(r.set))
  BY DEF EndOfWipe, At, InSet
<1>q. q = [r.req EXCEPT ![r.path] = r.cur]
  OBVIOUS
<1> HIDE DEF q
<1>3. s = [r EXCEPT !.pc = "head", !.path = @ + 1, !.set = <<>>, !.req = q]
  <2>1. frame' = [frame EXCEPT ![f].pc = "head", ![f].path = @ + 1, ![f].set = <<>>,
                               ![f].req[frame[f].path] = frame[f].cur]
    BY DEF EndOfWipe
  <2> QED
    BY <1>1, <1>q, <2>1
<1> HIDE DEF r, s
<1>4. r.phase = "and"
  BY <1>1, <1>2 DEF Placed, AndPcs, FrameType
<1>5. /\ s.pc = "head" /\ s.glob = r.glob /\ s.phase = r.phase
      /\ s.path = r.path + 1 /\ s.req = q /\ s.qry = r.qry
  BY <1>1, <1>3 DEF FrameType
<1>6. Stored(r, s)
  BY <1>2, <1>4, <1>q, <1>5 DEF Stored, AndPcs
<1>7. PairFrame(s) /\ \A id \in Ids : (Owns(s, id) <=> Owns(r, id)) /\ ~Spent(s, id)
  BY <1>1, <1>6, StoredFrame
<1>8. \A m, id : ~Owes(r, m, id)
  <2>1. \A k \in 1..Len(r.set) : ~(k >= r.i)
    BY <1>1, <1>2 DEF FrameType
  <2> QED
    BY <1>2, <2>1 DEF Owes
<1>9. PairStep(r, s)
  BY <1>1, <1>2, <1>7, <1>8, QuietStep
<1> QED
  BY <1>7, <1>9 DEF r, s

\* Moves that remove the token id from node n.
LEMMA DelStep ==
    ASSUME NEW r, NEW s, Alike(r, s), Placed(s), Distinct(r), InUse(r), ids' = ids,
           NEW n \in Nodes, NEW id \in Ids \cup {-1, 0},
           \A m \in Nodes : \A j \in Ids :
               j \in tok'[m] <=> j \in tok[m] /\ ~(m = n /\ j = id),
           id \in Ids => Owns(r, id) \/ Spent(r, id),
           \A m \in Nodes : \A j \in Ids :
               Owes(r, m, j) /\ ~(m = n /\ j = id) => Owes(s, m, j)
    PROVE  PairFrame(s) /\ PairStep(r, s)
<1>1. Distinct(s)
  BY AlikeDistinct
<1>3. \A m \in Nodes : \A j \in Ids :
          j \in tok'[m] => Owes(s, m, j) \/ (j \in tok[m] /\ ~Owes(r, m, j))
  OBVIOUS
<1>4. \A m \in Nodes : \A j \in Ids :
          ~Owns(r, j) /\ ~Spent(r, j) => (j \in tok'[m] <=> j \in tok[m])
  OBVIOUS
<1> QED
  BY <1>1, <1>3, <1>4, AlikeOwns, TokenStep DEF PairFrame

LEMMA PairWipeCur ==
    ASSUME PairInv, NEW f \in Frames, WipeCur(f)
    PROVE  PairFrame(frame'[f]) /\ PairStep(frame[f], frame'[f])
<1> DEFINE r == frame[f]
           s == frame'[f]
           n == ThisNode(f)
<1>1. /\ frame \in [Frames -> FrameType] /\ r \in FrameType /\ Good(r)
      /\ Placed(r) /\ Distinct(r) /\ InUse(r)
      /\ tok \in [Nodes -> SUBSET (Ids \cup {255})]
  BY PairFacts
<1>2. r.pc = "wipe1" /\ ids' = ids /\ r.i <= Len(r.set) /\ n = r.set[r.i]
  BY DEF WipeCur, At, InSet, ThisNode
<1>3. tok' = [tok EXCEPT ![n] = @ \ {r.cur}]
  BY DEF WipeCur, DelFromPool
<1>4. s = [r EXCEPT !.pc = "wipe2"]
  BY <1>1 DEF WipeCur
<1> HIDE DEF r, s, n
<1>5. /\ s.pc = "wipe2" /\ s.i = r.i /\ s.glob = r.glob /\ s.cur = r.cur
      /\ s.phase = r.phase /\ s.path = r.path /\ s.req = r.req /\ s.qry = r.qry
      /\ s.set = r.set
  BY <1>1, <1>4 DEF FrameType
<1>6. r.phase = "and" /\ r.i \in 1..Len(r.set)
  BY <1>1, <1>2 DEF Placed, Good, AndPcs, FrameType
<1>7. n \in Nodes /\ r.cur \in Ids \cup {-1, 0}
  BY <1>1, <1>2, <1>6 DEF FrameType
<1>8. Alike(r, s)
  BY <1>2, <1>5, <1>6 DEF Alike, Released, Comparing, Holder, Idling, WalkPcs, AndPcs
<1>9. Placed(s)
  BY <1>1, <1>2, <1>5, <1>6 DEF Placed, Idling, OrPcs, AndPcs, WalkPcs
<1>10. Owns(r, r.cur)
  BY <1>2, <1>6 DEF Owns, Comparing, AndPcs
<1>11. ASSUME NEW m \in Nodes, NEW j \in Ids, Owes(r, m, j), ~(m = n /\ j = r.cur)
       PROVE  Owes(s, m, j)
  <2>1. Owns(s, j) /\ j # s.glob
    BY <1>5, <1>6, <1>8, <1>11, AlikeOwns DEF Owes
  <2>2. PICK k \in 1..Len(r.set) : r.set[k] = m /\ k >= r.i
    BY <1>2, <1>11 DEF Owes
  <2>3. j = r.cur => k > r.i
    BY <1>2, <1>6, <1>11, <2>2
  <2> QED
    BY <1>5, <2>1, <2>2, <2>3 DEF Owes
<1>12. \A m \in Nodes : \A j \in Ids :
           j \in tok'[m] <=> j \in tok[m] /\ ~(m = n /\ j = r.cur)
  BY <1>1, <1>3
<1>13. PairFrame(s) /\ PairStep(r, s)
  BY <1>1, <1>2, <1>8, <1>9, <1>10, <1>11, <1>12, <1>7, DelStep
<1> QED
  BY <1>13 DEF r, s

LEMMA PairWipePrev ==
    ASSUME OnePair, PairInv, NEW f \in Frames, WipePrev(f)
    PROVE  PairFrame(frame'[f]) /\ PairStep(frame[f], frame'[f])
<1> DEFINE r == frame[f]
           s == frame'[f]
           n == ThisNode(f)
           p == PrevReq(f)
<1>1. /\ frame \in [Frames -> FrameType] /\ r \in FrameType /\ Good(r)
      /\ Placed(r) /\ Distinct(r) /\ InUse(r)
      /\ tok \in [Nodes -> SUBSET (Ids \cup {255})]
  BY PairFacts
<1>2. r.pc = "wipe2" /\ ids' = ids /\ n = r.set[r.i] /\ p = r.req[r.path - 1]
  BY DEF WipePrev, At, ThisNode, PrevReq
<1>3. tok' = [tok EXCEPT ![n] = @ \ {p}]
  BY DEF WipePrev, DelFromPool
<1>4. s = [r EXCEPT !.pc = "wipe1", !.i = @ + 1]
  BY <1>1 DEF WipePrev
<1> HIDE DEF r, s, n, p
<1>5. /\ s.pc = "wipe1" /\ s.i = r.i + 1 /\ s.glob = r.glob /\ s.cur = r.cur
      /\ s.phase = r.phase /\ s.path = r.path /\ s.req = r.req /\ s.qry = r.qry
      /\ s.set = r.set
  BY <1>1, <1>4 DEF FrameType
<1>6. /\ r.phase = "and" /\ r.i \in 1..Len(r.set) /\ r.qry \in Queries
      /\ r.path \in 1..Len(Paths[r.qry]) /\ Paths[r.qry][r.path].rel = "and"
      /\ Len(r.req) = Len(Paths[r.qry]) /\ 0 \notin Ids
  BY <1>1, <1>2, IdsAssumption DEF Placed, Good, AndPcs, FrameType, Ids
<1>7. Alike(r, s)
  BY <1>2, <1>5, <1>6 DEF Alike, Released, Comparing, Holder, Idling, WalkPcs, AndPcs
<1>8. Placed(s)
  BY <1>1, <1>2, <1>5, <1>6 DEF Placed, Idling, OrPcs, AndPcs, WalkPcs
<1>9. /\ r.path - 1 \in 1..Len(r.req)
      /\ \A k \in 1..Len(r.req) : PathInAnd(r.qry, k) <=> k \in {r.path - 1, r.path}
  BY <1>6, PairIs
<1>10. ~Idling(r) /\ \A k \in 1..Len(r.req) : ~Released(r, k)
  BY <1>2, <1>6 DEF Idling, Released
<1>11. Owns(r, p)
  BY <1>2, <1>9, <1>10 DEF Owns
<1>12. n \in Nodes /\ p \in Ids \cup {-1, 0}
  BY <1>1, <1>2, <1>6, <1>9 DEF FrameType
<1>13. ASSUME NEW j \in Ids, Owns(r, j), j # r.glob
       PROVE  j = r.cur \/ j = p
  <2>1. r.req[r.path] = 0
    BY <1>1, <1>6, <1>9, <1>10 DEF Placed
  <2>2. ASSUME NEW k \in 1..Len(r.req), r.req[k] = j
        PROVE  k = r.path - 1
    BY <1>1, <1>6, <1>9, <2>1, <2>2 DEF Good
  <2> QED
    BY <1>2, <1>13, <2>2 DEF Owns
<1>14. ASSUME NEW m \in Nodes, NEW j \in Ids, Owes(r, m, j), ~(m = n /\ j = p)
       PROVE  Owes(s, m, j)
  <2>1. Owns(s, j) /\ j # s.glob /\ Owns(r, j) /\ j # r.glob
    BY <1>5, <1>6, <1>7, <1>14, AlikeOwns DEF Owes
  <2>2. PICK k \in 1..Len(r.set) : r.set[k] = m /\ k >= r.i /\ (j = r.cur => k > r.i)
    BY <1>2, <1>14 DEF Owes
  <2>3. k > r.i
    BY <1>2, <1>6, <1>13, <1>14, <2>1, <2>2
  <2>4. k >= r.i + 1
    BY <1>6, <2>3
  <2> QED
    BY <1>5, <2>1, <2>2, <2>4 DEF Owes
<1>15. \A m \in Nodes : \A j \in Ids : j \in tok'[m] <=> j \in tok[m] /\ ~(m = n /\ j = p)
  BY <1>1, <1>3
<1>16. PairFrame(s) /\ PairStep(r, s)
  BY <1>1, <1>2, <1>7, <1>8, <1>11, <1>14, <1>15, <1>12, DelStep
<1> QED
  BY <1>16 DEF r, s

\* A path whose id is set is an 'and' path or the one before.
LEMMA NextOfPair ==
    ASSUME NEW r, Good(r), NEW p \in 1..Len(r.req), Paths[r.qry][p].rel = "or",
           r.req[p] # 0
    PROVE  p + 1 \in 2..Len(r.req) /\ Paths[r.qry][p + 1].rel = "and"
<1>1. PathInAnd(r.qry, p) /\ Len(r.req) = Len(Paths[r.qry])
  BY DEF Good
<1>2. Len(r.req) \in Nat
  BY DEF Good, FrameType
<1> QED
  BY <1>1, <1>2 DEF PathInAnd

LEMMA PairOrHead ==
    ASSUME OnePair, PairInv, NEW f \in Frames, OrHead(f)
    PROVE  PairFrame(frame'[f]) /\ PairStep(frame[f], frame'[f])
<1> DEFINE r == frame[f]
           s == frame'[f]
<1>1. /\ frame \in [Frames -> FrameType] /\ r \in FrameType /\ Good(r)
      /\ Placed(r) /\ Distinct(r) /\ InUse(r)
  BY PairFacts
<1>2. r.pc = "head" /\ r.phase = "or" /\ ids' = ids /\ tok' = tok
  BY DEF OrHead, At, InPhase
<1>3. \/ /\ r.path > Len(Paths[r.qry])
         /\ s = [r EXCEPT !.phase = "end", !.path = 0, !.pc = "rel", !.i = 1,
                          !.rid = r.glob]
      \/ /\ r.path <= Len(Paths[r.qry]) /\ Paths[r.qry][r.path].rel # "or"
         /\ s = [r EXCEPT !.path = @ + 1]
      \/ /\ r.path <= Len(Paths[r.qry]) /\ Paths[r.qry][r.path].rel = "or"
         /\ s = [r EXCEPT !.i = 1, !.pc = IF r.req[r.path] = 0 THEN "visit" ELSE "or1"]
  <2>1. CASE ~InPaths(f)
    <3>1. frame' = [frame EXCEPT ![f].phase = "end", ![f].path = 0,
                         ![f].pc = "rel", ![f].i = 1, ![f].rid = frame[f].glob]
      BY <2>1 DEF OrHead
    <3>2. s = [r EXCEPT !.phase = "end", !.path = 0, !.pc = "rel", !.i = 1, !.rid = r.glob]
      BY <1>1, <3>1
    <3>3. r.path \in Nat /\ Len(Paths[r.qry]) \in Nat
      BY <1>1, LenPaths DEF FrameType
    <3> QED
      BY <2>1, <3>2, <3>3 DEF InPaths, NbPaths
  <2>2. CASE InPaths(f) /\ ThisPath(f).rel # "or"
    <3>1. frame' = [frame EXCEPT ![f].path = @ + 1]
      BY <2>2 DEF OrHead
    <3> QED
      BY <1>1, <2>2, <3>1 DEF InPaths, NbPaths, ThisPath
  <2>3. CASE InPaths(f) /\ ThisPath(f).rel = "or"
    <3>1. frame' = [frame EXCEPT ![f].i = 1,
                         ![f].pc = IF frame[f].req[frame[f].path] = 0
                                   THEN "visit" ELSE "or1"]
      BY <2>3 DEF OrHead
    <3>2. s = [r EXCEPT !.i = 1, !.pc = IF r.req[r.path] = 0 THEN "visit" ELSE "or1"]
      BY <1>1, <3>1
    <3> QED
      BY <2>3, <3>2 DEF InPaths, NbPaths, ThisPath
  <2> QED
    BY <2>1, <2>2, <2>3
<1> HIDE DEF r, s
<1>4. /\ r.qry \in Queries /\ r.path \in Nat \ {0} /\ Len(r.req) = Len(Paths[r.qry])
      /\ Len(r.req) \in Nat /\ r.glob \in Ids
  BY <1>1, <1>2, LenPaths DEF Good, FrameType
<1>5. \A k \in 1..Len(r.req) : PathInAnd(r.qry, k) => r.req[k] # 0
  BY <1>1, <1>2 DEF Placed, Idling
<1>6. CASE /\ r.path > Len(Paths[r.qry])
           /\ s = [r EXCEPT !.phase = "end", !.path = 0, !.pc = "rel", !.i = 1,
                            !.rid = r.glob]
  <2>1. /\ s.pc = "rel" /\ s.phase = "end" /\ s.glob = r.glob /\ s.path = 0
        /\ s.i = 1 /\ s.rid = r.glob /\ s.set = r.set /\ s.cur = r.cur
        /\ s.req = r.req /\ s.qry = r.qry
    BY <1>1, <1>6 DEF FrameType
  <2>2. \A k \in 1..Len(r.req) : Released(s, k) <=> Released(r, k)
    BY <1>2, <1>4, <1>6, <2>1 DEF Released
  <2>3. Alike(r, s)
    BY <1>2, <1>4, <2>1, <2>2 DEF Alike, Comparing, Holder, Idling, WalkPcs, AndPcs
  <2>4. Placed(s)
    BY <1>4, <1>5, <2>1 DEF Placed, Idling, OrPcs, AndPcs, WalkPcs
  <2> QED
    BY <1>1, <1>2, <2>1, <2>3, <2>4, PairQuiet DEF r, s
<1>7. CASE /\ r.path <= Len(Paths[r.qry]) /\ Paths[r.qry][r.path].rel # "or"
           /\ s = [r EXCEPT !.path = @ + 1]
  <2>1. /\ s.pc = "head" /\ s.phase = "or" /\ s.glob = r.glob /\ s.path = r.path + 1
        /\ s.i = r.i /\ s.set = r.set /\ s.cur = r.cur
        /\ s.req = r.req /\ s.qry = r.qry
    BY <1>1, <1>2, <1>7 DEF FrameType
  <2>2. r.path \in 1..Len(Paths[r.qry]) /\ Paths[r.qry] \in Seq(Path)
    BY <1>4, <1>7, QueriesAssumption
  <2>3. Paths[r.qry][r.path] \in Path
    BY <2>2
  <2>4. Paths[r.qry][r.path].rel = "and"
    BY <1>7, <2>3 DEF Path
  <2>5. \A k \in 1..Len(r.req) : k = r.path + 1 => Paths[r.qry][k].rel # "and"
    BY <1>4, <2>2, <2>4 DEF OnePair
  <2>6. \A k \in 1..Len(r.req) : Released(s, k) <=> Released(r, k)
    BY <1>2, <1>4, <2>1, <2>5 DEF Released
  <2>7. Alike(r, s)
    BY <1>2, <1>4, <2>1, <2>6 DEF Alike, Comparing, Holder, Idling, WalkPcs, AndPcs
  <2>8. Placed(s)
    BY <1>4, <1>5, <2>1 DEF Placed, Idling, OrPcs, AndPcs, WalkPcs
  <2> QED
    BY <1>1, <1>2, <2>1, <2>7, <2>8, PairQuiet DEF r, s
<1>8. CASE /\ r.path <= Len(Paths[r.qry]) /\ Paths[r.qry][r.path].rel = "or"
           /\ s = [r EXCEPT !.i = 1, !.pc = IF r.req[r.path] = 0 THEN "visit" ELSE "or1"]
  <2>1. /\ s.pc = IF r.req[r.path] = 0 THEN "visit" ELSE "or1"
        /\ s.phase = "or" /\ s.glob = r.glob /\ s.path = r.path
        /\ s.i = 1 /\ s.set = r.set /\ s.cur = r.cur
        /\ s.req = r.req /\ s.qry = r.qry
    BY <1>1, <1>2, <1>8 DEF FrameType
  <2>2. Alike(r, s)
    BY <1>2, <1>4, <2>1 DEF Alike, Released, Comparing, Holder, Idling, WalkPcs, AndPcs
  <2>3. r.path \in 1..Len(r.req)
    BY <1>4, <1>8
  <2>4. Placed(s)
    <3>1. CASE r.req[r.path] = 0
      BY <1>5, <2>1, <2>3, <3>1 DEF Placed, Idling, OrPcs, AndPcs, WalkPcs
    <3>2. CASE r.req[r.path] # 0
      <4>1. r.path + 1 \in 2..Len(r.req) /\ Paths[r.qry][r.path + 1].rel = "and"
        BY <1>1, <1>8, <2>3, <3>2, NextOfPair
      <4> QED
        BY <1>5, <2>1, <3>2, <4>1 DEF Placed, Idling, OrPcs, AndPcs, WalkPcs
    <3> QED
      BY <3>1, <3>2
  <2> QED
    BY <1>1, <1>2, <2>1, <2>2, <2>4, PairQuiet DEF r, s
<1> QED
  BY <1>3, <1>6, <1>7, <1>8

LEMMA PairOrProbe ==
    ASSUME PairInv, NEW f \in Frames, OrProbe(f)
    PROVE  PairFrame(frame'[f]) /\ PairStep(frame[f], frame'[f])
<1> DEFINE r == frame[f]
           s == frame'[f]
<1>1. /\ frame \in [Frames -> FrameType] /\ r \in FrameType /\ Good(r)
      /\ Placed(r) /\ Distinct(r) /\ InUse(r)
  BY PairFacts
<1>2. r.pc = "or1" /\ r.i <= Len(r.set) /\ ids' = ids /\ tok' = tok
  BY DEF OrProbe, At, InSet
<1>3. s = [r EXCEPT !.pc = "or2"] \/ s = [r EXCEPT !.i = @ + 1]
  BY <1>1 DEF OrProbe
<1> HIDE DEF r, s
<1>4. /\ (s.pc = "or2" /\ s.i = r.i) \/ s.pc = "or1"
      /\ s.glob = r.glob /\ s.phase = r.phase /\ s.path = r.path
      /\ s.set = r.set /\ s.cur = r.cur /\ s.req = r.req /\ s.qry = r.qry
  <2>1. CASE s = [r EXCEPT !.pc = "or2"]
    BY <1>1, <2>1 DEF FrameType
  <2>2. CASE s = [r EXCEPT !.i = @ + 1]
    BY <1>1, <1>2, <2>2 DEF FrameType
  <2> QED
    BY <1>3, <2>1, <2>2
<1>5. r.phase = "or" /\ r.glob \in Ids
  BY <1>1, <1>2 DEF Placed, Good, OrPcs, FrameType
<1>6. Alike(r, s)
  BY <1>2, <1>4, <1>5 DEF Alike, Released, Comparing, Holder, Idling, WalkPcs, AndPcs
<1>7. Placed(s)
  BY <1>1, <1>2, <1>4, <1>5 DEF Placed, Idling, OrPcs, AndPcs, WalkPcs
<1> QED
  BY <1>1, <1>2, <1>4, <1>6, <1>7, PairQuiet DEF r, s

LEMMA PairOrAdd ==
    ASSUME PairInv, NEW f \in Frames, OrAdd(f)
    PROVE  PairFrame(frame'[f]) /\ PairStep(frame[f], frame'[f])
<1> DEFINE r == frame[f]
           s == frame'[f]
           n == ThisNode(f)
<1>1. /\ frame \in [Frames -> FrameType] /\ r \in FrameType /\ Good(r)
      /\ Placed(r) /\ Distinct(r) /\ InUse(r)
      /\ tok \in [Nodes -> SUBSET (Ids \cup {255})]
  BY PairFacts
<1>2. r.pc = "or2" /\ ids' = ids /\ n = r.set[r.i]
  BY DEF OrAdd, At, ThisNode
<1>3. tok' = [tok EXCEPT ![n] = @ \cup {UChar(r.glob)}]
  BY DEF OrAdd, AddToPool
<1>4. s = [r EXCEPT !.pc = "or3"]
  BY <1>1 DEF OrAdd
<1> HIDE DEF r, s, n
<1>5. /\ s.pc = "or3" /\ s.i = r.i /\ s.glob = r.glob /\ s.phase = r.phase
      /\ s.path = r.path /\ s.set = r.set /\ s.cur = r.cur /\ s.req = r.req
      /\ s.qry = r.qry
  BY <1>1, <1>4 DEF FrameType
<1>6. r.phase = "or" /\ r.glob \in Ids /\ r.i \in 1..Len(r.set) /\ n \in Nodes
  BY <1>1, <1>2 DEF Placed, Good, OrPcs, FrameType
<1>7. Alike(r, s)
  BY <1>2, <1>5, <1>6 DEF Alike, Released, Comparing, Holder, Idling, WalkPcs, AndPcs
<1>8. Placed(s) /\ Distinct(s)
  BY <1>1, <1>2, <1>5, <1>6, <1>7, AlikeDistinct
     DEF Placed, Idling, OrPcs, AndPcs, WalkPcs
<1>9. \A m, id : Owes(r, m, id) => Owes(s, m, id)
  BY <1>2, <1>5, <1>7, AlikeOwns DEF Owes
<1>10. Owns(r, r.glob) /\ Owns(s, r.glob)
  BY <1>2, <1>5, <1>6 DEF Owns, Holder
<1>11. Owes(s, n, r.glob)
  BY <1>2, <1>5, <1>6, <1>10 DEF Owes
<1>12. ASSUME NEW m \in Nodes, NEW id \in Ids
       PROVE  id \in tok'[m] <=> id \in tok[m] \/ (m = n /\ id = r.glob)
  BY <1>1, <1>3, <1>6, UCharSame
<1>13. PairStep(r, s)
  BY <1>1, <1>2, <1>7, <1>9, <1>10, <1>11, <1>12, AlikeOwns, TokenStep
<1> QED
  BY <1>8, <1>13 DEF PairFrame, r, s

LEMMA PairOrDel ==
    ASSUME PairInv, NEW f \in Frames, OrDel(f)
    PROVE  PairFrame(frame'[f]) /\ PairStep(frame[f], frame'[f])
<1> DEFINE r == frame[f]
           s == frame'[f]
           n == ThisNode(f)
           p == NextReq(f)
<1>1. /\ frame \in [Frames -> FrameType] /\ r \in FrameType /\ Good(r)
      /\ Placed(r) /\ Distinct(r) /\ InUse(r)
      /\ tok \in [Nodes -> SUBSET (Ids \cup {255})]
  BY PairFacts
<1>2. r.pc = "or3" /\ ids' = ids /\ n = r.set[r.i] /\ p = r.req[r.path + 1]
  BY DEF OrDel, At, ThisNode, NextReq
<1>3. tok' = [tok EXCEPT ![n] = @ \ {p}]
  BY DEF OrDel, DelFromPool
<1>4. s = [r EXCEPT !.pc = "or1", !.i = @ + 1]
  BY <1>1 DEF OrDel
<1> HIDE DEF r, s, n, p
<1>5. /\ s.pc = "or1" /\ s.glob = r.glob /\ s.phase = r.phase
      /\ s.path = r.path /\ s.set = r.set /\ s.cur = r.cur /\ s.req = r.req
      /\ s.qry = r.qry
  BY <1>1, <1>4 DEF FrameType
<1>6. /\ r.phase = "or" /\ r.glob \in Ids /\ r.i \in 1..Len(r.set)
      /\ r.path \in Nat /\ r.path + 1 \in 2..Len(r.req)
  BY <1>1, <1>2 DEF Placed, Good, OrPcs, FrameType
<1>7. Alike(r, s)
  BY <1>2, <1>5, <1>6 DEF Alike, Released, Comparing, Holder, Idling, WalkPcs, AndPcs
<1>8. Placed(s)
  BY <1>1, <1>2, <1>5, <1>6 DEF Placed, Idling, OrPcs, AndPcs, WalkPcs
<1>9. n \in Nodes /\ p \in Ids \cup {-1, 0}
  BY <1>1, <1>2, <1>6 DEF FrameType
<1>10. Owns(r, p)
  <2>1. r.path + 1 \in 1..Len(r.req) /\ ~(r.path + 1 <= r.path)
    BY <1>6
  <2>2. ~Released(r, r.path + 1)
    BY <1>6, <2>1 DEF Released
  <2> QED
    BY <1>2, <2>1, <2>2 DEF Owns, Idling
<1>11. \A m, id : Owes(r, m, id) => Owes(s, m, id)
  BY <1>2, <1>5, <1>7, AlikeOwns DEF Owes
<1>12. \A m \in Nodes : \A j \in Ids : j \in tok'[m] <=> j \in tok[m] /\ ~(m = n /\ j = p)
  BY <1>1, <1>3
<1>13. PairFrame(s) /\ PairStep(r, s)
  BY <1>1, <1>2, <1>7, <1>8, <1>9, <1>10, <1>11, <1>12, DelStep
<1> QED
  BY <1>13 DEF r, s

LEMMA PairEndOfOr ==
    ASSUME PairInv, NEW f \in Frames, EndOfOr(f)
    PROVE  PairFrame(frame'[f]) /\ PairStep(frame[f], frame'[f])
<1> DEFINE r == frame[f]
           s == frame'[f]
           p == NextReq(f)
<1>1. /\ frame \in [Frames -> FrameType] /\ r \in FrameType /\ Good(r)
      /\ Placed(r) /\ Distinct(r) /\ InUse(r)
  BY PairFacts
<1>2. r.pc = "or1" /\ ids' = ids /\ tok' = tok /\ p = r.req[r.path + 1]
  BY DEF EndOfOr, At, NextReq
<1>3. frame' = [frame EXCEPT ![f].pc = "rel", ![f].i = 1, ![f].rid = p]
  BY DEF EndOfOr
<1> HIDE DEF p
<1>4. s = [r EXCEPT !.pc = "rel", !.i = 1, !.rid = p]
  BY <1>1, <1>3
<1> HIDE DEF r, s
<1>5. /\ s.pc = "rel" /\ s.i = 1 /\ s.rid = p /\ s.glob = r.glob /\ s.phase = r.phase
      /\ s.path = r.path /\ s.set = r.set /\ s.cur = r.cur /\ s.req = r.req
      /\ s.qry = r.qry
  <2>1. p \in Ids \cup {-1, 0}
    <3>1. r.path + 1 \in 1..Len(r.req)
      BY <1>1, <1>2 DEF Placed, Good, OrPcs, FrameType
    <3> QED
      BY <1>1, <1>2, <3>1 DEF FrameType
  <2> QED
    BY <1>1, <1>4, <2>1 DEF FrameType
<1>6. /\ r.phase = "or" /\ r.glob \in Ids /\ r.path \in 1..Len(r.req)
      /\ r.path + 1 \in 2..Len(r.req)
  BY <1>1, <1>2 DEF Placed, Good, OrPcs, FrameType
<1>7. Alike(r, s)
  BY <1>2, <1>5, <1>6 DEF Alike, Released, Comparing, Holder, Idling, WalkPcs, AndPcs
<1>8. Placed(s)
  BY <1>1, <1>2, <1>5, <1>6 DEF Placed, Idling, OrPcs, AndPcs, WalkPcs
<1> QED
  BY <1>1, <1>2, <1>5, <1>7, <1>8, PairQuiet DEF r, s

\* The id that is being released.
LEMMA ReleasedId ==
    ASSUME NEW r, Good(r), Placed(r), r.pc = "rel", r.rid \in Ids
    PROVE  Owns(r, r.rid) \/ Spent(r, r.rid)
<1>1. /\ r.path \in Nat /\ r.path <= Len(r.req) /\ r.glob \in Ids /\ ~Idling(r)
      /\ r.rid = IF r.phase = "or" THEN r.req[r.path + 1]
                 ELSE IF r.path = 0 THEN r.glob ELSE r.req[r.path]
      /\ r.phase \in {"or", "end"} /\ Len(r.req) \in Nat
  BY DEF Good, Placed, FrameType, Idling
<1>2. CASE r.phase = "or"
  <2>1. r.path + 1 \in 1..Len(r.req) /\ ~(r.path + 1 <= r.path)
    BY <1>1, <1>2 DEF Placed
  <2>2. ~Released(r, r.path + 1)
    BY <1>2, <2>1 DEF Released
  <2> QED
    BY <1>1, <1>2, <2>1, <2>2 DEF Owns
<1>3. CASE r.phase = "end" /\ r.path = 0
  BY <1>1, <1>3 DEF Owns, Holder
<1>4. CASE r.phase = "end" /\ r.path # 0
  <2>1. r.path \in 1..Len(r.req) /\ ~(r.path < r.path)
    BY <1>1, <1>4
  <2>2. Released(r, r.path) <=> Paths[r.qry][r.path].rel = "and"
    BY <1>4, <2>1 DEF Released
  <2> QED
    BY <1>1, <1>4, <2>1, <2>2 DEF Owns, Spent
<1> QED
  BY <1>1, <1>2, <1>3, <1>4

LEMMA PairReleaseToken ==
    ASSUME PairInv, NEW f \in Frames, ReleaseToken(f)
    PROVE  PairFrame(frame'[f]) /\ PairStep(frame[f], frame'[f])
<1> DEFINE r == frame[f]
           s == frame'[f]
           n == ThisNode(f)
<1>1. /\ frame \in [Frames -> FrameType] /\ r \in FrameType /\ Good(r)
      /\ Placed(r) /\ Distinct(r) /\ InUse(r)
      /\ tok \in [Nodes -> SUBSET (Ids \cup {255})]
  BY PairFacts
<1>2. r.pc = "rel" /\ ids' = ids /\ r.i <= Len(r.set) /\ n = r.set[r.i]
  BY DEF ReleaseToken, At, InSet, ThisNode
<1>3. tok' = [tok EXCEPT ![n] = @ \ {r.rid}]
  BY DEF ReleaseToken, DelFromPool
<1>4. s = [r EXCEPT !.i = @ + 1]
  BY <1>1 DEF ReleaseToken
<1> HIDE DEF r, s, n
<1>5. /\ s.pc = "rel" /\ s.i = r.i + 1 /\ s.rid = r.rid /\ s.glob = r.glob
      /\ s.phase = r.phase /\ s.path = r.path /\ s.set = r.set /\ s.cur = r.cur
      /\ s.req = r.req /\ s.qry = r.qry
  BY <1>1, <1>2, <1>4 DEF FrameType
<1>6. /\ r.phase \in {"or", "end"} /\ r.glob \in Ids /\ r.i \in 1..Len(r.set)
      /\ n \in Nodes /\ r.rid \in Ids \cup {-1, 0}
  BY <1>1, <1>2 DEF Placed, Good, FrameType
<1>7. Alike(r, s)
  BY <1>2, <1>5, <1>6 DEF Alike, Released, Comparing, Holder, Idling, WalkPcs, AndPcs
<1>8. Placed(s)
  <2>1. s.i # 0
    BY <1>5, <1>6
  <2> QED
    BY <1>1, <1>2, <1>5, <1>6, <2>1 DEF Placed, Idling, OrPcs, AndPcs, WalkPcs
<1>9. r.rid \in Ids => Owns(r, r.rid) \/ Spent(r, r.rid)
  BY <1>1, <1>2, ReleasedId
<1>10. ASSUME NEW m \in Nodes, NEW j \in Ids, Owes(r, m, j), ~(m = n /\ j = r.rid)
       PROVE  Owes(s, m, j)
  <2>1. Owns(s, j)
    BY <1>7, <1>10, AlikeOwns DEF Owes
  <2>2. PICK k \in 1..Len(r.set) : r.set[k] = m /\ (j = r.rid => k >= r.i)
    BY <1>2, <1>10 DEF Owes
  <2>3. j = r.rid => k >= r.i + 1
    BY <1>2, <1>6, <1>10, <2>2
  <2> QED
    BY <1>5, <1>6, <2>1, <2>2, <2>3 DEF Owes
<1>11. \A m \in Nodes : \A j \in Ids :
           j \in tok'[m] <=> j \in tok[m] /\ ~(m = n /\ j = r.rid)
  BY <1>1, <1>3
<1>12. PairFrame(s) /\ PairStep(r, s)
  BY <1>1, <1>2, <1>6, <1>7, <1>8, <1>9, <1>10, <1>11, DelStep
<1> QED
  BY <1>12 DEF r, s

\* Giving back an id: the frame loses it if it had it, and nothing else.
LEMMA GivenBack ==
    ASSUME OnePair, NEW r, NEW s, Good(r), Placed(r), Distinct(r),
           r.pc = "rel", s.pc = "head", s.path = r.path + 1, s.glob = r.glob,
           s.phase = r.phase, s.req = r.req, s.qry = r.qry
    PROVE  \A id \in Ids :
              /\ Owns(s, id) <=> Owns(r, id) /\ id # r.rid
              /\ Spent(s, id) => Spent(r, id) \/ id = r.rid
<1>1. /\ r.path \in Nat /\ r.path <= Len(r.req) /\ r.glob \in Ids
      /\ r.rid = IF r.phase = "or" THEN r.req[r.path + 1]
                 ELSE IF r.path = 0 THEN r.glob ELSE r.req[r.path]
      /\ r.phase \in {"or", "end"} /\ Len(r.req) \in Nat
  BY DEF Good, Placed, FrameType
<1>2. /\ ~Idling(r) /\ ~Idling(s) /\ ~Comparing(r) /\ ~Comparing(s)
      /\ Holder(r) <=> (r.phase = "end" => r.path = 0)
      /\ Holder(s) <=> r.phase = "or"
  BY <1>1 DEF Idling, Comparing, Holder, WalkPcs, AndPcs
<1>3. ASSUME NEW id
      PROVE  /\ Owns(r, id) <=> \/ Holder(r) /\ id = r.glob
                                \/ \E k \in 1..Len(r.req) : ~Released(r, k) /\ r.req[k] = id
             /\ Owns(s, id) <=> \/ Holder(s) /\ id = r.glob
                                \/ \E k \in 1..Len(r.req) : ~Released(s, k) /\ r.req[k] = id
             /\ Spent(r, id) <=> \E k \in 1..Len(r.req) :
                    Paths[r.qry][k].rel = "and" /\ Released(r, k) /\ r.req[k] = id
             /\ Spent(s, id) <=> \E k \in 1..Len(r.req) :
                    Paths[r.qry][k].rel = "and" /\ Released(s, k) /\ r.req[k] = id
  BY <1>2 DEF Owns, Spent
<1>4. \A k \in 1..Len(r.req) : r.req[k] # r.glob
  BY <1>2 DEF Distinct
<1>5. CASE r.phase = "or"
  <2>1. /\ r.path + 1 \in 1..Len(r.req) /\ Paths[r.qry][r.path + 1].rel = "and"
        /\ r.rid = r.req[r.path + 1]
    BY <1>1, <1>5 DEF Placed
  <2>2. \A k \in 1..Len(r.req) : Released(s, k) <=> Released(r, k) \/ k = r.path + 1
    BY <1>1, <1>5, <2>1 DEF Released
  <2>3. ~Released(r, r.path + 1)
    BY <1>1, <1>5 DEF Released
  <2>4. \A id \in Ids : \A k \in 1..Len(r.req) :
            r.req[k] = id => (k = r.path + 1 <=> id = r.rid)
    BY <2>1 DEF Distinct
  <2>5. Holder(r) /\ Holder(s) /\ r.rid # r.glob
    BY <1>2, <1>4, <1>5, <2>1
  <2>6. ASSUME NEW id \in Ids
        PROVE  /\ Owns(s, id) <=> Owns(r, id) /\ id # r.rid
               /\ Spent(s, id) => Spent(r, id) \/ id = r.rid
    <3>1. (\E k \in 1..Len(r.req) : ~Released(s, k) /\ r.req[k] = id) <=>
            (\E k \in 1..Len(r.req) : ~Released(r, k) /\ r.req[k] = id) /\ id # r.rid
      BY <2>2, <2>4
    <3>2. Owns(s, id) <=> Owns(r, id) /\ id # r.rid
      BY <1>3, <2>5, <3>1
    <3>3. Spent(s, id) => Spent(r, id) \/ id = r.rid
      BY <1>3, <2>2, <2>4
    <3> QED
      BY <3>2, <3>3
  <2> QED
    BY <2>6
<1>6. CASE r.phase = "end" /\ r.path = 0
  <2>1. r.rid = r.glob /\ Holder(r) /\ ~Holder(s)
    BY <1>1, <1>2, <1>6
  <2>2. \A k \in 1..Len(r.req) : Released(s, k) <=> Released(r, k)
    BY <1>1, <1>6 DEF Released
  <2> QED
    BY <1>3, <1>4, <2>1, <2>2
<1>7. CASE r.phase = "end" /\ r.path # 0
  <2>1. r.rid = r.req[r.path] /\ r.path \in 1..Len(r.req) /\ ~Holder(r) /\ ~Holder(s)
    BY <1>1, <1>2, <1>7
  <2>2. \A k \in 1..Len(r.req) : Released(s, k) <=> Released(r, k) \/ k = r.path
    BY <1>1, <1>7 DEF Released
  <2>3. \A id \in Ids : \A k \in 1..Len(r.req) :
            r.req[k] = id => (k = r.path <=> id = r.rid)
    BY <2>1 DEF Distinct
  <2>4. ASSUME NEW id \in Ids
        PROVE  /\ Owns(s, id) <=> Owns(r, id) /\ id # r.rid
               /\ Spent(s, id) => Spent(r, id) \/ id = r.rid
    <3>1. (\E k \in 1..Len(r.req) : ~Released(s, k) /\ r.req[k] = id) <=>
            (\E k \in 1..Len(r.req) : ~Released(r, k) /\ r.req[k] = id) /\ id # r.rid
      BY <2>2, <2>3
    <3>2. Owns(s, id) <=> Owns(r, id) /\ id # r.rid
      BY <1>3, <2>1, <3>1
    <3>3. Spent(s, id) => Spent(r, id) \/ id = r.rid
      BY <1>3, <2>2, <2>3
    <3> QED
      BY <3>2, <3>3
  <2> QED
    BY <2>4
<1> QED
  BY <1>1, <1>5, <1>6, <1>7

LEMMA PairReleaseId ==
    ASSUME OneThread, OnePair, PairInv, NEW f \in Frames, ReleaseId(f)
    PROVE  PairFrame(frame'[f]) /\ PairStep(frame[f], frame'[f])
<1> DEFINE r == frame[f]
           s == frame'[f]
<1>1. /\ frame \in [Frames -> FrameType] /\ r \in FrameType /\ Good(r)
      /\ Placed(r) /\ Distinct(r) /\ InUse(r)
  BY PairFacts
<1>2. /\ r.pc = "rel" /\ tok' = tok /\ ~(r.i <= Len(r.set)) /\ top[f[1]] = f[2]
      /\ ids' = [id \in Ids |-> IF id = r.rid THEN 0 ELSE ids[id]]
  BY DEF ReleaseId, At, InSet
<1>3. s = [r EXCEPT !.pc = "head", !.path = @ + 1]
  BY <1>1 DEF ReleaseId
<1>4. \A id \in Ids : Spent(r, id) => ids[id] = 0
  BY <1>2, SpentFree
<1> HIDE DEF r, s
<1>5. /\ s.pc = "head" /\ s.glob = r.glob /\ s.phase = r.phase
      /\ s.path = r.path + 1 /\ s.set = r.set /\ s.cur = r.cur /\ s.req = r.req
      /\ s.qry = r.qry
  BY <1>1, <1>3 DEF FrameType
<1>6. r.phase \in {"or", "end"} /\ r.glob \in Ids
  BY <1>1, <1>2 DEF Placed, Good, FrameType
<1>7. \A id \in Ids :
         /\ Owns(s, id) <=> Owns(r, id) /\ id # r.rid
         /\ Spent(s, id) => Spent(r, id) \/ id = r.rid
  BY <1>1, <1>2, <1>5, GivenBack
<1>8. Placed(s)
  BY <1>1, <1>2, <1>5, <1>6 DEF Placed, Idling, OrPcs, AndPcs, WalkPcs
<1>9. Distinct(s)
  BY <1>1, <1>2, <1>5, <1>6 DEF Distinct, Idling, Comparing
<1>10. r.rid \in Ids => Owns(r, r.rid) \/ Spent(r, r.rid)
  BY <1>1, <1>2, ReleasedId
<1>11. ASSUME NEW id \in Ids
       PROVE  /\ ids'[id] = 1 <=> Owns(s, id) \/ (ids[id] = 1 /\ ~Owns(r, id))
              /\ Owns(s, id) => Owns(r, id) \/ ids[id] = 0
              /\ Spent(s, id) => ~Owns(s, id) /\ (Spent(r, id) \/ Owns(r, id))
  <2>1. Owns(r, id) => ids[id] = 1 /\ ~Spent(r, id)
    BY <1>1 DEF InUse
  <2>2. ids'[id] = IF id = r.rid THEN 0 ELSE ids[id]
    BY <1>2
  <2>3. id = r.rid => Owns(r, id) \/ ids[id] = 0
    BY <1>4, <1>10
  <2> QED
    BY <1>7, <1>10, <2>1, <2>2, <2>3
<1>12. \A m \in Nodes : \A id \in Ids : Owes(r, m, id) => Owes(s, m, id)
  <2>1. SUFFICES ASSUME NEW m \in Nodes, NEW id \in Ids, Owes(r, m, id)
                 PROVE  Owes(s, m, id)
    OBVIOUS
  <2>2. id # r.rid
    BY <1>1, <1>2, <2>1 DEF Owes, FrameType
  <2> QED
    BY <1>5, <1>6, <1>7, <2>1, <2>2 DEF Owes
<1>13. PairStep(r, s)
  BY <1>2, <1>11, <1>12 DEF PairStep
<1> QED
  BY <1>8, <1>9, <1>13 DEF PairFrame, r, s

LEMMA PairEndHead ==
    ASSUME PairInv, NEW f \in Frames, EndHead(f)
    PROVE  PairFrame(frame'[f]) /\ PairStep(frame[f], frame'[f])
<1> DEFINE r == frame[f]
           s == frame'[f]
<1>1. /\ frame \in [Frames -> FrameType] /\ r \in FrameType /\ Good(r)
      /\ Placed(r) /\ Distinct(r) /\ InUse(r)
  BY PairFacts
<1>2. r.pc = "head" /\ r.phase = "end" /\ ids' = ids /\ tok' = tok
  BY DEF EndHead, At, InPhase
<1>3. \/ r.path > Len(Paths[r.qry]) /\ s = [r EXCEPT !.pc = "done"]
      \/ r.path <= Len(Paths[r.qry]) /\ r.req[r.path] = 0 /\ s = [r EXCEPT !.path = @ + 1]
      \/ /\ r.path <= Len(Paths[r.qry]) /\ r.req[r.path] # 0
         /\ s = [r EXCEPT !.pc = "rel", !.i = 1, !.rid = r.req[r.path]]
  <2>1. CASE ~InPaths(f)
    <3>1. frame' = [frame EXCEPT ![f].pc = "done"]
      BY <2>1 DEF EndHead
    <3>2. r.path \in Nat /\ Len(Paths[r.qry]) \in Nat
      BY <1>1, LenPaths DEF FrameType
    <3> QED
      BY <1>1, <2>1, <3>1, <3>2 DEF InPaths, NbPaths
  <2>2. CASE InPaths(f) /\ frame[f].req[frame[f].path] = 0
    <3>1. frame' = [frame EXCEPT ![f].path = @ + 1]
      BY <2>2 DEF EndHead
    <3> QED
      BY <1>1, <2>2, <3>1 DEF InPaths, NbPaths
  <2>3. CASE InPaths(f) /\ frame[f].req[frame[f].path] # 0
    <3>1. frame' = [frame EXCEPT ![f].pc = "rel", ![f].i = 1,
                         ![f].rid = frame[f].req[frame[f].path]]
      BY <2>3 DEF EndHead
    <3>2. s = [r EXCEPT !.pc = "rel", !.i = 1, !.rid = r.req[r.path]]
      BY <1>1, <3>1
    <3> QED
      BY <2>3, <3>2 DEF InPaths, NbPaths
  <2> QED
    BY <2>1, <2>2, <2>3
<1> HIDE DEF r, s
<1>4. /\ r.path \in Nat \ {0} /\ Len(r.req) = Len(Paths[r.qry])
      /\ Len(r.req) \in Nat /\ r.glob \in Ids /\ 0 \notin Ids
  BY <1>1, <1>2, LenPaths, IdsAssumption DEF Good, FrameType, Ids
<1>5. CASE r.path > Len(Paths[r.qry]) /\ s = [r EXCEPT !.pc = "done"]
  <2>1. /\ s.pc = "done" /\ s.phase = "end" /\ s.set = r.set /\ s.path = r.path
        /\ s.req = r.req /\ s.qry = r.qry
    BY <1>1, <1>2, <1>5 DEF FrameType
  <2>2. \A id : ~Owns(s, id) /\ ~Spent(s, id)
    BY <2>1, OffOwns
  <2>3. \A k \in 1..Len(r.req) : Released(r, k)
    BY <1>2, <1>4, <1>5 DEF Released
  <2>4. \A id : ~Owns(r, id)
    BY <1>2, <1>4, <2>3 DEF Owns, Holder, Comparing
  <2>5. Placed(s) /\ Distinct(s)
    BY <1>1, <2>1 DEF Placed, Distinct, Idling, Comparing, OrPcs, AndPcs, WalkPcs
  <2>6. \A m, id : ~Owes(r, m, id)
    BY <2>4 DEF Owes
  <2>7. PairStep(r, s)
    BY <1>1, <1>2, <2>2, <2>4, <2>6, QuietStep
  <2> QED
    BY <2>5, <2>7 DEF PairFrame, r, s
<1>6. CASE /\ r.path <= Len(Paths[r.qry]) /\ r.req[r.path] = 0
           /\ s = [r EXCEPT !.path = @ + 1]
  <2>1. /\ s.pc = "head" /\ s.phase = "end" /\ s.set = r.set /\ s.path = r.path + 1
        /\ s.req = r.req /\ s.qry = r.qry /\ s.glob = r.glob /\ s.cur = r.cur
    BY <1>1, <1>2, <1>6 DEF FrameType
  <2>2. \A k \in 1..Len(r.req) : r.req[k] # 0 => (Released(s, k) <=> Released(r, k))
    BY <1>2, <1>4, <1>6, <2>1 DEF Released
  <2>3. ASSUME NEW id \in Ids
        PROVE  (Owns(s, id) <=> Owns(r, id)) /\ (Spent(s, id) <=> Spent(r, id))
    <3>1. /\ ~Holder(r) /\ ~Holder(s) /\ ~Comparing(r) /\ ~Comparing(s)
          /\ ~Idling(r) /\ ~Idling(s)
      BY <1>2, <2>1 DEF Holder, Comparing, Idling
    <3>2. \A k \in 1..Len(r.req) : r.req[k] = id => r.req[k] # 0
      BY <1>4
    <3> QED
      BY <2>1, <2>2, <3>1, <3>2 DEF Owns, Spent
  <2>4. Placed(s) /\ Distinct(s)
    BY <1>1, <1>2, <2>1 DEF Placed, Distinct, Idling, Comparing, OrPcs, AndPcs, WalkPcs
  <2>5. \A m \in Nodes : \A id \in Ids : Owes(r, m, id) => Owes(s, m, id)
    BY <1>2, <2>1, <2>3 DEF Owes
  <2>6. PairStep(r, s)
    BY <1>1, <1>2, <2>3, <2>5, QuietStep
  <2> QED
    BY <2>4, <2>6 DEF PairFrame, r, s
<1>7. CASE /\ r.path <= Len(Paths[r.qry]) /\ r.req[r.path] # 0
           /\ s = [r EXCEPT !.pc = "rel", !.i = 1, !.rid = r.req[r.path]]
  <2>1. /\ s.pc = "rel" /\ s.phase = "end" /\ s.set = r.set /\ s.path = r.path
        /\ s.i = 1 /\ s.rid = r.req[r.path]
        /\ s.req = r.req /\ s.qry = r.qry /\ s.glob = r.glob /\ s.cur = r.cur
    <3>1. r.req[r.path] \in Ids \cup {-1, 0}
      BY <1>1, <1>4, <1>7 DEF FrameType
    <3> QED
      BY <1>1, <1>2, <1>7, <3>1 DEF FrameType
  <2>2. Alike(r, s)
    BY <1>2, <1>4, <2>1 DEF Alike, Released, Comparing, Holder, Idling, WalkPcs, AndPcs
  <2>3. Placed(s)
    BY <1>1, <1>2, <1>4, <1>7, <2>1 DEF Placed, Idling, OrPcs, AndPcs, WalkPcs
  <2> QED
    BY <1>1, <1>2, <2>1, <2>2, <2>3, PairQuiet DEF r, s
<1> QED
  BY <1>3, <1>5, <1>6, <1>7

-----------------------------------------------------------------------------
(* Evaluations that begin and end own nothing.                             *)

SamePairs ==
    /\ ids' = ids /\ tok' = tok
    /\ \A f \in Frames : \A id \in Ids :
          /\ Owns(frame'[f], id) <=> Owns(frame[f], id)
          /\ Spent(frame'[f], id) => Spent(frame[f], id)
          /\ \A n \in Nodes : Owes(frame[f], n, id) => Owes(frame'[f], n, id)

LEMMA PairSame ==
    ASSUME PairInv, SamePairs
    PROVE  PairIds' /\ PairSpent' /\ PairTokens'
<1>1. PairIds'
  BY DEF PairInv, PairIds, SamePairs
<1>2. PairSpent'
  BY DEF PairInv, PairSpent, SamePairs
<1>3. PairTokens'
  <2>1. SUFFICES ASSUME NEW n \in Nodes, NEW id \in tok'[n] \cap Ids
                 PROVE  \E f \in Frames : Owes(frame'[f], n, id)
    BY DEF PairTokens
  <2>2. PICK f \in Frames : Owes(frame[f], n, id)
    BY <2>1 DEF PairInv, PairTokens, SamePairs
  <2> QED
    BY <2>1, <2>2 DEF SamePairs
<1> QED
  BY <1>1, <1>2, <1>3

LEMMA FreshPair ==
    ASSUME NEW q \in Queries
    PROVE  PairFrame(Fresh(q)) /\ PairFrame([Fresh(q) EXCEPT !.pc = "off"])
<1> DEFINE z == Fresh(q)
           o == [z EXCEPT !.pc = "off"]
<1>1. /\ z.pc = "request" /\ z.phase = "and" /\ z.set = <<>> /\ z.path = 1
      /\ \A k \in 1..Len(z.req) : z.req[k] = 0
  BY LenPaths DEF Fresh
<1>2. /\ o.pc = "off" /\ o.phase = "and" /\ o.set = <<>> /\ o.path = 1
      /\ \A k \in 1..Len(o.req) : o.req[k] = 0
  BY LenPaths DEF Fresh
<1>3. 0 \notin Ids
  BY IdsAssumption DEF Ids
<1> HIDE DEF z, o
<1>4. PairFrame(z)
  BY <1>1, <1>3 DEF PairFrame, Placed, Distinct, Idling, Comparing, OrPcs, AndPcs, WalkPcs
<1>5. PairFrame(o)
  BY <1>2, <1>3 DEF PairFrame, Placed, Distinct, Idling, Comparing, OrPcs, AndPcs, WalkPcs
<1> QED
  BY <1>4, <1>5 DEF z, o

LEMMA OffPair == PairFrame(Off) /\ Off.pc = "off"
<1>1. PairFrame(Off)
  BY FreshPair, QueriesAssumption DEF Off
<1>2. Off.pc = "off"
  BY DEF Off, Fresh
<1> QED
  BY <1>1, <1>2

\* A frame goes into a predicate or comes back from it.
LEMMA AcrossNest ==
    ASSUME NEW r, NEW s, Good(r), PairFrame(r), r.pc \in WalkPcs, s.pc \in WalkPcs,
           s.glob = r.glob, s.cur = r.cur, s.phase = r.phase, s.path = r.path,
           s.set = r.set, s.req = r.req, s.qry = r.qry
    PROVE  /\ PairFrame(s)
           /\ \A id : /\ Owns(s, id) <=> Owns(r, id)
                      /\ Spent(s, id) <=> Spent(r, id)
                      /\ \A n : Owes(r, n, id) => Owes(s, n, id)
<1>1. r.phase \in {"and", "or"} /\ r.glob \in Ids
  BY DEF Good, FrameType, WalkPcs
<1>2. Alike(r, s)
  BY <1>1 DEF Alike, Released, Comparing, Holder, Idling, WalkPcs, AndPcs
<1>3. Placed(s)
  BY <1>1 DEF PairFrame, Placed, Idling, OrPcs, AndPcs, WalkPcs
<1>4. Distinct(s)
  BY <1>2, AlikeDistinct DEF PairFrame
<1>5. \A n, id : Owes(r, n, id) => Owes(s, n, id)
  BY <1>2, AlikeOwns DEF Owes, WalkPcs
<1> QED
  BY <1>2, <1>3, <1>4, <1>5, AlikeOwns DEF PairFrame

LEMMA PairCall ==
    ASSUME PairInv, NEW t \in Threads, NEW q \in TopQueries, Call(t, q)
    PROVE  PairFrames' /\ SamePairs
<1> DEFINE z == Fresh(q)
           f == <<t, 1>>
<1>1. f \in Frames /\ frame \in [Frames -> FrameType] /\ q \in Queries
  BY QueriesAssumption DEF Frames, PairInv, TypeInv, TypeOK
<1>2. frame' = [frame EXCEPT ![f] = z] /\ ids' = ids /\ tok' = tok /\ top[t] = 0
  BY DEF Call
<1>3. frame[f].pc = "off"
  BY <1>1, <1>2, FramesType DEF PairInv, Stack
<1>4. z.pc = "request"
  BY DEF Fresh
<1>5. PairFrame(z)
  BY <1>1, FreshPair
<1> HIDE DEF f, z
<1>6. \A id : ~Owns(z, id) /\ ~Spent(z, id) /\ ~Owns(frame[f], id)
  BY <1>3, <1>4, OffOwns
<1>7. \A n, id : ~Owes(frame[f], n, id)
  BY <1>6 DEF Owes
<1>8. frame'[f] = z /\ \A h \in Frames : h # f => frame'[h] = frame[h]
  BY <1>1, <1>2
<1>9. PairFrames'
  BY <1>5, <1>8 DEF PairInv, PairFrames
<1> QED
  BY <1>2, <1>6, <1>7, <1>8, <1>9 DEF SamePairs

LEMMA PairNest ==
    ASSUME PairInv, NEW f \in Frames, Nest(f)
    PROVE  PairFrames' /\ SamePairs
<1> DEFINE g == <<f[1], f[2] + 1>>
           r == frame[f]
           s == [r EXCEPT !.pc = "nested"]
           z == Fresh(ThisVisit(f).pred)
<1>1. /\ frame \in [Frames -> FrameType] /\ r \in FrameType /\ r.pc = "visit"
      /\ PairFrame(r) /\ Good(r) /\ TypeOK /\ TypeInv /\ ids' = ids /\ tok' = tok
  BY DEF PairInv, TypeInv, TypeOK, PairFrames, Nest, At
<1>2. /\ g \in Frames /\ g # f /\ top[f[1]] = f[2]
      /\ frame' = [frame EXCEPT ![f] = s, ![g] = z]
  BY <1>1, NestShape
<1>3. frame[g].pc = "off"
  BY <1>2, FramesType DEF PairInv, Stack
<1>4. z.pc = "request"
  BY DEF Fresh
<1>5. ThisVisit(f).pred \in Queries
  BY <1>1, ThisVisitType DEF Nest
<1>6. PairFrame(z)
  BY <1>5, FreshPair
<1>7. /\ s.pc = "nested" /\ s.cur = r.cur /\ s.phase = r.phase /\ s.path = r.path
      /\ s.glob = r.glob /\ s.set = r.set /\ s.req = r.req /\ s.qry = r.qry
  BY <1>1 DEF FrameType
<1>8. frame[f] = r
  OBVIOUS
<1> HIDE DEF g, s, z, r
<1>9. /\ PairFrame(s)
      /\ \A id : /\ Owns(s, id) <=> Owns(r, id)
                 /\ Spent(s, id) <=> Spent(r, id)
                 /\ \A n : Owes(r, n, id) => Owes(s, n, id)
  <2>1. r.pc \in WalkPcs /\ s.pc \in WalkPcs
    BY <1>1, <1>7 DEF WalkPcs
  <2> QED
    BY <1>1, <1>7, <2>1, AcrossNest
<1>10. \A id : ~Owns(z, id) /\ ~Spent(z, id) /\ ~Owns(frame[g], id)
  BY <1>3, <1>4, OffOwns
<1>11. \A n, id : ~Owes(frame[g], n, id)
  BY <1>10 DEF Owes
<1>12. /\ frame'[f] = s /\ frame'[g] = z
       /\ \A h \in Frames : h # f /\ h # g => frame'[h] = frame[h]
  BY <1>1, <1>2
<1>13. PairFrames'
  BY <1>6, <1>9, <1>12 DEF PairInv, PairFrames
<1>14. ASSUME NEW h \in Frames, NEW id \in Ids
       PROVE  /\ Owns(frame'[h], id) <=> Owns(frame[h], id)
              /\ Spent(frame'[h], id) => Spent(frame[h], id)
              /\ \A n \in Nodes : Owes(frame[h], n, id) => Owes(frame'[h], n, id)
  <2>1. CASE h = f
    BY <1>8, <1>9, <1>12, <2>1
  <2>2. CASE h = g
    BY <1>10, <1>11, <1>12, <2>2
  <2>3. CASE h # f /\ h # g
    BY <1>12, <2>3
  <2> QED
    BY <2>1, <2>2, <2>3
<1> QED
  BY <1>1, <1>13, <1>14 DEF SamePairs

LEMMA PairReturn ==
    ASSUME PairInv, NEW f \in Frames, Return(f)
    PROVE  PairFrames' /\ SamePairs
<1> DEFINE g == <<f[1], f[2] - 1>>
           r == frame[g]
<1>1. /\ frame \in [Frames -> FrameType] /\ TypeInv /\ Stack
      /\ ids' = ids /\ tok' = tok
  BY DEF PairInv, TypeInv, TypeOK, Return
<1>2. frame[f].pc = "done"
  BY <1>1, ReturnShape
<1>3. \A id : ~Owns(Off, id) /\ ~Spent(Off, id) /\ ~Owns(frame[f], id)
  BY <1>2, OffPair, OffOwns
<1>4. \A n, id : ~Owes(frame[f], n, id)
  BY <1>3 DEF Owes
<1>5. CASE f[2] = 1
  <2>1. frame' = [frame EXCEPT ![f] = Off]
    BY <1>1, <1>5, ReturnShape
  <2>2. frame'[f] = Off /\ \A h \in Frames : h # f => frame'[h] = frame[h]
    BY <1>1, <2>1
  <2>3. PairFrames'
    BY <2>2, OffPair DEF PairInv, PairFrames
  <2> QED
    BY <1>1, <1>3, <1>4, <2>2, <2>3 DEF SamePairs
<1>6. CASE f[2] # 1
  <2>1. g \in Frames /\ g # f /\ r.pc = "nested"
    BY <1>1, <1>6, ReturnShape
  <2>2. PICK s : /\ frame' = [frame EXCEPT ![f] = Off, ![g] = s]
                 /\ \/ s = [r EXCEPT !.pc = "add"]
                    \/ s = [r EXCEPT !.pc = "visit", !.i = @ + 1]
    BY <1>1, <1>6, ReturnShape
  <2>3. PairFrame(r) /\ r \in FrameType /\ Good(r) /\ frame[g] = r
    BY <1>1, <2>1 DEF PairInv, PairFrames, TypeInv
  <2> HIDE DEF r, g
  <2>4. /\ s.pc \in {"add", "visit"} /\ s.cur = r.cur /\ s.phase = r.phase
        /\ s.glob = r.glob /\ s.set = r.set /\ s.path = r.path /\ s.req = r.req
        /\ s.qry = r.qry
    <3>1. CASE s = [r EXCEPT !.pc = "add"]
      BY <2>3, <3>1 DEF FrameType
    <3>2. CASE s = [r EXCEPT !.pc = "visit", !.i = @ + 1]
      BY <2>3, <3>2 DEF FrameType
    <3> QED
      BY <2>2, <3>1, <3>2
  <2>5. /\ PairFrame(s)
        /\ \A id : /\ Owns(s, id) <=> Owns(r, id)
                   /\ Spent(s, id) <=> Spent(r, id)
                   /\ \A n : Owes(r, n, id) => Owes(s, n, id)
    <3>1. r.pc \in WalkPcs /\ s.pc \in WalkPcs
      BY <2>1, <2>4 DEF WalkPcs
    <3> QED
      BY <2>3, <2>4, <3>1, AcrossNest
  <2>6. /\ frame'[f] = Off /\ frame'[g] = s
        /\ \A h \in Frames : h # f /\ h # g => frame'[h] = frame[h]
    BY <1>1, <2>1, <2>2
  <2>7. PairFrames'
    BY <2>5, <2>6, OffPair DEF PairInv, PairFrames
  <2>8. ASSUME NEW h \in Frames, NEW id \in Ids
        PROVE  /\ Owns(frame'[h], id) <=> Owns(frame[h], id)
               /\ Spent(frame'[h], id) => Spent(frame[h], id)
               /\ \A n \in Nodes : Owes(frame[h], n, id) => Owes(frame'[h], n, id)
    <3>1. CASE h = f
      BY <1>3, <1>4, <2>6, <3>1
    <3>2. CASE h = g
      BY <2>3, <2>5, <2>6, <3>2
    <3>3. CASE h # f /\ h # g
      BY <2>6, <3>3
    <3> QED
      BY <3>1, <3>2, <3>3
  <2> QED
    BY <1>1, <2>7, <2>8 DEF SamePairs
<1> QED
  BY <1>5, <1>6

-----------------------------------------------------------------------------
(* The theorems about ids and tokens.                                      *)

LEMMA PairLocalStep ==
    ASSUME OneThread, OnePair, PairInv, NEW f \in Frames, LocalStep(f)
    PROVE  PairFrame(frame'[f]) /\ PairStep(frame[f], frame'[f])
  BY PairRequestGlob, PairAndHead, PairRequestAnd, PairAddToSet, PairEndOfWalk,
     PairProbeCur, PairProbePrev, PairEndOfProbe, PairWipeCur, PairWipePrev,
     PairEndOfWipe, PairOrHead, PairOrProbe, PairOrAdd, PairOrDel, PairEndOfOr,
     PairReleaseToken, PairReleaseId, PairEndHead DEF LocalStep

LEMMA PairInit == Init => PairFrames /\ PairIds /\ PairSpent /\ PairTokens
<1> SUFFICES ASSUME Init
             PROVE  PairFrames /\ PairIds /\ PairSpent /\ PairTokens
  OBVIOUS
<1>1. \A f \in Frames : frame[f] = Off
  BY DEF Init
<1>2. \A id : ~Owns(Off, id) /\ ~Spent(Off, id)
  BY OffPair, OffOwns
<1>3. (\A id \in Ids : ids[id] = 0) /\ (\A n \in Nodes : tok[n] = {})
  BY DEF Init
<1> QED
  BY <1>1, <1>2, <1>3, OffPair DEF PairFrames, PairIds, PairSpent, PairTokens

\* Ids, tokens and activation records agree in every reachable state when one
\* thread queries and no xpath has more than one 'and'.
THEOREM PairInvariant ==
    ASSUME OneThread, OnePair
    PROVE  Spec => []PairInv
<1>1. Init => PairInv
  BY TypeInit, StackInit, PairInit DEF PairInv
<1>2. PairInv /\ [Next]_vars => PairInv'
  <2> SUFFICES ASSUME PairInv, [Next]_vars
               PROVE  PairInv'
    OBVIOUS
  <2>0. TypeInv /\ TypeOK /\ Stack
    BY DEF PairInv, TypeInv
  <2>1. CASE UNCHANGED vars
    BY <2>1 DEF PairInv, TypeInv, TypeOK, Stack, PairFrames, PairIds, PairSpent,
                PairTokens, vars
  <2>2. ASSUME NEW t \in Threads, NEW q \in TopQueries, Call(t, q)
        PROVE  PairInv'
    <3>1. TypeInv' /\ Stack'
      BY <2>0, <2>2, TypeCall, StackCall
    <3>2. PairFrames' /\ PairIds' /\ PairSpent' /\ PairTokens'
      BY <2>2, PairCall, PairSame
    <3> QED
      BY <3>1, <3>2 DEF PairInv
  <2>3. ASSUME NEW f \in Frames, Exec(f)
        PROVE  PairInv'
    <3>1. CASE LocalStep(f)
      <4>1. TypeInv' /\ Stack'
        BY <2>0, <3>1, TypeLocalStep, StackLocal
      <4>2. /\ frame' = [frame EXCEPT ![f] = frame'[f]] /\ top[f[1]] = f[2]
            /\ PairFrame(frame'[f]) /\ PairStep(frame[f], frame'[f])
        BY <2>0, <3>1, LocalFrame, PairLocalStep
      <4>3. PairFrames' /\ PairIds' /\ PairSpent' /\ PairTokens'
        BY <4>2, PairLocal
      <4> QED
        BY <4>1, <4>3 DEF PairInv
    <3>2. CASE Nest(f)
      <4>1. TypeInv' /\ Stack'
        BY <2>0, <3>2, TypeNest, StackNest
      <4>2. PairFrames' /\ PairIds' /\ PairSpent' /\ PairTokens'
        BY <3>2, PairNest, PairSame
      <4> QED
        BY <4>1, <4>2 DEF PairInv
    <3>3. CASE Return(f)
      <4>1. TypeInv' /\ Stack'
        BY <2>0, <3>3, TypeReturn, StackReturn
      <4>2. PairFrames' /\ PairIds' /\ PairSpent' /\ PairTokens'
        BY <3>3, PairReturn, PairSame
      <4> QED
        BY <4>1, <4>2 DEF PairInv
    <3> QED
      BY <2>3, <3>1, <3>2, <3>3, ExecCases
  <2> QED
    BY <2>1, <2>2, <2>3 DEF Next
<1> QED
  BY <1>1, <1>2, PTL DEF Spec

\* Every token in the tree carries an id that is in use, when one thread
\* queries and no xpath has more than one 'and': roxml_compute_and and
\* roxml_compute_or unmark what they drop and move, and the second
\* roxml_release_id of an id finds nothing left of it.
THEOREM PairsLeaveNoToken ==
    ASSUME OneThread, OnePair
    PROVE  Spec => []NoStaleToken
<1>1. PairInv => NoStaleToken
  BY DEF PairInv, PairTokens, PairIds, Owes, NoStaleToken
<1> QED
  BY <1>1, PairInvariant, PTL

\* Between two calls of roxml_xpath no id is in use and no token of an id is
\* on a node, when one thread queries and no xpath has more than one 'and'.
THEOREM PairsLeaveTreeClean ==
    ASSUME OneThread, OnePair
    PROVE  Spec => []QuiescentClean
<1>1. ASSUME PairInv PROVE QuiescentClean
  <2>1. SUFFICES ASSUME \A t \in Threads : top[t] = 0
                 PROVE  /\ \A id \in Ids : ids[id] = 0
                        /\ \A n \in Nodes : tok[n] \cap Ids = {}
    BY DEF QuiescentClean
  <2>2. ASSUME NEW f \in Frames, NEW id \in Ids PROVE ~Owns(frame[f], id)
    <3>1. frame[f].pc = "off"
      BY <1>1, <2>1, FramesType DEF PairInv, Stack
    <3> QED
      BY <3>1, OffOwns
  <2>3. ids \in [Ids -> {0, 1}]
    BY <1>1 DEF PairInv, TypeInv, TypeOK
  <2>4. ASSUME NEW id \in Ids PROVE ids[id] = 0
    BY <1>1, <2>2, <2>3 DEF PairInv, PairIds
  <2>5. ASSUME NEW n \in Nodes PROVE tok[n] \cap Ids = {}
    BY <1>1, <2>2 DEF PairInv, PairTokens, Owes
  <2> QED
    BY <2>4, <2>5
<1> QED
  BY <1>1, PairInvariant, PTL

-----------------------------------------------------------------------------
(* The answers.                                                            *)

\* The tokens id mark the nodes that path k of the 'and', walked or under
\* way, has selected so far.
Gathers(r, k, id) ==
    /\ r.phase = "and" /\ r.pc \notin {"wipe1", "wipe2"}
    /\ \/ k = r.path /\ r.pc \in WalkPcs \cup AndPcs /\ id = r.cur
       \/ /\ k + 1 = r.path /\ ~Idling(r) /\ id = r.req[k]
          /\ r.path <= Len(r.req) /\ Paths[r.qry][r.path].rel = "and"

\* They are on no other nodes and, unless a request was refused, on all.
Collected(r, ref, tk) ==
    \A k \in 1..Len(r.req) : \A id \in Ids \cup {-1, 0} : Gathers(r, k, id) =>
        /\ \A n \in Nodes : id \in tk[n] => n \in Hits(r.qry, k)
        /\ ~ref =>
             /\ id \in Ids
             /\ \A j \in 1..Len(Visits(r.qry, k)) :
                  LET n == Visits(r.qry, k)[j].node IN
                  /\ k = r.path /\ r.pc \in WalkPcs => j < r.i
                  /\ Selected(Visits(r.qry, k)[j])
                  => n \in NodesOf(r.set) /\ id \in tk[n]

\* The part of the set that has been compared has nodes of each path or none.
Compared(r, ref, tk) ==
    /\ r.pc \in {"probe1", "probe2"} =>
         /\ r.has1 => Hits(r.qry, r.path) # {}
         /\ r.has2 => Hits(r.qry, r.path - 1) # {}
         /\ \A k \in 1..Len(r.set) :
              /\ ~r.has1 /\ (k < r.i \/ (k = r.i /\ r.pc = "probe2")) =>
                     r.cur \notin tk[r.set[k]]
              /\ ~r.has2 /\ k < r.i => r.req[r.path - 1] \notin tk[r.set[k]]
    /\ r.pc \in {"wipe1", "wipe2"} /\ ~ref =>
         Hits(r.qry, r.path) = {} \/ Hits(r.qry, r.path - 1) = {}

\* The paths of the 'and' have been compared, if there are any.
Settled(r) ==
    r.phase = "and" =>
        \A k \in 1..Len(Paths[r.qry]) : Paths[r.qry][k].rel = "and" => k < r.path

\* The pair that ends at path p holds.
Holds(q, p) ==
    Paths[q][p].rel = "and" /\ Hits(q, p) # {} /\ Hits(q, p - 1) # {}

\* What the set says of the xpath as far as it has been walked.
Answers(r, ref) ==
    /\ r.pc = "add" => Selected(Visits(r.qry, r.path)[r.i])
    /\ (Settled(r) \/ Idling(r)) /\ r.set # <<>> => Truth[r.qry]
    /\ ~ref =>
         /\ r.pc = "done" => r.phase = "end"
         /\ Settled(r) => \A p \in 1..Len(Paths[r.qry]) : Holds(r.qry, p) => r.set # <<>>
         /\ \A p \in 1..Len(Paths[r.qry]) : \A k \in 1..Len(Visits(r.qry, p)) :
              /\ ~PathInAnd(r.qry, p) /\ Walked(r, p, k)
              /\ Selected(Visits(r.qry, p)[k])
              => Visits(r.qry, p)[k].node \in NodesOf(r.set)

\* The answer of an xpath without 'and' is a set.
IsSet(r, tk) ==
    OrOnly(r.qry) =>
        /\ NodesOf(r.set) \subseteq Answer(r.qry)
        /\ NoRepetition(r.set)
        /\ Holder(r) /\ r.pc # "rel" => \A n \in NodesOf(r.set) : r.glob \in tk[n]

PairAnswering(r, ref, tk) ==
    Collected(r, ref, tk) /\ Compared(r, ref, tk) /\ Answers(r, ref) /\ IsSet(r, tk)

PairAnswered == \A f \in Frames : PairAnswering(frame[f], refused[f[1]], tok)

PairAnswerInv == PairInv /\ PairAnswered /\ Waiting
-----------------------------------------------------------------------------
(* The meaning of an xpath with a pair.                                    *)

LEMMA GroupIs ==
    ASSUME OnePair, NEW q \in Queries, NEW p \in 1..Len(Paths[q]), Paths[q][p].rel = "or"
    PROVE  /\ ~PathInAnd(q, p) => Group(q, p) = {p}
           /\ PathInAnd(q, p) => /\ p + 1 \in 1..Len(Paths[q])
                                 /\ Paths[q][p + 1].rel = "and"
                                 /\ Group(q, p) = {p, p + 1}
<1>1. Len(Paths[q]) \in Nat
  BY LenPaths
<1>2. p \in Group(q, p)
  BY <1>1 DEF Group
<1>3. ASSUME NEW r \in Group(q, p), r # p
      PROVE  /\ p + 1 \in 1..Len(Paths[q]) /\ r \in 1..Len(Paths[q])
             /\ Paths[q][p + 1].rel = "and" /\ Paths[q][r].rel = "and"
  <2>1. r \in p..Len(Paths[q]) /\ \A s \in (p + 1)..r : Paths[q][s].rel = "and"
    BY DEF Group
  <2>2. p + 1 \in (p + 1)..r /\ r \in (p + 1)..r
    BY <1>1, <1>3, <2>1
  <2> QED
    BY <1>1, <1>3, <2>1, <2>2
<1>4. ASSUME ~PathInAnd(q, p)
      PROVE  Group(q, p) = {p}
  BY <1>1, <1>2, <1>3, <1>4 DEF PathInAnd
<1>5. ASSUME PathInAnd(q, p)
      PROVE  /\ p + 1 \in 1..Len(Paths[q]) /\ Paths[q][p + 1].rel = "and"
             /\ Group(q, p) = {p, p + 1}
  <2>1. p + 1 \in 1..Len(Paths[q]) /\ Paths[q][p + 1].rel = "and"
    BY <1>1, <1>5 DEF PathInAnd
  <2>2. p + 1 \in Group(q, p)
    BY <1>1, <2>1 DEF Group
  <2>3. \A r \in Group(q, p) : r # p => r = p + 1
    BY <1>3, <2>1 DEF OnePair
  <2> QED
    BY <1>2, <2>1, <2>2, <2>3
<1> QED
  BY <1>4, <1>5

\* It holds when a path outside the pair selects something or both of the pair
\* do.
LEMMA PairTruthIs ==
    ASSUME OnePair, NEW q \in Queries
    PROVE  Truth[q] <=> \/ \E p \in 1..Len(Paths[q]) : ~PathInAnd(q, p) /\ Hits(q, p) # {}
                        \/ \E p \in 1..Len(Paths[q]) : Holds(q, p)
<1>1. Truth[q] <=> \E p \in 1..Len(Paths[q]) :
                      /\ Paths[q][p].rel = "or"
                      /\ \A r \in Group(q, p) : Hits(q, r) # {}
  BY TruthAssumption
<1>2. \A p \in 1..Len(Paths[q]) : Paths[q][p].rel # "and" => Paths[q][p].rel = "or"
  <2>1. Paths[q] \in Seq(Path)
    BY QueriesAssumption
  <2>2. \A k \in 1..Len(Paths[q]) : Paths[q][k] \in Path
    BY <2>1
  <2> QED
    BY <2>2 DEF Path
<1>3. ASSUME NEW p \in 1..Len(Paths[q]), ~PathInAnd(q, p), Hits(q, p) # {}
      PROVE  Truth[q]
  BY <1>1, <1>2, <1>3, GroupIs DEF PathInAnd
<1>4. ASSUME NEW p \in 1..Len(Paths[q]), Holds(q, p)
      PROVE  Truth[q]
  <2>1. /\ p - 1 \in 1..Len(Paths[q]) /\ Paths[q][p - 1].rel = "or"
        /\ PathInAnd(q, p - 1)
    BY <1>4, PairIs DEF Holds
  <2>2. Group(q, p - 1) = {p - 1, p}
    BY <2>1, GroupIs
  <2> QED
    BY <1>1, <1>4, <2>1, <2>2 DEF Holds
<1>5. ASSUME NEW p \in 1..Len(Paths[q]), Paths[q][p].rel = "or",
             \A r \in Group(q, p) : Hits(q, r) # {}
      PROVE  \/ ~PathInAnd(q, p) /\ Hits(q, p) # {}
             \/ p + 1 \in 1..Len(Paths[q]) /\ Holds(q, p + 1)
  <2>1. CASE ~PathInAnd(q, p)
    BY <1>5, <2>1, GroupIs
  <2>2. CASE PathInAnd(q, p)
    <3>1. /\ p + 1 \in 1..Len(Paths[q]) /\ Paths[q][p + 1].rel = "and"
          /\ Group(q, p) = {p, p + 1}
      BY <1>5, <2>2, GroupIs
    <3>2. p + 1 - 1 = p
      OBVIOUS
    <3> QED
      BY <1>5, <3>1, <3>2 DEF Holds
  <2> QED
    BY <2>1, <2>2
<1> QED
  BY <1>1, <1>3, <1>4, <1>5

LEMMA HitsIs ==
    ASSUME NEW q \in Queries, NEW p \in 1..Len(Paths[q]), NEW n
    PROVE  n \in Hits(q, p) <=> \E k \in 1..Len(Visits(q, p)) :
                  Selected(Visits(q, p)[k]) /\ Visits(q, p)[k].node = n
  BY DEF Hits

-----------------------------------------------------------------------------
(* The answer of one frame.                                                *)

LEMMA PairAnswerFacts ==
    ASSUME PairInv, PairAnswered, NEW f \in Frames
    PROVE  /\ refused \in [Threads -> BOOLEAN] /\ refused[f[1]] \in BOOLEAN
           /\ PairAnswering(frame[f], refused[f[1]], tok)
           /\ frame[f].qry \in Queries /\ Len(Paths[frame[f].qry]) \in Nat \ {0}
           /\ Len(frame[f].req) = Len(Paths[frame[f].qry])
           /\ frame[f].i \in Nat /\ frame[f].path \in Nat
           /\ frame[f].set \in Seq(Nodes) /\ frame[f].req \in Seq(Ids \cup {-1, 0})
<1>1. refused \in [Threads -> BOOLEAN] /\ refused[f[1]] \in BOOLEAN
  BY FramesType DEF PairInv, TypeInv, TypeOK
<1>2. PairAnswering(frame[f], refused[f[1]], tok)
  BY DEF PairAnswered
<1>3. frame[f] \in FrameType /\ Good(frame[f])
  BY PairFacts
<1>4. /\ frame[f].qry \in Queries /\ frame[f].i \in Nat /\ frame[f].path \in Nat
      /\ frame[f].set \in Seq(Nodes) /\ frame[f].req \in Seq(Ids \cup {-1, 0})
  BY <1>3 DEF FrameType
<1>5. Len(frame[f].req) = Len(Paths[frame[f].qry])
  BY <1>3 DEF Good
<1> QED
  BY <1>1, <1>2, <1>4, <1>5, LenPaths

\* The answer of frame f after a step of its own.
Moves(f) ==
    /\ frame'[f].qry = frame[f].qry
    /\ PairAnswering(frame'[f], refused'[f[1]], tok')

\* A step after the loop over the AND paths that walks past nothing.
LEMMA LateAnswer ==
    ASSUME NEW r, NEW s, NEW ref \in BOOLEAN, NEW tk, NEW tk2,
           PairAnswering(r, ref, tk), Settled(r),
           s.phase # "and", s.pc \notin AndPcs \cup {"add"},
           s.set = r.set, s.qry = r.qry, s.pc = "done" => s.phase = "end",
           \A p \in 1..Len(Paths[r.qry]) : \A k \in 1..Len(Visits(r.qry, p)) :
               ~PathInAnd(r.qry, p) /\ Walked(s, p, k) => Walked(r, p, k),
           OrOnly(r.qry) /\ Holder(s) /\ s.pc # "rel" =>
               /\ Holder(r) /\ r.pc # "rel" /\ s.glob = r.glob
               /\ \A n : r.glob \in tk[n] => r.glob \in tk2[n]
    PROVE  PairAnswering(s, ref, tk2)
<1>1. Collected(s, ref, tk2)
  BY DEF Collected, Gathers
<1>2. Compared(s, ref, tk2)
  BY DEF Compared, AndPcs
<1>3. Answers(s, ref)
  BY DEF PairAnswering, Answers, Settled
<1>4. IsSet(s, tk2)
  BY DEF PairAnswering, IsSet
<1> QED
  BY <1>1, <1>2, <1>3, <1>4 DEF PairAnswering

\* A step that leaves a path of the 'and' to be walked or compared.
LEMMA Unsettled ==
    ASSUME NEW s, NEW ref, NEW tk, s.phase = "and",
           s.pc \notin {"add", "off", "request", "done"},
           NEW p \in 1..Len(Paths[s.qry]), Paths[s.qry][p].rel = "and", ~(p < s.path),
           Collected(s, ref, tk), Compared(s, ref, tk)
    PROVE  PairAnswering(s, ref, tk)
<1>1. ~Settled(s) /\ ~Idling(s)
  BY DEF Settled, Idling
<1>2. \A j, k : ~Walked(s, j, k)
  BY DEF Walked
<1>3. ~OrOnly(s.qry)
  BY DEF OrOnly
<1> QED
  BY <1>1, <1>2, <1>3 DEF PairAnswering, Answers, IsSet

\* The step after the pair has been compared.
LEMMA Settles ==
    ASSUME OnePair, NEW s, NEW ref, NEW tk, s.qry \in Queries,
           s.phase = "and", s.pc = "head", Len(s.req) = Len(Paths[s.qry]),
           NEW p \in 1..Len(Paths[s.qry]), Paths[s.qry][p].rel = "and", s.path = p + 1,
           s.set # <<>> => Truth[s.qry],
           ~ref /\ Holds(s.qry, p) => s.set # <<>>
    PROVE  PairAnswering(s, ref, tk)
<1>1. Compared(s, ref, tk)
  BY DEF Compared
<1>2. Collected(s, ref, tk)
  <2>1. ASSUME NEW k \in 1..Len(s.req), NEW id, Gathers(s, k, id)
        PROVE  FALSE
    <3>1. k + 1 = s.path /\ Paths[s.qry][s.path].rel = "and" /\ s.path <= Len(s.req)
      BY <2>1 DEF Gathers, WalkPcs, AndPcs
    <3>2. s.path \in 1..Len(Paths[s.qry]) /\ s.path # p
      BY <3>1, LenPaths
    <3> QED
      BY <3>1, <3>2 DEF OnePair
  <2> QED
    BY <2>1 DEF Collected
<1>3. \A j, k : ~Walked(s, j, k)
  BY DEF Walked
<1>4. \A j \in 1..Len(Paths[s.qry]) : Holds(s.qry, j) => j = p
  BY DEF Holds, OnePair
<1>5. Answers(s, ref)
  BY <1>3, <1>4 DEF Answers
<1>6. ~OrOnly(s.qry)
  BY DEF OrOnly
<1> QED
  BY <1>1, <1>2, <1>5, <1>6 DEF PairAnswering, IsSet

\* A step that collects nothing new.
LEMMA StillCollected ==
    ASSUME NEW r, NEW s, NEW ref, NEW tk, Collected(r, ref, tk),
           s.set = r.set, s.qry = r.qry, Len(s.req) = Len(r.req),
           \A k \in 1..Len(r.req) : \A id \in Ids \cup {-1, 0} :
               Gathers(s, k, id) => Gathers(r, k, id),
           \A k \in 1..Len(r.req) : \A j \in 1..Len(Visits(r.qry, k)) :
               (k = s.path /\ s.pc \in WalkPcs => j < s.i) =>
                   (k = r.path /\ r.pc \in WalkPcs => j < r.i)
    PROVE  Collected(s, ref, tk)
<1>1. SUFFICES ASSUME NEW k \in 1..Len(r.req), NEW id \in Ids \cup {-1, 0},
                      Gathers(s, k, id)
               PROVE  /\ \A n \in Nodes : id \in tk[n] => n \in Hits(r.qry, k)
                      /\ ~ref =>
                           /\ id \in Ids
                           /\ \A j \in 1..Len(Visits(r.qry, k)) :
                                LET n == Visits(r.qry, k)[j].node IN
                                /\ k = s.path /\ s.pc \in WalkPcs => j < s.i
                                /\ Selected(Visits(r.qry, k)[j])
                                => n \in NodesOf(r.set) /\ id \in tk[n]
  BY DEF Collected
<1>2. Gathers(r, k, id)
  BY <1>1
<1> QED
  BY <1>2 DEF Collected
-----------------------------------------------------------------------------
(* The steps of one frame and its answer.                                  *)

LEMMA AnswerRequestGlob ==
    ASSUME PairInv, PairAnswered, NEW f \in Frames, RequestGlob(f)
    PROVE  Moves(f)
<1> DEFINE r == frame[f]
           s == frame'[f]
           ref == refused'[f[1]]
<1>1. /\ frame \in [Frames -> FrameType] /\ r \in FrameType /\ Placed(r)
      /\ refused \in [Threads -> BOOLEAN] /\ f[1] \in Threads
  BY PairFacts, PairAnswerFacts, FramesType
<1>2. r.pc = "request"
  BY DEF RequestGlob, At
<1>3. PICK id \in Ids \cup {-1} :
         /\ RequestId(f, id)
         /\ frame' = [frame EXCEPT ![f].glob = id,
                                   ![f].pc = IF id < 0 THEN "done" ELSE "head"]
  BY DEF RequestGlob
<1>4. s = [r EXCEPT !.glob = id, !.pc = IF id < 0 THEN "done" ELSE "head"]
  BY <1>1, <1>3
<1>5. id < 0 => ref = TRUE
  BY <1>1, <1>3, IdsAssumption DEF RequestId, Free, Ids
<1> HIDE DEF r, s, ref
<1>6. /\ s.pc = IF id < 0 THEN "done" ELSE "head"
      /\ s.phase = "and" /\ s.set = <<>> /\ s.path = 1 /\ s.qry = r.qry
  BY <1>1, <1>2, <1>4 DEF FrameType, Placed
<1>7. Collected(s, ref, tok')
  BY <1>6 DEF Collected, Gathers, WalkPcs, AndPcs
<1>8. Compared(s, ref, tok')
  BY <1>6 DEF Compared
<1>9. \A p, k : ~Walked(s, p, k)
  BY <1>6 DEF Walked
<1>10. r.qry \in Queries
  BY <1>1 DEF FrameType
<1>11. IsSet(s, tok') /\ NodesOf(s.set) = {}
  BY <1>6 DEF IsSet, NodesOf, NoRepetition
<1>12. ~ref => \A p \in 1..Len(Paths[r.qry]) : Holds(r.qry, p) => ~Settled(s)
  <2>1. SUFFICES ASSUME NEW p \in 1..Len(Paths[r.qry]), Holds(r.qry, p)
                 PROVE  ~Settled(s)
    OBVIOUS
  <2>2. ~(p < 1)
    OBVIOUS
  <2> QED
    BY <1>6, <2>1, <2>2 DEF Settled, Holds
<1>13. Answers(s, ref)
  BY <1>5, <1>6, <1>9, <1>12 DEF Answers
<1> QED
  BY <1>6, <1>7, <1>8, <1>11, <1>13 DEF Moves, PairAnswering, r, s, ref

LEMMA AnswerAndHead ==
    ASSUME OnePair, PairInv, PairAnswered, NEW f \in Frames, AndHead(f)
    PROVE  Moves(f)
<1> DEFINE r == frame[f]
           s == frame'[f]
           ref == refused[f[1]]
<1>1. /\ frame \in [Frames -> FrameType] /\ r \in FrameType /\ Good(r)
      /\ PairAnswering(r, ref, tok) /\ ref \in BOOLEAN /\ r.qry \in Queries
      /\ Len(r.req) = Len(Paths[r.qry]) /\ Len(Paths[r.qry]) \in Nat /\ r.path \in Nat
  BY PairFacts, PairAnswerFacts
<1>2. r.pc = "head" /\ r.phase = "and" /\ refused' = refused /\ tok' = tok
  BY DEF AndHead, At, InPhase
<1>3. \/ s = [r EXCEPT !.phase = "or", !.path = 1] /\ ~InPaths(f)
      \/ s = [r EXCEPT !.path = @ + 1] /\ ~InAnd(f) /\ InPaths(f)
  BY <1>1 DEF AndHead
<1>4. /\ InPaths(f) <=> r.path <= Len(Paths[r.qry])
      /\ InAnd(f) <=> PathInAnd(r.qry, r.path)
  BY DEF InPaths, NbPaths, InAnd, ThisPath, PathInAnd
<1>r. refused'[f[1]] = ref
  BY <1>2
<1> HIDE DEF r, s, ref
<1>5. CASE s = [r EXCEPT !.phase = "or", !.path = 1] /\ ~InPaths(f)
  <2>1. /\ s.pc = "head" /\ s.phase = "or" /\ s.path = 1 /\ s.glob = r.glob
        /\ s.set = r.set /\ s.qry = r.qry
    BY <1>1, <1>2, <1>5 DEF FrameType
  <2>2. \A k \in 1..Len(Paths[r.qry]) : k < r.path
    BY <1>1, <1>4, <1>5
  <2>3. Settled(r)
    BY <2>2 DEF Settled
  <2>4. \A p \in 1..Len(Paths[r.qry]) : \A k : ~Walked(s, p, k)
    BY <2>1 DEF Walked, WalkPcs
  <2>5. Holder(s) => Holder(r)
    BY <1>2, <2>1 DEF Holder
  <2>6. PairAnswering(s, ref, tok')
    BY <1>1, <1>2, <2>1, <2>3, <2>4, <2>5, LateAnswer DEF AndPcs
  <2> QED
    BY <1>r, <2>1, <2>6 DEF Moves, r, s
<1>6. CASE s = [r EXCEPT !.path = @ + 1] /\ ~InAnd(f) /\ InPaths(f)
  <2>1. /\ s.pc = "head" /\ s.phase = "and" /\ s.path = r.path + 1 /\ s.glob = r.glob
        /\ s.set = r.set /\ s.qry = r.qry /\ s.req = r.req
    BY <1>1, <1>2, <1>6 DEF FrameType
  <2>2. r.path \in 1..Len(Paths[r.qry]) /\ ~PathInAnd(r.qry, r.path)
    BY <1>1, <1>2, <1>4, <1>6 DEF Good
  <2>3. Collected(s, ref, tok)
    <3>1. ASSUME NEW k \in 1..Len(s.req), NEW id, Gathers(s, k, id)
          PROVE  FALSE
      <4>1. k + 1 = s.path /\ Paths[r.qry][s.path].rel = "and" /\ s.path <= Len(r.req)
        BY <2>1, <3>1 DEF Gathers, WalkPcs, AndPcs
      <4> QED
        BY <1>1, <2>1, <2>2, <4>1 DEF PathInAnd
    <3> QED
      BY <3>1 DEF Collected
  <2>4. Compared(s, ref, tok)
    BY <2>1 DEF Compared
  <2>5. \A p, k : ~Walked(s, p, k)
    BY <2>1 DEF Walked
  <2>6. Settled(s) => Settled(r)
    <3>1. \A k \in 1..Len(Paths[r.qry]) :
              Paths[r.qry][k].rel = "and" /\ k < r.path + 1 => k < r.path
      BY <1>1, <2>2 DEF PathInAnd
    <3> QED
      BY <1>2, <2>1, <3>1 DEF Settled
  <2>7. Answers(s, ref)
    BY <1>1, <2>1, <2>5, <2>6 DEF PairAnswering, Answers, Idling
  <2>8. IsSet(s, tok)
    <3>1. Holder(s) => Holder(r)
      BY <1>2, <2>1 DEF Holder
    <3> QED
      BY <1>1, <1>2, <2>1, <3>1 DEF PairAnswering, IsSet
  <2> QED
    BY <1>r, <1>2, <2>1, <2>3, <2>4, <2>7, <2>8 DEF Moves, PairAnswering, r, s
<1> QED
  BY <1>3, <1>5, <1>6

\* An id that is free is on no node.
LEMMA FreeClean ==
    ASSUME PairInv, NEW id \in Ids, ids[id] = 0, NEW n \in Nodes
    PROVE  id \notin tok[n]
  BY DEF PairInv, PairTokens, PairIds, Owes

\* The pair that a frame collects is not compared yet.
LEMMA PairAhead ==
    ASSUME OnePair, NEW q \in Queries, NEW p \in 1..Len(Paths[q]), PathInAnd(q, p)
    PROVE  \E k \in 1..Len(Paths[q]) : Paths[q][k].rel = "and" /\ ~(k < p)
<1>1. CASE Paths[q][p].rel = "and"
  BY <1>1
<1>2. CASE p < Len(Paths[q]) /\ Paths[q][p + 1].rel = "and"
  BY <1>2, LenPaths
<1> QED
  BY <1>1, <1>2 DEF PathInAnd

LEMMA AnswerRequestAnd ==
    ASSUME OnePair, PairInv, PairAnswered, NEW f \in Frames, RequestAnd(f)
    PROVE  Moves(f)
<1> DEFINE r == frame[f]
           s == frame'[f]
           ref == refused[f[1]]
           ref2 == refused'[f[1]]
<1>1. /\ frame \in [Frames -> FrameType] /\ r \in FrameType /\ Good(r)
      /\ PairAnswering(r, ref, tok) /\ ref \in BOOLEAN /\ r.qry \in Queries
      /\ Len(r.req) = Len(Paths[r.qry]) /\ Len(Paths[r.qry]) \in Nat /\ r.path \in Nat
      /\ refused \in [Threads -> BOOLEAN] /\ f[1] \in Threads
      /\ tok \in [Nodes -> SUBSET (Ids \cup {255})]
  BY PairFacts, PairAnswerFacts, FramesType
<1>2. /\ r.pc = "head" /\ r.phase = "and" /\ tok' = tok
      /\ r.path <= Len(Paths[r.qry]) /\ PathInAnd(r.qry, r.path)
  BY DEF RequestAnd, At, InPhase, InPaths, NbPaths, InAnd, ThisPath, PathInAnd
<1>3. PICK id \in Ids \cup {-1} :
         /\ RequestId(f, id)
         /\ frame' = [frame EXCEPT ![f].cur = id, ![f].pc = "visit", ![f].i = 1]
  BY DEF RequestAnd
<1>4. s = [r EXCEPT !.cur = id, !.pc = "visit", !.i = 1]
  BY <1>1, <1>3
<1>n. -1 \notin Ids
  BY IdsAssumption DEF Ids
<1>5. /\ id \in Ids => ids[id] = 0 /\ ref2 = ref
      /\ id \notin Ids => ref2 = TRUE /\ id = -1
      /\ ref => ref2
  <2>1. CASE id \in Free /\ UNCHANGED refused
    BY <1>n, <2>1 DEF Free
  <2>2. CASE id = -1 /\ refused' = [refused EXCEPT ![f[1]] = TRUE]
    <3>1. ref2 = TRUE
      BY <1>1, <2>2
    <3> QED
      BY <1>n, <2>2, <3>1
  <2> QED
    BY <1>3, <2>1, <2>2 DEF RequestId
<1> HIDE DEF r, s, ref, ref2
<1>6. /\ s.cur = id /\ s.pc = "visit" /\ s.i = 1
      /\ s.phase = "and" /\ s.set = r.set /\ s.path = r.path
      /\ s.req = r.req /\ s.qry = r.qry
  BY <1>1, <1>2, <1>4 DEF FrameType
<1>7. \A n \in Nodes : id \notin tok[n]
  <2>1. CASE id \in Ids
    BY <1>5, <2>1, FreeClean
  <2>2. CASE id = -1
    BY <1>1, <1>n, <2>2
  <2> QED
    BY <2>1, <2>2
<1>8. Collected(s, ref2, tok)
  <2>1. SUFFICES ASSUME NEW k \in 1..Len(r.req), NEW j \in Ids \cup {-1, 0},
                        Gathers(s, k, j)
                 PROVE  /\ \A n \in Nodes : j \in tok[n] => n \in Hits(r.qry, k)
                        /\ ~ref2 =>
                             /\ j \in Ids
                             /\ \A l \in 1..Len(Visits(r.qry, k)) :
                                  LET n == Visits(r.qry, k)[l].node IN
                                  /\ k = s.path /\ s.pc \in WalkPcs => l < s.i
                                  /\ Selected(Visits(r.qry, k)[l])
                                  => n \in NodesOf(r.set) /\ j \in tok[n]
    BY <1>6 DEF Collected
  <2>2. CASE k = s.path /\ j = s.cur
    <3>1. \A l \in 1..Len(Visits(r.qry, k)) : ~(l < 1)
      OBVIOUS
    <3> QED
      BY <1>5, <1>6, <1>7, <2>2, <3>1 DEF WalkPcs
  <2>3. CASE ~(k = s.path /\ j = s.cur)
    <3>1. Gathers(r, k, j) /\ k # r.path
      BY <1>1, <1>2, <1>6, <2>1, <2>3 DEF Gathers, Idling
    <3> QED
      BY <1>1, <1>5, <3>1 DEF PairAnswering, Collected
  <2> QED
    BY <2>2, <2>3
<1>9. Compared(s, ref2, tok)
  BY <1>6 DEF Compared
<1>10. r.path \in 1..Len(Paths[r.qry])
  BY <1>1, <1>2 DEF Good
<1>11. PICK k \in 1..Len(Paths[r.qry]) : Paths[r.qry][k].rel = "and" /\ ~(k < r.path)
  BY <1>1, <1>2, <1>10, PairAhead
<1>12. PairAnswering(s, ref2, tok)
  BY <1>6, <1>8, <1>9, <1>11, Unsettled
<1> QED
  BY <1>2, <1>6, <1>12 DEF Moves, r, s, ref2
\* A node that has a token of a frame is in its set.
LEMMA MarkedInSet ==
    ASSUME PairInv, NEW f \in Frames, NEW id \in Ids, Owns(frame[f], id),
           NEW n \in Nodes, id \in tok[n]
    PROVE  n \in NodesOf(frame[f].set)
<1>1. PICK g \in Frames : Owes(frame[g], n, id)
  BY DEF PairInv, PairTokens
<1>2. g = f
  BY <1>1 DEF PairInv, PairIds, Owes
<1> QED
  BY <1>1, <1>2 DEF Owes, NodesOf

\* What adding to the set does, whatever the phase.
LEMMA Added ==
    ASSUME PairInv, PairAnswered, NEW f \in Frames, AddToSet(f)
    PROVE  LET r == frame[f]
               s == frame'[f]
               v == Visits(r.qry, r.path)[r.i]
               id == IF r.phase = "and" THEN r.cur ELSE r.glob
           IN /\ r.pc \in {"visit", "add"} /\ r.path \in 1..Len(Paths[r.qry])
              /\ r.i \in 1..Len(Visits(r.qry, r.path))
              /\ v.node \in Nodes /\ Selected(v) /\ v.node \in Hits(r.qry, r.path)
              /\ s.pc = "visit" /\ s.i = r.i + 1 /\ s.phase = r.phase
              /\ s.path = r.path /\ s.qry = r.qry /\ s.req = r.req /\ s.cur = r.cur
              /\ s.glob = r.glob
              /\ \/ s.set = r.set /\ tok' = tok /\ id \in tok[v.node]
                 \/ /\ s.set = Append(r.set, v.node) /\ id \notin tok[v.node]
                    /\ tok' = [tok EXCEPT ![v.node] = @ \cup {UChar(id)}]
<1> DEFINE r == frame[f]
           s == frame'[f]
           v == Visits(r.qry, r.path)[r.i]
           id == IF r.phase = "and" THEN r.cur ELSE r.glob
<1>1. /\ frame \in [Frames -> FrameType] /\ r \in FrameType /\ Good(r) /\ TypeInv
      /\ PairAnswering(r, refused[f[1]], tok) /\ r.qry \in Queries
  BY PairFacts, PairAnswerFacts DEF PairInv
<1>2. r.pc \in {"visit", "add"}
  BY DEF AddToSet, At
<1>3. r.path \in 1..Len(Paths[r.qry])
  BY <1>1, <1>2 DEF Good, WalkPcs
<1>4. r.i \in 1..Len(Visits(r.qry, r.path)) /\ ThisVisit(f) = v /\ v.node \in Nodes
  BY <1>1, ThisVisitType DEF AddToSet, At
<1>5. Selected(v)
  BY <1>1, <1>4 DEF AddToSet, At, PairAnswering, Answers, Selected
<1>6. v.node \in Hits(r.qry, r.path)
  BY <1>1, <1>3, <1>4, <1>5, HitsIs
<1>7. WalkId(f) = id
  BY DEF WalkId
<1>8. \/ /\ s = [r EXCEPT !.pc = "visit", !.i = @ + 1]
         /\ tok' = tok /\ id \in tok[v.node]
      \/ /\ s = [r EXCEPT !.pc = "visit", !.i = @ + 1, !.set = Append(@, v.node)]
         /\ id \notin tok[v.node] /\ tok' = [tok EXCEPT ![v.node] = @ \cup {UChar(id)}]
  BY <1>1, <1>4, <1>7 DEF AddToSet, InPool, AddToPool
<1> HIDE DEF r, s, v, id
<1>9. CASE /\ s = [r EXCEPT !.pc = "visit", !.i = @ + 1]
           /\ tok' = tok /\ id \in tok[v.node]
  <2>1. /\ s.pc = "visit" /\ s.i = r.i + 1 /\ s.phase = r.phase
        /\ s.path = r.path /\ s.qry = r.qry /\ s.req = r.req /\ s.cur = r.cur
        /\ s.glob = r.glob /\ s.set = r.set
    BY <1>1, <1>9 DEF FrameType
  <2> QED
    BY <1>2, <1>3, <1>4, <1>5, <1>6, <1>9, <2>1 DEF r, s, v, id
<1>10. CASE /\ s = [r EXCEPT !.pc = "visit", !.i = @ + 1, !.set = Append(@, v.node)]
            /\ id \notin tok[v.node] /\ tok' = [tok EXCEPT ![v.node] = @ \cup {UChar(id)}]
  <2>1. /\ s.pc = "visit" /\ s.i = r.i + 1 /\ s.phase = r.phase
        /\ s.path = r.path /\ s.qry = r.qry /\ s.req = r.req /\ s.cur = r.cur
        /\ s.glob = r.glob /\ s.set = Append(r.set, v.node)
    BY <1>1, <1>10 DEF FrameType
  <2> QED
    BY <1>2, <1>3, <1>4, <1>5, <1>6, <1>10, <2>1 DEF r, s, v, id
<1> QED
  BY <1>8, <1>9, <1>10

LEMMA NewToken ==
    ASSUME TypeInv, NEW n \in Nodes, NEW id \in Ids \cup {-1},
           tok' = [tok EXCEPT ![n] = @ \cup {UChar(id)}]
    PROVE  \A m \in Nodes : \A j \in Ids \cup {-1, 0} :
               j \in tok'[m] <=> j \in tok[m] \/ (m = n /\ j = id /\ id \in Ids)
<1>1. tok \in [Nodes -> SUBSET (Ids \cup {255})]
  BY DEF TypeInv, TypeOK
<1>2. \A m \in Nodes : tok'[m] = IF m = n THEN tok[m] \cup {UChar(id)} ELSE tok[m]
  BY <1>1
<1>3. \A j \in Ids \cup {-1, 0} : j = UChar(id) <=> j = id /\ id \in Ids
  <2>1. CASE id \in Ids
    BY <2>1, UCharSame
  <2>2. CASE id = -1
    BY <2>2, IdsAssumption DEF UChar, Ids
  <2> QED
    BY <2>1, <2>2
<1> QED
  BY <1>2, <1>3

LEMMA AnswerAddAnd ==
    ASSUME OnePair, PairInv, PairAnswered, NEW f \in Frames, AddToSet(f),
           frame[f].phase = "and"
    PROVE  Moves(f)
<1> DEFINE r == frame[f]
           s == frame'[f]
           ref == refused[f[1]]
           n == Visits(r.qry, r.path)[r.i].node
<1>1. /\ r \in FrameType /\ Good(r) /\ Distinct(r) /\ TypeInv
      /\ PairAnswering(r, ref, tok) /\ r.qry \in Queries
      /\ Len(r.req) = Len(Paths[r.qry]) /\ r.set \in Seq(Nodes)
      /\ refused' = refused
  BY PairFacts, PairAnswerFacts DEF PairInv, AddToSet
<1>2. /\ r.pc \in {"visit", "add"} /\ r.path \in 1..Len(Paths[r.qry])
      /\ r.i \in 1..Len(Visits(r.qry, r.path))
      /\ n \in Nodes /\ n \in Hits(r.qry, r.path)
      /\ s.pc = "visit" /\ s.i = r.i + 1 /\ s.phase = r.phase
      /\ s.path = r.path /\ s.qry = r.qry /\ s.req = r.req /\ s.cur = r.cur
      /\ \/ s.set = r.set /\ tok' = tok /\ r.cur \in tok[n]
         \/ /\ s.set = Append(r.set, n) /\ r.cur \notin tok[n]
            /\ tok' = [tok EXCEPT ![n] = @ \cup {UChar(r.cur)}]
  BY Added
<1>3. \A id \in Ids : \A m \in Nodes : Owns(r, id) /\ id \in tok[m] => m \in NodesOf(r.set)
  BY MarkedInSet
<1>r. refused'[f[1]] = ref
  BY <1>1
<1>n. n = Visits(r.qry, r.path)[r.i].node
  OBVIOUS
<1> HIDE DEF r, s, ref, n
<1>p. r.phase = "and"
  BY DEF r
<1>4. r.cur \in Ids \cup {-1} /\ PathInAnd(r.qry, r.path)
  BY <1>1, <1>2, <1>p DEF Good, FrameType, WalkPcs
<1>5. r.cur \in Ids => Owns(r, r.cur) /\ \A k \in 1..Len(r.req) : r.cur # r.req[k]
  BY <1>1, <1>2, <1>p DEF Owns, Distinct, Comparing, WalkPcs
<1>6. \A m \in Nodes : \A j \in Ids \cup {-1, 0} :
          /\ j \in tok[m] => j \in tok'[m]
          /\ j \in tok'[m] => j \in tok[m] \/ (m = n /\ j = r.cur /\ r.cur \in Ids)
  BY <1>1, <1>2, <1>4, NewToken
<1>7. /\ NodesOf(r.set) \subseteq NodesOf(s.set)
      /\ r.cur \in Ids => n \in NodesOf(s.set) /\ r.cur \in tok'[n]
  <2>1. CASE s.set = r.set /\ tok' = tok /\ r.cur \in tok[n]
    BY <1>2, <1>3, <1>5, <2>1
  <2>2. CASE /\ s.set = Append(r.set, n) /\ r.cur \notin tok[n]
             /\ tok' = [tok EXCEPT ![n] = @ \cup {UChar(r.cur)}]
    <3>1. NodesOf(s.set) = NodesOf(r.set) \cup {n}
      BY <1>1, <1>2, <2>2, AppendNode
    <3>2. r.cur \in Ids => r.cur \in tok'[n]
      BY <1>1, <1>2, <1>4, <2>2, NewToken
    <3> QED
      BY <3>1, <3>2
  <2> QED
    BY <1>2, <2>1, <2>2
<1>8. Collected(s, ref, tok')
  <2>1. SUFFICES ASSUME NEW k \in 1..Len(r.req), NEW j \in Ids \cup {-1, 0},
                        Gathers(s, k, j)
                 PROVE  /\ \A m \in Nodes : j \in tok'[m] => m \in Hits(r.qry, k)
                        /\ ~ref =>
                             /\ j \in Ids
                             /\ \A l \in 1..Len(Visits(r.qry, k)) :
                                  LET m == Visits(r.qry, k)[l].node IN
                                  /\ k = s.path /\ s.pc \in WalkPcs => l < s.i
                                  /\ Selected(Visits(r.qry, k)[l])
                                  => m \in NodesOf(s.set) /\ j \in tok'[m]
    BY <1>2 DEF Collected
  <2>2. Gathers(r, k, j) /\ (k = r.path \/ k + 1 = r.path)
    BY <1>2, <1>p, <2>1 DEF Gathers, WalkPcs, Idling
  <2>3. (k = r.path => j = r.cur) /\ (k + 1 = r.path => j = r.req[k])
    BY <1>2, <2>2 DEF Gathers
  <2>4. /\ \A m \in Nodes : j \in tok[m] => m \in Hits(r.qry, k)
        /\ ~ref =>
             /\ j \in Ids
             /\ \A l \in 1..Len(Visits(r.qry, k)) :
                  /\ k = r.path => l < r.i
                  /\ Selected(Visits(r.qry, k)[l])
                  => /\ Visits(r.qry, k)[l].node \in NodesOf(r.set)
                     /\ j \in tok[Visits(r.qry, k)[l].node]
    BY <1>1, <1>2, <2>2 DEF PairAnswering, Collected, WalkPcs
  <2>5. \A m \in Nodes : j \in tok'[m] => m \in Hits(r.qry, k)
    <3>1. j = r.cur /\ r.cur \in Ids => k = r.path
      BY <1>5, <2>2, <2>3
    <3> QED
      BY <1>2, <1>6, <2>4, <3>1
  <2>6. ASSUME ~ref, NEW l \in 1..Len(Visits(r.qry, k)),
               k = r.path => l < r.i + 1, Selected(Visits(r.qry, k)[l])
        PROVE  /\ Visits(r.qry, k)[l].node \in NodesOf(s.set)
               /\ j \in tok'[Visits(r.qry, k)[l].node]
    <3>1. Visits(r.qry, k)[l].node \in Nodes
      BY <1>1, VisitType
    <3>2. CASE k = r.path => l < r.i
      BY <1>6, <1>7, <2>4, <2>6, <3>1, <3>2
    <3>3. CASE k = r.path /\ l = r.i
      BY <1>7, <1>n, <2>3, <2>4, <2>6, <3>3
    <3>4. l \in Nat /\ r.i \in Nat
      BY <1>1, <1>2, LenVisits
    <3> QED
      BY <2>6, <3>2, <3>3, <3>4
  <2> QED
    BY <1>2, <2>4, <2>5, <2>6 DEF WalkPcs
<1>9. Compared(s, ref, tok')
  BY <1>2 DEF Compared
<1>10. PICK k \in 1..Len(Paths[r.qry]) : Paths[r.qry][k].rel = "and" /\ ~(k < r.path)
  BY <1>1, <1>2, <1>4, PairAhead
<1>11. PairAnswering(s, ref, tok')
  BY <1>2, <1>p, <1>8, <1>9, <1>10, Unsettled
<1> QED
  BY <1>r, <1>2, <1>11 DEF Moves, r, s
LEMMA AnswerAddOr ==
    ASSUME OnePair, PairInv, PairAnswered, NEW f \in Frames, AddToSet(f),
           frame[f].phase # "and"
    PROVE  Moves(f)
<1> DEFINE r == frame[f]
           s == frame'[f]
           ref == refused[f[1]]
           n == Visits(r.qry, r.path)[r.i].node
<1>1. /\ r \in FrameType /\ Good(r) /\ Placed(r) /\ TypeInv
      /\ PairAnswering(r, ref, tok) /\ r.qry \in Queries
      /\ Len(r.req) = Len(Paths[r.qry]) /\ r.set \in Seq(Nodes)
      /\ refused' = refused
  BY PairFacts, PairAnswerFacts DEF PairInv, AddToSet
<1>2. /\ r.pc \in {"visit", "add"} /\ r.path \in 1..Len(Paths[r.qry])
      /\ r.i \in 1..Len(Visits(r.qry, r.path))
      /\ n \in Nodes /\ n \in Hits(r.qry, r.path)
      /\ s.pc = "visit" /\ s.i = r.i + 1 /\ s.phase = r.phase
      /\ s.path = r.path /\ s.qry = r.qry /\ s.glob = r.glob
      /\ \/ s.set = r.set /\ tok' = tok /\ r.glob \in tok[n]
         \/ /\ s.set = Append(r.set, n) /\ r.glob \notin tok[n]
            /\ tok' = [tok EXCEPT ![n] = @ \cup {UChar(r.glob)}]
  BY Added
<1>3. \A id \in Ids : \A m \in Nodes : Owns(r, id) /\ id \in tok[m] => m \in NodesOf(r.set)
  BY MarkedInSet
<1>r. refused'[f[1]] = ref
  BY <1>1
<1>n. n = Visits(r.qry, r.path)[r.i].node
  OBVIOUS
<1> HIDE DEF r, s, ref, n
<1>p. r.phase = "or" /\ ~PathInAnd(r.qry, r.path) /\ r.glob \in Ids
  <2>1. r.phase # "and"
    BY DEF r
  <2> QED
    BY <1>1, <1>2, <2>1 DEF Good, Placed, FrameType, WalkPcs
<1>4. Holder(r) /\ Owns(r, r.glob)
  BY <1>2, <1>p DEF Holder, Owns
<1>5. \A m \in Nodes : r.glob \in tok[m] => r.glob \in tok'[m]
  BY <1>1, <1>2, <1>p, NewToken
<1>6. /\ NodesOf(s.set) = NodesOf(r.set) \cup {n} /\ r.glob \in tok'[n]
      /\ NoRepetition(r.set) /\ n \notin NodesOf(r.set) => NoRepetition(s.set)
      /\ r.glob \in tok[n] => s.set = r.set
  <2>1. CASE s.set = r.set /\ tok' = tok /\ r.glob \in tok[n]
    BY <1>2, <1>3, <1>4, <1>p, <2>1
  <2>2. CASE /\ s.set = Append(r.set, n) /\ r.glob \notin tok[n]
             /\ tok' = [tok EXCEPT ![n] = @ \cup {UChar(r.glob)}]
    <3>1. /\ NodesOf(s.set) = NodesOf(r.set) \cup {n}
          /\ NoRepetition(r.set) /\ n \notin NodesOf(r.set) => NoRepetition(s.set)
      BY <1>1, <1>2, <2>2, AppendNode
    <3>2. r.glob \in tok'[n]
      BY <1>1, <1>2, <1>p, <2>2, NewToken
    <3> QED
      BY <2>2, <3>1, <3>2
  <2> QED
    BY <1>2, <2>1, <2>2
<1>7. s.set # <<>> /\ (r.set # <<>> => s.set # <<>>)
  <2>1. NodesOf(<<>>) = {}
    BY DEF NodesOf
  <2> QED
    BY <1>6, <2>1
<1>8. Collected(s, ref, tok') /\ Compared(s, ref, tok')
  BY <1>2, <1>p DEF Collected, Compared, Gathers
<1>9. Truth[r.qry]
  BY <1>1, <1>2, <1>p, PairTruthIs
<1>10. ASSUME ~ref, NEW p \in 1..Len(Paths[r.qry]), NEW k \in 1..Len(Visits(r.qry, p)),
              ~PathInAnd(r.qry, p), Walked(s, p, k), Selected(Visits(r.qry, p)[k])
       PROVE  Visits(r.qry, p)[k].node \in NodesOf(s.set)
  <2>1. CASE Walked(r, p, k)
    BY <1>1, <1>6, <1>10, <2>1 DEF PairAnswering, Answers
  <2>2. CASE ~Walked(r, p, k)
    <3>1. p = r.path /\ k < r.i + 1 /\ ~(k < r.i)
      BY <1>2, <1>p, <1>10, <2>2 DEF Walked, WalkPcs
    <3>2. k \in Nat /\ r.i \in Nat
      BY <1>1, <1>2, LenVisits
    <3>3. k = r.i
      BY <3>1, <3>2
    <3> QED
      BY <1>6, <1>n, <3>1, <3>3
  <2> QED
    BY <2>1, <2>2
<1>11. Settled(r) /\ Settled(s)
  BY <1>2, <1>p DEF Settled
<1>12. Answers(s, ref)
  BY <1>1, <1>2, <1>7, <1>9, <1>10, <1>11 DEF PairAnswering, Answers
<1>13. IsSet(s, tok')
  <2>1. SUFFICES ASSUME OrOnly(r.qry)
                 PROVE  /\ NodesOf(s.set) \subseteq Answer(r.qry)
                        /\ NoRepetition(s.set)
                        /\ \A m \in NodesOf(s.set) : r.glob \in tok'[m]
    BY <1>2 DEF IsSet
  <2>2. /\ NodesOf(r.set) \subseteq Answer(r.qry) /\ NoRepetition(r.set)
        /\ \A m \in NodesOf(r.set) : r.glob \in tok[m]
    BY <1>1, <1>2, <1>4, <2>1 DEF PairAnswering, IsSet
  <2>3. n \in Answer(r.qry)
    BY <1>2 DEF Answer
  <2>4. NodesOf(r.set) \subseteq Nodes
    BY <1>1 DEF NodesOf
  <2>5. NoRepetition(s.set)
    BY <1>2, <1>6, <2>2
  <2> QED
    BY <1>5, <1>6, <2>2, <2>3, <2>4, <2>5
<1> QED
  BY <1>r, <1>2, <1>8, <1>12, <1>13 DEF Moves, PairAnswering, r, s

LEMMA AnswerAddToSet ==
    ASSUME OnePair, PairInv, PairAnswered, NEW f \in Frames, AddToSet(f)
    PROVE  Moves(f)
  BY AnswerAddAnd, AnswerAddOr

LEMMA AnswerEndOfWalk ==
    ASSUME OnePair, PairInv, PairAnswered, NEW f \in Frames, EndOfWalk(f)
    PROVE  Moves(f)
<1> DEFINE r == frame[f]
           s == frame'[f]
           ref == refused[f[1]]
           q == [r.req EXCEPT ![r.path] = r.cur]
<1>1. /\ frame \in [Frames -> FrameType] /\ r \in FrameType /\ Good(r) /\ Placed(r)
      /\ PairAnswering(r, ref, tok) /\ ref \in BOOLEAN /\ r.qry \in Queries
      /\ Len(r.req) = Len(Paths[r.qry]) /\ Len(Paths[r.qry]) \in Nat /\ r.i \in Nat
      /\ r.req \in Seq(Ids \cup {-1, 0})
  BY PairFacts, PairAnswerFacts
<1>2. r.pc = "visit" /\ tok' = tok /\ refused' = refused
  BY DEF EndOfWalk, At
<1>q. q = [r.req EXCEPT ![r.path] = r.cur]
  OBVIOUS
<1> HIDE DEF q
<1>3. \/ /\ r.phase = "and" /\ Paths[r.qry][r.path].rel = "and"
         /\ s = [r EXCEPT !.pc = "probe1", !.i = 1, !.has1 = FALSE, !.has2 = FALSE]
      \/ /\ r.phase = "and" /\ Paths[r.qry][r.path].rel # "and"
         /\ s = [r EXCEPT !.pc = "head", !.path = @ + 1, !.req = q]
      \/ r.phase # "and" /\ s = [r EXCEPT !.pc = "head", !.path = @ + 1]
  <2>1. CASE r.phase = "and" /\ ThisPath(f).rel = "and"
    <3>1. frame' = [frame EXCEPT ![f].pc = "probe1", ![f].i = 1,
                                 ![f].has1 = FALSE, ![f].has2 = FALSE]
      BY <2>1 DEF EndOfWalk
    <3> QED
      BY <1>1, <2>1, <3>1 DEF ThisPath
  <2>2. CASE r.phase = "and" /\ ThisPath(f).rel # "and"
    <3>1. frame' = [frame EXCEPT ![f].pc = "head", ![f].path = @ + 1,
                                 ![f].req[frame[f].path] = frame[f].cur]
      BY <2>2 DEF EndOfWalk
    <3> QED
      BY <1>1, <1>q, <2>2, <3>1 DEF ThisPath
  <2>3. CASE r.phase # "and"
    <3>1. frame' = [frame EXCEPT ![f].pc = "head", ![f].path = @ + 1]
      BY <2>3 DEF EndOfWalk
    <3> QED
      BY <1>1, <2>3, <3>1
  <2> QED
    BY <2>1, <2>2, <2>3
<1>4. ~(r.i <= Len(Visits(r.qry, r.path)))
  BY DEF EndOfWalk, InVisits, ThisPath, Visits
<1>r. refused'[f[1]] = ref
  BY <1>2
<1> HIDE DEF r, s, ref
<1>5. r.phase \in {"and", "or"} /\ r.path \in 1..Len(r.req)
  BY <1>1, <1>2 DEF FrameType, Good, WalkPcs
<1>6. \A k \in 1..Len(Visits(r.qry, r.path)) : k < r.i
  <2>1. Len(Visits(r.qry, r.path)) \in Nat
    BY <1>1, <1>5, LenVisits
  <2> QED
    BY <1>1, <1>4, <2>1
<1>7. CASE /\ r.phase = "and" /\ Paths[r.qry][r.path].rel = "and"
           /\ s = [r EXCEPT !.pc = "probe1", !.i = 1, !.has1 = FALSE, !.has2 = FALSE]
  <2>1. /\ s.pc = "probe1" /\ s.i = 1 /\ s.cur = r.cur /\ ~s.has1 /\ ~s.has2
        /\ s.phase = r.phase /\ s.path = r.path /\ s.req = r.req /\ s.qry = r.qry
        /\ s.set = r.set
    BY <1>1, <1>7 DEF FrameType
  <2>2. ASSUME NEW k \in 1..Len(r.req), NEW id, Gathers(s, k, id)
        PROVE  Gathers(r, k, id)
    BY <1>2, <1>7, <2>1, <2>2 DEF Gathers, WalkPcs, Idling
  <2>3. Collected(r, ref, tok)
    BY <1>1 DEF PairAnswering
  <2>4. Collected(s, ref, tok)
    BY <1>6, <2>1, <2>2, <2>3, StillCollected
  <2>5. Compared(s, ref, tok)
    <3>1. \A k \in 1..Len(s.set) : ~(k < 1)
      OBVIOUS
    <3> QED
      BY <2>1, <3>1 DEF Compared
  <2>6. PairAnswering(s, ref, tok)
    <3>1. ~(r.path < r.path)
      BY <1>5
    <3> QED
      BY <1>1, <1>5, <1>7, <2>1, <2>4, <2>5, <3>1, Unsettled
  <2> QED
    BY <1>r, <1>2, <2>1, <2>6 DEF Moves, r, s
<1>8. CASE /\ r.phase = "and" /\ Paths[r.qry][r.path].rel # "and"
           /\ s = [r EXCEPT !.pc = "head", !.path = @ + 1, !.req = q]
  <2>1. /\ s.pc = "head" /\ s.phase = r.phase
        /\ s.path = r.path + 1 /\ s.req = q /\ s.qry = r.qry /\ s.set = r.set
    BY <1>1, <1>8 DEF FrameType
  <2>2. Len(q) = Len(r.req) /\ q[r.path] = r.cur
    BY <1>1, <1>5, <1>q
  <2>3. ASSUME NEW k \in 1..Len(r.req), NEW id, Gathers(s, k, id)
        PROVE  Gathers(r, k, id)
    <3>1. k + 1 = s.path /\ id = q[k]
      BY <2>1, <2>3 DEF Gathers, WalkPcs, AndPcs
    <3>2. k = r.path
      BY <1>5, <2>1, <3>1
    <3> QED
      BY <1>2, <1>8, <2>2, <3>1, <3>2 DEF Gathers, WalkPcs
  <2>4. Collected(r, ref, tok)
    BY <1>1 DEF PairAnswering
  <2>5. Collected(s, ref, tok)
    BY <1>6, <2>1, <2>2, <2>3, <2>4, StillCollected
  <2>6. Compared(s, ref, tok)
    BY <2>1 DEF Compared
  <2>7. /\ r.path + 1 \in 1..Len(Paths[r.qry])
        /\ Paths[r.qry][r.path + 1].rel = "and"
    <3>1. PathInAnd(r.qry, r.path)
      BY <1>1, <1>2, <1>8 DEF Good, WalkPcs
    <3> QED
      BY <1>1, <1>5, <1>8, <3>1 DEF PathInAnd
  <2>8. PairAnswering(s, ref, tok)
    <3>1. ~(r.path + 1 < r.path + 1)
      BY <1>5
    <3> QED
      BY <1>8, <2>1, <2>5, <2>6, <2>7, <3>1, Unsettled
  <2> QED
    BY <1>r, <1>2, <2>1, <2>8 DEF Moves, r, s
<1>9. CASE r.phase # "and" /\ s = [r EXCEPT !.pc = "head", !.path = @ + 1]
  <2>1. /\ s.pc = "head" /\ s.glob = r.glob /\ s.phase = "or" /\ r.phase = "or"
        /\ s.path = r.path + 1 /\ s.qry = r.qry /\ s.set = r.set
    BY <1>1, <1>5, <1>9 DEF FrameType
  <2>2. ASSUME NEW p \in 1..Len(Paths[r.qry]), NEW k \in 1..Len(Visits(r.qry, p)),
               Walked(s, p, k)
        PROVE  Walked(r, p, k)
    <3>1. p < r.path + 1
      BY <2>1, <2>2 DEF Walked, WalkPcs
    <3>2. p < r.path \/ (p = r.path /\ k < r.i)
      BY <1>5, <1>6, <3>1
    <3> QED
      BY <1>2, <2>1, <3>2 DEF Walked, WalkPcs
  <2>3. Settled(r)
    BY <1>9 DEF Settled
  <2>4. Holder(s) => Holder(r)
    BY <1>2, <2>1 DEF Holder
  <2>5. PairAnswering(s, ref, tok')
    BY <1>1, <1>2, <2>1, <2>2, <2>3, <2>4, LateAnswer DEF AndPcs
  <2> QED
    BY <1>r, <2>1, <2>5 DEF Moves, r, s
<1> QED
  BY <1>3, <1>7, <1>8, <1>9
\* What is known of a frame that compares a pair.
LEMMA ComparingFacts ==
    ASSUME OnePair, PairInv, PairAnswered, NEW f \in Frames, frame[f].pc \in AndPcs
    PROVE  LET r == frame[f]
               ref == refused[f[1]]
               a == r.path - 1
           IN /\ r.phase = "and" /\ r.path \in 1..Len(Paths[r.qry])
              /\ Paths[r.qry][r.path].rel = "and" /\ a \in 1..Len(Paths[r.qry])
              /\ ~(r.path < r.path)
              /\ Collected(r, ref, tok) /\ Compared(r, ref, tok)
              /\ r.pc \notin {"wipe1", "wipe2"} =>
                   /\ \A n \in Nodes : r.cur \in tok[n] => n \in Hits(r.qry, r.path)
                   /\ \A n \in Nodes : r.req[a] \in tok[n] => n \in Hits(r.qry, a)
                   /\ ~ref => /\ \A n \in Hits(r.qry, r.path) :
                                    n \in NodesOf(r.set) /\ r.cur \in tok[n]
                              /\ \A n \in Hits(r.qry, a) :
                                    n \in NodesOf(r.set) /\ r.req[a] \in tok[n]
<1> DEFINE r == frame[f]
           ref == refused[f[1]]
           a == r.path - 1
<1>1. /\ r \in FrameType /\ Good(r) /\ Placed(r) /\ PairAnswering(r, ref, tok)
      /\ r.qry \in Queries /\ Len(r.req) = Len(Paths[r.qry])
      /\ r.req \in Seq(Ids \cup {-1, 0})
  BY PairFacts, PairAnswerFacts
<1>2. r.pc \in AndPcs
  OBVIOUS
<1> HIDE DEF r, ref
<1>3. /\ r.phase = "and" /\ r.path \in 1..Len(Paths[r.qry])
      /\ Paths[r.qry][r.path].rel = "and"
  BY <1>1, <1>2 DEF Good, Placed, AndPcs, FrameType
<1>4. a \in 1..Len(Paths[r.qry]) /\ a + 1 = r.path /\ a # r.path /\ ~(r.path < r.path)
  <2>1. a \in 1..Len(Paths[r.qry])
    BY <1>1, <1>3, PairIs
  <2>2. r.path \in Int
    BY <1>3
  <2> QED
    BY <2>1, <2>2
<1> HIDE DEF a
<1>5. ASSUME r.pc \notin {"wipe1", "wipe2"}
      PROVE  Gathers(r, r.path, r.cur) /\ Gathers(r, a, r.req[a])
  BY <1>1, <1>2, <1>3, <1>4, <1>5 DEF Gathers, AndPcs, Idling
<1>6. r.cur \in Ids \cup {-1, 0} /\ r.req[a] \in Ids \cup {-1, 0}
  BY <1>1, <1>4 DEF FrameType
<1>7. r.pc \notin WalkPcs
  BY <1>2 DEF WalkPcs, AndPcs
<1>8. ASSUME NEW k \in 1..Len(Paths[r.qry]), NEW id \in Ids \cup {-1, 0}, Gathers(r, k, id)
      PROVE  /\ \A n \in Nodes : id \in tok[n] => n \in Hits(r.qry, k)
             /\ ~ref => \A n \in Hits(r.qry, k) : n \in NodesOf(r.set) /\ id \in tok[n]
  <2>1. \A n \in Nodes : id \in tok[n] => n \in Hits(r.qry, k)
    BY <1>1, <1>8 DEF PairAnswering, Collected
  <2>2. ASSUME ~ref, NEW n \in Hits(r.qry, k)
        PROVE  n \in NodesOf(r.set) /\ id \in tok[n]
    <3>1. PICK j \in 1..Len(Visits(r.qry, k)) :
             Selected(Visits(r.qry, k)[j]) /\ Visits(r.qry, k)[j].node = n
      BY <1>1, <2>2, HitsIs
    <3> QED
      BY <1>1, <1>7, <1>8, <2>2, <3>1 DEF PairAnswering, Collected
  <2> QED
    BY <2>1, <2>2
<1>9. Collected(r, ref, tok) /\ Compared(r, ref, tok)
  BY <1>1 DEF PairAnswering
<1>10. r.pc \notin {"wipe1", "wipe2"} =>
         /\ \A n \in Nodes : r.cur \in tok[n] => n \in Hits(r.qry, r.path)
         /\ \A n \in Nodes : r.req[a] \in tok[n] => n \in Hits(r.qry, a)
         /\ ~ref => /\ \A n \in Hits(r.qry, r.path) :
                          n \in NodesOf(r.set) /\ r.cur \in tok[n]
                    /\ \A n \in Hits(r.qry, a) :
                          n \in NodesOf(r.set) /\ r.req[a] \in tok[n]
  BY <1>3, <1>4, <1>5, <1>6, <1>8
<1> QED
  BY <1>3, <1>4, <1>9, <1>10 DEF r, ref, a

\* Between two steps of the comparison the same tokens mark the same nodes.
LEMMA CompareOn ==
    ASSUME NEW r, NEW s, NEW ref, NEW tk, Collected(r, ref, tk), r.phase = "and",
           r.pc \in AndPcs, r.pc \notin {"wipe1", "wipe2"}, s.pc \in AndPcs,
           s.phase = "and", s.path = r.path, s.qry = r.qry, s.req = r.req,
           s.cur = r.cur, s.set = r.set
    PROVE  Collected(s, ref, tk)
<1>1. ASSUME NEW k \in 1..Len(r.req), NEW id, Gathers(s, k, id)
      PROVE  Gathers(r, k, id)
  BY <1>1 DEF Gathers, WalkPcs, AndPcs, Idling
<1>2. r.pc \notin WalkPcs
  BY DEF WalkPcs, AndPcs
<1> QED
  BY <1>1, <1>2, StillCollected

LEMMA AnswerProbeCur ==
    ASSUME OnePair, PairInv, PairAnswered, NEW f \in Frames, ProbeCur(f)
    PROVE  Moves(f)
<1> DEFINE r == frame[f]
           s == frame'[f]
           ref == refused[f[1]]
           b == r.has1 \/ InPool(ThisNode(f), r.cur)
<1>1. /\ frame \in [Frames -> FrameType] /\ r \in FrameType
      /\ r.set \in Seq(Nodes) /\ r.i \in Nat
  BY PairFacts, PairAnswerFacts
<1>2. r.pc = "probe1" /\ tok' = tok /\ refused' = refused /\ r.i <= Len(r.set)
  BY DEF ProbeCur, At, InSet
<1>3. frame' = [frame EXCEPT ![f].pc = "probe2", ![f].has1 = b]
  BY DEF ProbeCur
<1>b. b <=> r.has1 \/ r.cur \in tok[r.set[r.i]]
  BY DEF InPool, ThisNode
<1>t. b \in BOOLEAN
  BY <1>1 DEF FrameType, InPool
<1> HIDE DEF b
<1>4. s = [r EXCEPT !.pc = "probe2", !.has1 = b]
  BY <1>1, <1>3
<1>5. r.pc \in AndPcs
  BY <1>2 DEF AndPcs
<1>6. /\ r.phase = "and" /\ r.path \in 1..Len(Paths[r.qry])
      /\ Paths[r.qry][r.path].rel = "and" /\ ~(r.path < r.path)
      /\ Collected(r, ref, tok) /\ Compared(r, ref, tok)
      /\ \A n \in Nodes : r.cur \in tok[n] => n \in Hits(r.qry, r.path)
  BY <1>2, <1>5, ComparingFacts
<1>r. refused'[f[1]] = ref
  BY <1>2
<1> HIDE DEF r, s, ref
<1>7. /\ s.pc = "probe2" /\ s.i = r.i /\ s.cur = r.cur /\ s.has1 = b /\ s.has2 = r.has2
      /\ s.phase = r.phase /\ s.path = r.path /\ s.req = r.req /\ s.qry = r.qry
      /\ s.set = r.set
  BY <1>1, <1>4 DEF FrameType
<1>8. Collected(s, ref, tok)
  BY <1>2, <1>5, <1>6, <1>7, CompareOn DEF AndPcs
<1>9. r.set[r.i] \in Nodes \/ r.i = 0
  BY <1>1, <1>2
<1>10. r.i # 0
  BY PairFacts, <1>5 DEF Good, r
<1>11. Compared(s, ref, tok)
  <2>1. s.has1 => Hits(r.qry, r.path) # {}
    BY <1>2, <1>6, <1>7, <1>9, <1>10, <1>b DEF Compared
  <2>2. s.has2 => Hits(r.qry, r.path - 1) # {}
    BY <1>2, <1>6, <1>7 DEF Compared
  <2>3. ASSUME NEW k \in 1..Len(r.set)
        PROVE  /\ ~s.has1 /\ (k < r.i \/ k = r.i) => r.cur \notin tok[r.set[k]]
               /\ ~s.has2 /\ k < r.i => r.req[r.path - 1] \notin tok[r.set[k]]
    BY <1>2, <1>6, <1>7, <1>b DEF Compared
  <2> QED
    BY <1>7, <2>1, <2>2, <2>3 DEF Compared
<1>12. PairAnswering(s, ref, tok)
  BY <1>6, <1>7, <1>8, <1>11, Unsettled
<1> QED
  BY <1>r, <1>2, <1>7, <1>12 DEF Moves, r, s

LEMMA AnswerProbePrev ==
    ASSUME OnePair, PairInv, PairAnswered, NEW f \in Frames, ProbePrev(f)
    PROVE  Moves(f)
<1> DEFINE r == frame[f]
           s == frame'[f]
           ref == refused[f[1]]
           a == r.path - 1
           b == r.has2 \/ InPool(ThisNode(f), PrevReq(f))
<1>1. /\ frame \in [Frames -> FrameType] /\ r \in FrameType /\ Good(r) /\ Placed(r)
      /\ r.set \in Seq(Nodes) /\ r.i \in Nat
  BY PairFacts, PairAnswerFacts
<1>2. r.pc = "probe2" /\ tok' = tok /\ refused' = refused
  BY DEF ProbePrev, At
<1>3. frame' = [frame EXCEPT ![f].pc = "probe1", ![f].i = @ + 1, ![f].has2 = b]
  BY DEF ProbePrev
<1>b. b <=> r.has2 \/ r.req[a] \in tok[r.set[r.i]]
  BY DEF InPool, ThisNode, PrevReq
<1>t. b \in BOOLEAN
  BY <1>1 DEF FrameType, InPool
<1> HIDE DEF b
<1>4. s = [r EXCEPT !.pc = "probe1", !.i = @ + 1, !.has2 = b]
  BY <1>1, <1>3
<1>5. r.pc \in AndPcs
  BY <1>2 DEF AndPcs
<1>6. /\ r.phase = "and" /\ r.path \in 1..Len(Paths[r.qry])
      /\ Paths[r.qry][r.path].rel = "and" /\ ~(r.path < r.path)
      /\ Collected(r, ref, tok) /\ Compared(r, ref, tok)
      /\ \A n \in Nodes : r.req[a] \in tok[n] => n \in Hits(r.qry, a)
  BY <1>2, <1>5, ComparingFacts
<1>r. refused'[f[1]] = ref
  BY <1>2
<1>a. a = r.path - 1
  OBVIOUS
<1> HIDE DEF r, s, ref, a
<1>7. /\ s.pc = "probe1" /\ s.i = r.i + 1 /\ s.cur = r.cur /\ s.has1 = r.has1
      /\ s.has2 = b /\ s.phase = r.phase /\ s.path = r.path /\ s.req = r.req
      /\ s.qry = r.qry /\ s.set = r.set
  BY <1>1, <1>4 DEF FrameType
<1>8. Collected(s, ref, tok)
  BY <1>2, <1>5, <1>6, <1>7, CompareOn DEF AndPcs
<1>9. r.i \in 1..Len(r.set) /\ r.set[r.i] \in Nodes
  BY <1>1, <1>2, <1>5 DEF Good, Placed
<1>10. Compared(s, ref, tok)
  <2>1. s.has1 => Hits(r.qry, r.path) # {}
    BY <1>2, <1>6, <1>7 DEF Compared
  <2>2. s.has2 => Hits(r.qry, a) # {}
    BY <1>2, <1>6, <1>7, <1>9, <1>a, <1>b DEF Compared
  <2>3. ASSUME NEW k \in 1..Len(r.set), k < r.i + 1
        PROVE  /\ ~s.has1 => r.cur \notin tok[r.set[k]]
               /\ ~s.has2 => r.req[a] \notin tok[r.set[k]]
    <3>1. k < r.i \/ k = r.i
      BY <1>1, <2>3
    <3> QED
      BY <1>2, <1>6, <1>7, <1>a, <1>b, <3>1 DEF Compared
  <2> QED
    BY <1>7, <1>a, <2>1, <2>2, <2>3 DEF Compared
<1>11. PairAnswering(s, ref, tok)
  BY <1>6, <1>7, <1>8, <1>10, Unsettled
<1> QED
  BY <1>r, <1>2, <1>7, <1>11 DEF Moves, r, s
LEMMA AnswerEndOfProbe ==
    ASSUME OnePair, PairInv, PairAnswered, NEW f \in Frames, EndOfProbe(f)
    PROVE  Moves(f)
<1> DEFINE r == frame[f]
           s == frame'[f]
           ref == refused[f[1]]
           a == r.path - 1
           q == [r.req EXCEPT ![r.path] = r.cur]
<1>1. /\ frame \in [Frames -> FrameType] /\ r \in FrameType
      /\ r.set \in Seq(Nodes) /\ r.i \in Nat /\ r.qry \in Queries
      /\ r.req \in Seq(Ids \cup {-1, 0}) /\ Len(r.req) = Len(Paths[r.qry])
  BY PairFacts, PairAnswerFacts
<1>2. r.pc = "probe1" /\ tok' = tok /\ refused' = refused
  BY DEF EndOfProbe, At
<1>q. q = [r.req EXCEPT ![r.path] = r.cur]
  OBVIOUS
<1> HIDE DEF q
<1>3. \/ /\ s = [r EXCEPT !.pc = "head", !.path = @ + 1, !.req = q]
         /\ r.has1 /\ r.has2
      \/ /\ s = [r EXCEPT !.pc = "wipe1", !.i = 1]
         /\ ~(r.has1 /\ r.has2) /\ ~(r.i <= Len(r.set))
  <2>1. \/ /\ r.has1 /\ r.has2
           /\ frame' = [frame EXCEPT ![f].pc = "head", ![f].path = @ + 1,
                                     ![f].req[frame[f].path] = frame[f].cur]
        \/ /\ ~(r.has1 /\ r.has2) /\ ~(r.i <= Len(r.set))
           /\ frame' = [frame EXCEPT ![f].pc = "wipe1", ![f].i = 1]
    BY DEF EndOfProbe, InSet
  <2>2. frame' = [frame EXCEPT ![f].pc = "head", ![f].path = @ + 1,
                               ![f].req[frame[f].path] = frame[f].cur]
        => s = [r EXCEPT !.pc = "head", !.path = @ + 1, !.req = q]
    BY <1>1, <1>q
  <2>3. frame' = [frame EXCEPT ![f].pc = "wipe1", ![f].i = 1]
        => s = [r EXCEPT !.pc = "wipe1", !.i = 1]
    BY <1>1
  <2> QED
    BY <2>1, <2>2, <2>3
<1>4. r.pc \in AndPcs
  BY <1>2 DEF AndPcs
<1>5. /\ r.phase = "and" /\ r.path \in 1..Len(Paths[r.qry])
      /\ Paths[r.qry][r.path].rel = "and" /\ a \in 1..Len(Paths[r.qry])
      /\ ~(r.path < r.path) /\ Compared(r, ref, tok)
      /\ ~ref => /\ \A n \in Hits(r.qry, r.path) :
                       n \in NodesOf(r.set) /\ r.cur \in tok[n]
                 /\ \A n \in Hits(r.qry, a) :
                       n \in NodesOf(r.set) /\ r.req[a] \in tok[n]
  BY <1>2, <1>4, ComparingFacts
<1>r. refused'[f[1]] = ref
  BY <1>2
<1>a. a = r.path - 1
  OBVIOUS
<1> HIDE DEF r, s, ref, a
<1>6. CASE /\ s = [r EXCEPT !.pc = "head", !.path = @ + 1, !.req = q]
           /\ r.has1 /\ r.has2
  <2>1. /\ s.pc = "head" /\ s.phase = "and" /\ s.path = r.path + 1 /\ s.req = q
        /\ s.qry = r.qry /\ s.set = r.set
    BY <1>1, <1>5, <1>6 DEF FrameType
  <2>2. Len(q) = Len(r.req)
    BY <1>1, <1>5, <1>q
  <2>3. Holds(r.qry, r.path)
    BY <1>2, <1>5, <1>6 DEF Compared, Holds
  <2>4. Truth[r.qry]
    BY <1>1, <1>5, <2>3, PairTruthIs
  <2>5. ~ref => r.set # <<>>
    <3>1. NodesOf(<<>>) = {}
      BY DEF NodesOf
    <3> QED
      BY <1>5, <2>3, <3>1 DEF Holds
  <2>6. PairAnswering(s, ref, tok)
    BY <1>1, <1>5, <2>1, <2>2, <2>4, <2>5, Settles
  <2> QED
    BY <1>r, <1>2, <2>1, <2>6 DEF Moves, r, s
<1>7. CASE /\ s = [r EXCEPT !.pc = "wipe1", !.i = 1]
           /\ ~(r.has1 /\ r.has2) /\ ~(r.i <= Len(r.set))
  <2>1. /\ s.pc = "wipe1" /\ s.phase = "and" /\ s.path = r.path
        /\ s.qry = r.qry /\ s.set = r.set
    BY <1>1, <1>5, <1>7 DEF FrameType
  <2>2. Collected(s, ref, tok)
    BY <2>1 DEF Collected, Gathers
  <2>3. \A k \in 1..Len(r.set) : k < r.i
    BY <1>1, <1>7
  <2>4. \A k \in 1..Len(r.set) : /\ ~r.has1 => r.cur \notin tok[r.set[k]]
                                 /\ ~r.has2 => r.req[a] \notin tok[r.set[k]]
    BY <1>2, <1>5, <1>a, <2>3 DEF Compared
  <2>5. ~ref => Hits(r.qry, r.path) = {} \/ Hits(r.qry, a) = {}
    <3>1. ~ref /\ ~r.has1 => Hits(r.qry, r.path) = {}
      BY <1>5, <2>4 DEF NodesOf
    <3>2. ~ref /\ ~r.has2 => Hits(r.qry, a) = {}
      BY <1>5, <2>4 DEF NodesOf
    <3> QED
      BY <1>7, <3>1, <3>2
  <2>6. Compared(s, ref, tok)
    BY <1>a, <2>1, <2>5 DEF Compared
  <2>7. PairAnswering(s, ref, tok)
    BY <1>5, <2>1, <2>2, <2>6, Unsettled
  <2> QED
    BY <1>r, <1>2, <2>1, <2>7 DEF Moves, r, s
<1> QED
  BY <1>3, <1>6, <1>7

\* Removing the tokens of a pair that does not hold.
LEMMA AnswerWipe ==
    ASSUME OnePair, PairInv, PairAnswered, NEW f \in Frames, WipeCur(f) \/ WipePrev(f)
    PROVE  Moves(f)
<1> DEFINE r == frame[f]
           s == frame'[f]
           ref == refused[f[1]]
<1>1. frame \in [Frames -> FrameType] /\ r \in FrameType
  BY PairFacts
<1>2. r.pc \in {"wipe1", "wipe2"} /\ refused' = refused
  BY DEF WipeCur, WipePrev, At
<1>3. s = [r EXCEPT !.pc = "wipe2"] \/ s = [r EXCEPT !.pc = "wipe1", !.i = @ + 1]
  BY <1>1 DEF WipeCur, WipePrev
<1>4. r.pc \in AndPcs
  BY <1>2 DEF AndPcs
<1>5. /\ r.phase = "and" /\ r.path \in 1..Len(Paths[r.qry])
      /\ Paths[r.qry][r.path].rel = "and" /\ ~(r.path < r.path)
      /\ Compared(r, ref, tok)
  BY <1>2, <1>4, ComparingFacts
<1>r. refused'[f[1]] = ref
  BY <1>2
<1> HIDE DEF r, s, ref
<1>6. /\ s.pc \in {"wipe1", "wipe2"} /\ s.phase = "and" /\ s.path = r.path
      /\ s.qry = r.qry
  <2>1. CASE s = [r EXCEPT !.pc = "wipe2"]
    BY <1>1, <1>5, <2>1 DEF FrameType
  <2>2. CASE s = [r EXCEPT !.pc = "wipe1", !.i = @ + 1]
    BY <1>1, <1>5, <2>2 DEF FrameType
  <2> QED
    BY <1>3, <2>1, <2>2
<1>7. Collected(s, ref, tok')
  BY <1>6 DEF Collected, Gathers
<1>8. Compared(s, ref, tok')
  BY <1>2, <1>5, <1>6 DEF Compared
<1>9. PairAnswering(s, ref, tok')
  BY <1>5, <1>6, <1>7, <1>8, Unsettled
<1> QED
  BY <1>r, <1>6, <1>9 DEF Moves, r, s

LEMMA AnswerEndOfWipe ==
    ASSUME OnePair, PairInv, PairAnswered, NEW f \in Frames, EndOfWipe(f)
    PROVE  Moves(f)
<1> DEFINE r == frame[f]
           s == frame'[f]
           ref == refused[f[1]]
           q == [r.req EXCEPT ![r.path] = r.cur]
<1>1. /\ frame \in [Frames -> FrameType] /\ r \in FrameType /\ r.qry \in Queries
      /\ r.req \in Seq(Ids \cup {-1, 0}) /\ Len(r.req) = Len(Paths[r.qry])
  BY PairFacts, PairAnswerFacts
<1>2. r.pc = "wipe1" /\ tok' = tok /\ refused' = refused
  BY DEF EndOfWipe, At
<1>q. q = [r.req EXCEPT ![r.path] = r.cur]
  OBVIOUS
<1> HIDE DEF q
<1>3. s = [r EXCEPT !.pc = "head", !.path = @ + 1, !.set = <<>>, !.req = q]
  <2>1. frame' = [frame EXCEPT ![f].pc = "head", ![f].path = @ + 1, ![f].set = <<>>,
                               ![f].req[frame[f].path] = frame[f].cur]
    BY DEF EndOfWipe
  <2> QED
    BY <1>1, <1>q, <2>1
<1>4. r.pc \in AndPcs
  BY <1>2 DEF AndPcs
<1>5. /\ r.phase = "and" /\ r.path \in 1..Len(Paths[r.qry])
      /\ Paths[r.qry][r.path].rel = "and" /\ Compared(r, ref, tok)
  BY <1>4, ComparingFacts
<1>r. refused'[f[1]] = ref
  BY <1>2
<1> HIDE DEF r, s, ref
<1>6. /\ s.pc = "head" /\ s.phase = "and" /\ s.path = r.path + 1 /\ s.req = q
      /\ s.qry = r.qry /\ s.set = <<>>
  BY <1>1, <1>3, <1>5 DEF FrameType
<1>7. Len(q) = Len(r.req)
  BY <1>1, <1>5, <1>q
<1>8. ~ref => ~Holds(r.qry, r.path)
  BY <1>2, <1>5 DEF Compared, Holds
<1>9. PairAnswering(s, ref, tok)
  BY <1>1, <1>5, <1>6, <1>7, <1>8, Settles
<1> QED
  BY <1>r, <1>2, <1>6, <1>9 DEF Moves, r, s
\* Moving the tokens of the pair to the global id, and releasing its id.
LEMMA OrMoves ==
    ASSUME OnePair, NEW r, NEW s, NEW ref \in BOOLEAN, NEW tk, NEW tk2,
           PairAnswering(r, ref, tk), r \in FrameType, Good(r), Placed(r),
           r.phase = "or", r.pc \in OrPcs \cup {"rel"},
           s.phase = "or", s.pc \in OrPcs \cup {"rel", "head"},
           s.path = r.path \/ s.path = r.path + 1, s.set = r.set, s.qry = r.qry
    PROVE  PairAnswering(s, ref, tk2)
<1>1. /\ r.path + 1 \in 2..Len(Paths[r.qry]) /\ Paths[r.qry][r.path + 1].rel = "and"
      /\ r.path \in Nat /\ Len(Paths[r.qry]) \in Nat /\ r.qry \in Queries
  BY LenPaths DEF Good, Placed, FrameType
<1>2. ~OrOnly(r.qry)
  BY <1>1 DEF OrOnly
<1>3. PathInAnd(r.qry, r.path)
  BY <1>1 DEF PathInAnd
<1>4. ASSUME NEW p \in 1..Len(Paths[r.qry]), NEW k, ~PathInAnd(r.qry, p), Walked(s, p, k)
      PROVE  Walked(r, p, k)
  <2>1. p < s.path
    BY <1>4 DEF Walked, WalkPcs, OrPcs
  <2>2. p # r.path
    BY <1>3, <1>4
  <2>3. p < r.path
    BY <1>1, <2>1, <2>2
  <2> QED
    BY <2>3 DEF Walked
<1>5. Settled(r)
  BY DEF Settled
<1> QED
  BY <1>2, <1>4, <1>5, LateAnswer DEF OrPcs, AndPcs

LEMMA AnswerOr ==
    ASSUME OnePair, PairInv, PairAnswered, NEW f \in Frames,
           OrProbe(f) \/ OrAdd(f) \/ OrDel(f) \/ EndOfOr(f)
    PROVE  Moves(f)
<1> DEFINE r == frame[f]
           s == frame'[f]
           ref == refused[f[1]]
<1>1. /\ frame \in [Frames -> FrameType] /\ r \in FrameType /\ Good(r) /\ Placed(r)
      /\ PairAnswering(r, ref, tok) /\ ref \in BOOLEAN
  BY PairFacts, PairAnswerFacts
<1>2. r.pc \in OrPcs /\ refused' = refused
  BY DEF OrProbe, OrAdd, OrDel, EndOfOr, At, OrPcs
<1>3. \/ s = [r EXCEPT !.pc = "or2"]
      \/ s = [r EXCEPT !.i = @ + 1]
      \/ s = [r EXCEPT !.pc = "or3"]
      \/ s = [r EXCEPT !.pc = "or1", !.i = @ + 1]
      \/ s = [r EXCEPT !.pc = "rel", !.i = 1, !.rid = NextReq(f)]
  <2>1. CASE OrProbe(f)
    BY <1>1, <2>1 DEF OrProbe
  <2>2. CASE OrAdd(f)
    BY <1>1, <2>2 DEF OrAdd
  <2>3. CASE OrDel(f)
    BY <1>1, <2>3 DEF OrDel
  <2>4. CASE EndOfOr(f)
    BY <1>1, <2>4 DEF EndOfOr
  <2> QED
    BY <2>1, <2>2, <2>3, <2>4
<1>r. refused'[f[1]] = ref
  BY <1>2
<1> HIDE DEF r, s, ref
<1>4. r.phase = "or"
  BY <1>1, <1>2 DEF Placed, FrameType, OrPcs
<1>5. /\ s.phase = "or" /\ s.pc \in OrPcs \cup {"rel", "head"} /\ s.path = r.path
      /\ s.set = r.set /\ s.qry = r.qry
  <2>1. CASE s = [r EXCEPT !.pc = "or2"]
    BY <1>1, <1>4, <2>1 DEF FrameType, OrPcs
  <2>2. CASE s = [r EXCEPT !.i = @ + 1]
    BY <1>1, <1>2, <1>4, <2>2 DEF FrameType
  <2>3. CASE s = [r EXCEPT !.pc = "or3"]
    BY <1>1, <1>4, <2>3 DEF FrameType, OrPcs
  <2>4. CASE s = [r EXCEPT !.pc = "or1", !.i = @ + 1]
    BY <1>1, <1>4, <2>4 DEF FrameType, OrPcs
  <2>5. CASE s = [r EXCEPT !.pc = "rel", !.i = 1, !.rid = NextReq(f)]
    BY <1>1, <1>4, <2>5 DEF FrameType
  <2> QED
    BY <1>3, <2>1, <2>2, <2>3, <2>4, <2>5
<1>6. PairAnswering(s, ref, tok')
  BY <1>1, <1>2, <1>4, <1>5, OrMoves
<1> QED
  BY <1>r, <1>5, <1>6 DEF Moves, r, s

LEMMA AnswerOrHead ==
    ASSUME OnePair, PairInv, PairAnswered, NEW f \in Frames, OrHead(f)
    PROVE  Moves(f)
<1> DEFINE r == frame[f]
           s == frame'[f]
           ref == refused[f[1]]
<1>1. /\ frame \in [Frames -> FrameType] /\ r \in FrameType
      /\ PairAnswering(r, ref, tok) /\ ref \in BOOLEAN
      /\ Len(Paths[r.qry]) \in Nat /\ r.path \in Nat /\ r.qry \in Queries
  BY PairFacts, PairAnswerFacts
<1>2. r.pc = "head" /\ r.phase = "or" /\ tok' = tok /\ refused' = refused
  BY DEF OrHead, At, InPhase
<1>3. \/ /\ s = [r EXCEPT !.phase = "end", !.path = 0, !.pc = "rel", !.i = 1,
                          !.rid = r.glob]
         /\ ~(r.path <= Len(Paths[r.qry]))
      \/ /\ s = [r EXCEPT !.path = @ + 1]
         /\ Paths[r.qry][r.path].rel # "or" /\ r.path <= Len(Paths[r.qry])
      \/ s = [r EXCEPT !.i = 1, !.pc = "visit"]
      \/ s = [r EXCEPT !.i = 1, !.pc = "or1"]
  BY <1>1 DEF OrHead, InPaths, NbPaths, ThisPath
<1>r. refused'[f[1]] = ref
  BY <1>2
<1> HIDE DEF r, s, ref
<1>4. Settled(r)
  BY <1>2 DEF Settled
<1>5. CASE /\ s = [r EXCEPT !.phase = "end", !.path = 0, !.pc = "rel", !.i = 1,
                            !.rid = r.glob]
           /\ ~(r.path <= Len(Paths[r.qry]))
  <2>1. /\ s.pc = "rel" /\ s.phase = "end" /\ s.set = r.set /\ s.qry = r.qry
    BY <1>1, <1>5 DEF FrameType
  <2>2. \A p \in 1..Len(Paths[r.qry]) : \A k : Walked(r, p, k)
    BY <1>1, <1>2, <1>5 DEF Walked
  <2>3. PairAnswering(s, ref, tok')
    BY <1>1, <1>4, <2>1, <2>2, LateAnswer DEF AndPcs
  <2> QED
    BY <1>r, <2>1, <2>3 DEF Moves, r, s
<1>6. CASE /\ s = [r EXCEPT !.path = @ + 1]
           /\ Paths[r.qry][r.path].rel # "or" /\ r.path <= Len(Paths[r.qry])
  <2>1. /\ s.pc = "head" /\ s.phase = "or" /\ s.path = r.path + 1 /\ s.set = r.set
        /\ s.qry = r.qry /\ s.glob = r.glob
    BY <1>1, <1>2, <1>6 DEF FrameType
  <2>2. \A p \in 1..Len(Paths[r.qry]) : p = r.path => PathInAnd(r.qry, p)
    <3>1. Paths[r.qry] \in Seq(Path)
      BY <1>1, QueriesAssumption
    <3>2. \A k \in 1..Len(Paths[r.qry]) : Paths[r.qry][k] \in Path
      BY <3>1
    <3> QED
      BY <1>6, <3>2 DEF PathInAnd, Path
  <2>3. ASSUME NEW p \in 1..Len(Paths[r.qry]), NEW k, ~PathInAnd(r.qry, p), Walked(s, p, k)
        PROVE  Walked(r, p, k)
    <3>1. p < r.path + 1 /\ p # r.path
      BY <2>1, <2>2, <2>3 DEF Walked, WalkPcs
    <3>2. p < r.path
      BY <1>1, <3>1
    <3> QED
      BY <1>2, <3>2 DEF Walked
  <2>4. Holder(s) => Holder(r)
    BY <1>2, <2>1 DEF Holder
  <2>5. PairAnswering(s, ref, tok')
    BY <1>1, <1>2, <1>4, <2>1, <2>3, <2>4, LateAnswer DEF AndPcs
  <2> QED
    BY <1>r, <2>1, <2>5 DEF Moves, r, s
<1>7. CASE s = [r EXCEPT !.i = 1, !.pc = "visit"] \/ s = [r EXCEPT !.i = 1, !.pc = "or1"]
  <2>1. /\ s.pc \in {"visit", "or1"} /\ s.phase = "or" /\ s.path = r.path
        /\ s.set = r.set /\ s.qry = r.qry /\ s.glob = r.glob /\ s.i = 1
    <3>1. CASE s = [r EXCEPT !.i = 1, !.pc = "visit"]
      BY <1>1, <1>2, <3>1 DEF FrameType
    <3>2. CASE s = [r EXCEPT !.i = 1, !.pc = "or1"]
      BY <1>1, <1>2, <3>2 DEF FrameType
    <3> QED
      BY <1>7, <3>1, <3>2
  <2>2. ASSUME NEW p \in 1..Len(Paths[r.qry]), NEW k \in 1..Len(Visits(r.qry, p)),
               Walked(s, p, k)
        PROVE  Walked(r, p, k)
    <3>1. ~(k < 1)
      OBVIOUS
    <3> QED
      BY <1>2, <2>1, <2>2, <3>1 DEF Walked
  <2>3. Holder(s) => Holder(r)
    BY <1>2, <2>1 DEF Holder
  <2>4. PairAnswering(s, ref, tok')
    BY <1>1, <1>2, <1>4, <2>1, <2>2, <2>3, LateAnswer DEF AndPcs
  <2> QED
    BY <1>r, <2>1, <2>4 DEF Moves, r, s
<1> QED
  BY <1>3, <1>5, <1>6, <1>7

\* The steps that release and finish.
LEMMA AnswerRelease ==
    ASSUME OnePair, PairInv, PairAnswered, NEW f \in Frames,
           ReleaseToken(f) \/ ReleaseId(f) \/ EndHead(f)
    PROVE  Moves(f)
<1> DEFINE r == frame[f]
           s == frame'[f]
           ref == refused[f[1]]
<1>1. /\ frame \in [Frames -> FrameType] /\ r \in FrameType /\ Good(r) /\ Placed(r)
      /\ PairAnswering(r, ref, tok) /\ ref \in BOOLEAN
  BY PairFacts, PairAnswerFacts
<1>2. refused' = refused
  BY DEF ReleaseToken, ReleaseId, EndHead
<1>3. \/ r.pc = "rel" /\ s = [r EXCEPT !.i = @ + 1]
      \/ r.pc = "rel" /\ s = [r EXCEPT !.pc = "head", !.path = @ + 1]
      \/ /\ r.phase = "end"
         /\ \/ s = [r EXCEPT !.pc = "done"]
            \/ s = [r EXCEPT !.path = @ + 1]
            \/ s = [r EXCEPT !.pc = "rel", !.i = 1, !.rid = r.req[r.path]]
         /\ r.pc = "head"
  <2>1. CASE ReleaseToken(f)
    BY <1>1, <2>1 DEF ReleaseToken, At
  <2>2. CASE ReleaseId(f)
    BY <1>1, <2>2 DEF ReleaseId, At
  <2>3. CASE EndHead(f)
    BY <1>1, <2>3 DEF EndHead, At, InPhase
  <2> QED
    BY <2>1, <2>2, <2>3
<1>r. refused'[f[1]] = ref
  BY <1>2
<1> HIDE DEF r, s, ref
<1>4. /\ s.phase = r.phase /\ s.set = r.set /\ s.qry = r.qry
      /\ r.phase # "and" /\ s.pc \in {"rel", "head", "done"}
      /\ r.phase = "or" => /\ r.pc = "rel" /\ s.pc \in {"rel", "head"}
                           /\ s.path = r.path \/ s.path = r.path + 1
  <2>1. CASE r.pc = "rel" /\ s = [r EXCEPT !.i = @ + 1]
    BY <1>1, <2>1 DEF FrameType, Placed
  <2>2. CASE r.pc = "rel" /\ s = [r EXCEPT !.pc = "head", !.path = @ + 1]
    BY <1>1, <2>2 DEF FrameType, Placed
  <2>3. CASE r.phase = "end" /\ s = [r EXCEPT !.pc = "done"]
    BY <1>1, <2>3 DEF FrameType
  <2>4. CASE r.phase = "end" /\ r.pc = "head" /\ s = [r EXCEPT !.path = @ + 1]
    BY <1>1, <2>4 DEF FrameType
  <2>5. CASE r.phase = "end" /\ s = [r EXCEPT !.pc = "rel", !.i = 1, !.rid = r.req[r.path]]
    BY <1>1, <2>5 DEF FrameType
  <2> QED
    BY <1>3, <2>1, <2>2, <2>3, <2>4, <2>5
<1>5. CASE r.phase = "or"
  <2>1. PairAnswering(s, ref, tok')
    BY <1>1, <1>4, <1>5, OrMoves
  <2> QED
    BY <1>r, <1>4, <2>1 DEF Moves, r, s
<1>6. CASE r.phase = "end"
  <2>1. Settled(r)
    BY <1>6 DEF Settled
  <2>2. \A p, k : Walked(r, p, k)
    BY <1>6 DEF Walked
  <2>3. Holder(s) => s.pc = "rel"
    BY <1>4, <1>6 DEF Holder
  <2>4. PairAnswering(s, ref, tok')
    BY <1>1, <1>4, <1>6, <2>1, <2>2, <2>3, LateAnswer DEF AndPcs
  <2> QED
    BY <1>r, <1>4, <2>4 DEF Moves, r, s
<1> QED
  BY <1>1, <1>4, <1>5, <1>6 DEF FrameType

LEMMA AnswerLocal ==
    ASSUME OnePair, PairInv, PairAnswered, NEW f \in Frames, LocalStep(f)
    PROVE  Moves(f)
  BY AnswerRequestGlob, AnswerAndHead, AnswerRequestAnd, AnswerAddToSet,
     AnswerEndOfWalk, AnswerProbeCur, AnswerProbePrev, AnswerEndOfProbe,
     AnswerWipe, AnswerEndOfWipe, AnswerOrHead, AnswerOr, AnswerRelease
     DEF LocalStep

-----------------------------------------------------------------------------
(* The answers of the other frames.                                        *)

\* A frame that has not started its walk.
LEMMA IdlePair ==
    ASSUME NEW r, NEW ref, NEW tk, r.set = <<>>, r.phase = "and", r.path = 1,
           r.pc \in {"off", "request"}
    PROVE  PairAnswering(r, ref, tk)
<1>1. Collected(r, ref, tk) /\ Compared(r, ref, tk)
  BY DEF Collected, Compared, Gathers, Idling, WalkPcs, AndPcs
<1>2. ASSUME NEW p \in 1..Len(Paths[r.qry]), Holds(r.qry, p)
      PROVE  ~Settled(r)
  <2>1. ~(p < 1)
    OBVIOUS
  <2> QED
    BY <1>2, <2>1 DEF Settled, Holds
<1>3. \A p, k : ~Walked(r, p, k)
  BY DEF Walked
<1>4. Answers(r, ref)
  BY <1>2, <1>3 DEF Answers
<1>5. IsSet(r, tk)
  BY DEF IsSet, NodesOf, NoRepetition, Holder
<1> QED
  BY <1>1, <1>4, <1>5 DEF PairAnswering

LEMMA FreshPairAnswer ==
    ASSUME NEW q, NEW ref, NEW tk
    PROVE  /\ PairAnswering(Fresh(q), ref, tk) /\ PairAnswering(Off, ref, tk)
           /\ Fresh(q).pc = "request" /\ Fresh(q).qry = q /\ Off.pc = "off"
<1> DEFINE z == Fresh(q)
<1>1. /\ z.set = <<>> /\ z.phase = "and" /\ z.path = 1 /\ z.pc = "request"
      /\ z.qry = q
      /\ Off.set = <<>> /\ Off.phase = "and" /\ Off.path = 1 /\ Off.pc = "off"
  BY DEF Fresh, Off
<1> HIDE DEF z
<1> QED
  BY <1>1, IdlePair DEF z

\* A request that is refused stays refused during a call.
LEMMA PairRefusedGrows ==
    ASSUME PairInv, PairAnswered, NEW f \in Frames, LocalStep(f), NEW t \in Threads
    PROVE  refused[t] => refused'[t]
<1>1. refused \in [Threads -> BOOLEAN] /\ f[1] \in Threads
  BY FramesType, PairAnswerFacts
<1>2. CASE RequestGlob(f) \/ RequestAnd(f)
  BY <1>1, <1>2 DEF RequestGlob, RequestAnd, RequestId
<1>3. CASE ~(RequestGlob(f) \/ RequestAnd(f))
  <2>1. UNCHANGED refused
    BY <1>3 DEF LocalStep, AndHead, AddToSet, EndOfWalk, ProbeCur, ProbePrev,
       EndOfProbe, WipeCur, WipePrev, EndOfWipe, OrHead, OrProbe, OrAdd, OrDel,
       EndOfOr, ReleaseToken, ReleaseId, EndHead
  <2> QED
    BY <2>1
<1> QED
  BY <1>2, <1>3

\* No node has the token of a request that was refused or not made.
LEMMA NoToken == -1 \notin Ids \cup {255} /\ 0 \notin Ids \cup {255}
<1>1. FirstId \in Nat /\ FirstId > 0 /\ LastId \in Nat
  BY IdsAssumption
<1>2. ASSUME NEW id \in Ids PROVE id > 0
  BY <1>1, <1>2 DEF Ids
<1>3. -1 \notin Ids
  BY <1>2
<1>4. 0 \notin Ids
  BY <1>2
<1> QED
  BY <1>3, <1>4

\* The answer of a frame that waits stands as long as the evaluations above it
\* leave the tokens of its ids alone.
LEMMA WaitsOn ==
    ASSUME NEW r, NEW ref, NEW ref2, NEW tk, NEW tk2, PairAnswering(r, ref, tk),
           r.pc = "nested", ref => ref2,
           tk2 \in [Nodes -> SUBSET (Ids \cup {255})],
           \A n \in Nodes : \A id \in Ids :
               Owns(r, id) => (id \in tk2[n] <=> id \in tk[n]),
           r.set \in Seq(Nodes),
           \A k \in 1..Len(r.req) : \A j \in 1..Len(Visits(r.qry, k)) :
               Visits(r.qry, k)[j].node \in Nodes
    PROVE  PairAnswering(r, ref2, tk2)
<1>1. ASSUME NEW k \in 1..Len(r.req), NEW id \in Ids \cup {-1, 0}, Gathers(r, k, id)
      PROVE  Owns(r, id)
  <2>1. CASE k = r.path /\ id = r.cur
    BY <1>1, <2>1 DEF Gathers, Owns, Comparing, WalkPcs
  <2>2. CASE k + 1 = r.path /\ id = r.req[k]
    <3>1. ~Idling(r)
      BY DEF Idling
    <3>2. ~Released(r, k)
      BY <1>1 DEF Gathers, Released
    <3> QED
      BY <2>2, <3>1, <3>2 DEF Owns
  <2> QED
    BY <1>1, <2>1, <2>2 DEF Gathers
<1>2. -1 \notin Ids \cup {255} /\ 0 \notin Ids \cup {255}
  BY NoToken
<1>3. Collected(r, ref2, tk2)
  <2>1. SUFFICES ASSUME NEW k \in 1..Len(r.req), NEW id \in Ids \cup {-1, 0},
                        Gathers(r, k, id)
        PROVE
        /\ \A n \in Nodes : id \in tk2[n] => n \in Hits(r.qry, k)
        /\ ~ref2 =>
             /\ id \in Ids
             /\ \A j \in 1..Len(Visits(r.qry, k)) :
                  LET n == Visits(r.qry, k)[j].node IN
                  /\ k = r.path /\ r.pc \in WalkPcs => j < r.i
                  /\ Selected(Visits(r.qry, k)[j])
                  => n \in NodesOf(r.set) /\ id \in tk2[n]
    BY DEF Collected
  <2>2. Owns(r, id)
    BY <1>1, <2>1
  <2>3. /\ \A n \in Nodes : id \in tk[n] => n \in Hits(r.qry, k)
        /\ ~ref =>
             /\ id \in Ids
             /\ \A j \in 1..Len(Visits(r.qry, k)) :
                  LET n == Visits(r.qry, k)[j].node IN
                  /\ k = r.path /\ r.pc \in WalkPcs => j < r.i
                  /\ Selected(Visits(r.qry, k)[j])
                  => n \in NodesOf(r.set) /\ id \in tk[n]
    BY <2>1 DEF PairAnswering, Collected
  <2>4. ASSUME NEW n \in Nodes, id \in tk2[n]
        PROVE  n \in Hits(r.qry, k)
    <3>1. id \in Ids
      BY <1>2, <2>4
    <3> QED
      BY <2>2, <2>3, <2>4, <3>1
  <2>5. ASSUME ~ref2, NEW j \in 1..Len(Visits(r.qry, k)),
               k = r.path /\ r.pc \in WalkPcs => j < r.i,
               Selected(Visits(r.qry, k)[j])
        PROVE  /\ Visits(r.qry, k)[j].node \in NodesOf(r.set)
               /\ id \in tk2[Visits(r.qry, k)[j].node]
    <3>1. id \in Ids /\ ~ref
      BY <2>3, <2>5
    <3>2. /\ Visits(r.qry, k)[j].node \in NodesOf(r.set)
          /\ id \in tk[Visits(r.qry, k)[j].node]
      BY <2>3, <2>5, <3>1
    <3> QED
      BY <2>2, <3>1, <3>2
  <2> QED
    BY <2>3, <2>4, <2>5
<1>4. Compared(r, ref2, tk2)
  BY DEF Compared
<1>5. Answers(r, ref2)
  BY DEF PairAnswering, Answers
<1>6. IsSet(r, tk2)
  <2>1. SUFFICES ASSUME OrOnly(r.qry), Holder(r), r.pc # "rel", NEW n \in NodesOf(r.set)
                 PROVE  r.glob \in tk2[n]
    BY DEF PairAnswering, IsSet
  <2>2. r.glob \in tk[n]
    BY <2>1 DEF PairAnswering, IsSet
  <2>3. n \in Nodes
    BY <2>1 DEF NodesOf
  <2>4. r.glob \in Ids /\ Owns(r, r.glob)
    BY <2>1 DEF Holder, Owns
  <2> QED
    BY <2>2, <2>3, <2>4
<1> QED
  BY <1>3, <1>4, <1>5, <1>6 DEF PairAnswering

\* The frames below and above the one that moves.
LEMMA PairAnsweredLocal ==
    ASSUME OneThread, OnePair, PairInv, PairAnswered, TypeOK',
           NEW f \in Frames, LocalStep(f)
    PROVE  PairAnswered'
<1>1. /\ Moves(f) /\ frame \in [Frames -> FrameType] /\ Stack
      /\ frame' = [frame EXCEPT ![f] = frame'[f]] /\ top[f[1]] = f[2]
  BY AnswerLocal, LocalFrame DEF PairInv, TypeInv, TypeOK
<1>2. SUFFICES ASSUME NEW g \in Frames
               PROVE  PairAnswering(frame'[g], refused'[g[1]], tok')
  BY DEF PairAnswered
<1>3. CASE g = f
  BY <1>1, <1>3 DEF Moves
<1>4. CASE g # f
  <2>1. frame'[g] = frame[g]
    BY <1>1, <1>4
  <2>2. g[1] = f[1] /\ g[2] # f[2] /\ f[2] \in Nat /\ g[2] \in Nat
    BY <1>4, FramesType, QueriesAssumption DEF OneThread
  <2>3. CASE g[2] > f[2]
    <3>1. frame[g].pc = "off"
      BY <1>1, <2>2, <2>3, AboveTop DEF PairInv
    <3>2. Placed(frame[g])
      BY PairFacts
    <3> QED
      BY <2>1, <3>1, <3>2, IdlePair DEF Placed
  <2>4. CASE g[2] < f[2]
    <3>1. frame[g].pc = "nested"
      BY <1>1, <2>2, <2>4 DEF Stack
    <3>2. refused[g[1]] => refused'[g[1]]
      BY PairRefusedGrows, FramesType
    <3>3. tok' \in [Nodes -> SUBSET (Ids \cup {255})]
      BY DEF TypeOK
    <3>4. PairStep(frame[f], frame'[f])
      BY PairLocalStep
    <3>5. ASSUME NEW n \in Nodes, NEW id \in Ids, Owns(frame[g], id)
          PROVE  id \in tok'[n] <=> id \in tok[n]
      <4>1. ~Owns(frame[f], id)
        BY <1>4, <3>5 DEF PairInv, PairIds
      <4>2. ~Spent(frame[f], id)
        BY <2>2, <2>4, <3>5 DEF PairInv, PairSpent
      <4> QED
        BY <3>4, <4>1, <4>2 DEF PairStep
    <3>6. /\ PairAnswering(frame[g], refused[g[1]], tok)
          /\ frame[g].qry \in Queries /\ Len(frame[g].req) = Len(Paths[frame[g].qry])
          /\ frame[g].set \in Seq(Nodes)
      BY PairAnswerFacts
    <3>7. \A k \in 1..Len(frame[g].req) : \A j \in 1..Len(Visits(frame[g].qry, k)) :
              Visits(frame[g].qry, k)[j].node \in Nodes
      BY <3>6, VisitType
    <3> QED
      BY <2>1, <3>1, <3>2, <3>3, <3>5, <3>6, <3>7, WaitsOn
  <2> QED
    BY <2>2, <2>3, <2>4
<1> QED
  BY <1>3, <1>4

LEMMA PairWaitingLocal ==
    ASSUME OnePair, PairInv, PairAnswered, Waiting, NEW f \in Frames, LocalStep(f)
    PROVE  Waiting'
<1>1. /\ frame'[f].qry = frame[f].qry /\ frame'[f].pc # "nested"
      /\ frame \in [Frames -> FrameType]
      /\ frame' = [frame EXCEPT ![f] = frame'[f]]
  BY AnswerLocal, LocalFrame DEF PairInv, TypeInv, TypeOK, Moves
<1>2. \A g \in Frames : frame'[g].qry = frame[g].qry
  BY <1>1
<1>3. SUFFICES ASSUME NEW h \in Frames, frame'[h].pc = "nested"
               PROVE  /\ h[2] < MaxDepth
                      /\ ThisVisit(h)'.pred # NoPred
                      /\ frame'[<<h[1], h[2] + 1>>].qry = ThisVisit(h)'.pred
  BY DEF Waiting
<1>4. frame'[h] = frame[h]
  BY <1>1, <1>3
<1>5. ThisVisit(h)' = ThisVisit(h)
  BY <1>4 DEF ThisVisit, ThisPath
<1>6. h[2] < MaxDepth => <<h[1], h[2] + 1>> \in Frames
  BY FramesType, QueriesAssumption DEF Frames
<1> QED
  BY <1>2, <1>3, <1>4, <1>5, <1>6 DEF Waiting

-----------------------------------------------------------------------------
(* Calls, entries in and returns from nested evaluations.                  *)

LEMMA SetIsEmpty ==
    ASSUME NEW x \in Seq(Nodes)
    PROVE  x # <<>> <=> NodesOf(x) # {}
<1>1. ASSUME x # <<>> PROVE NodesOf(x) # {}
  <2>1. 1 \in 1..Len(x)
    BY <1>1
  <2> QED
    BY <2>1 DEF NodesOf
<1>2. ASSUME x = <<>> PROVE NodesOf(x) = {}
  BY <1>2 DEF NodesOf
<1> QED
  BY <1>1, <1>2

\* What an evaluation that is done answers about the predicate it was asked.
LEMMA PairDoneTruth ==
    ASSUME OnePair, PairAnswerInv, NEW f \in Frames, frame[f].pc = "done"
    PROVE  /\ frame[f].set # <<>> => Truth[frame[f].qry]
           /\ OrOnly(frame[f].qry) =>
                /\ NoRepetition(frame[f].set)
                /\ NodesOf(frame[f].set) \subseteq Answer(frame[f].qry)
           /\ ~refused[f[1]] =>
                /\ Truth[frame[f].qry] => frame[f].set # <<>>
                /\ OrOnly(frame[f].qry) =>
                     NodesOf(frame[f].set) = Answer(frame[f].qry)
<1> DEFINE r == frame[f]
           ref == refused[f[1]]
<1>1. /\ r.qry \in Queries /\ r.set \in Seq(Nodes) /\ Len(Paths[r.qry]) \in Nat
      /\ Answers(r, ref) /\ IsSet(r, tok) /\ r.pc = "done" /\ ref \in BOOLEAN
  BY PairAnswerFacts DEF PairAnswerInv, PairAnswering
<1> HIDE DEF r, ref
<1>2. r.set # <<>> => Truth[r.qry]
  BY <1>1 DEF Answers, Idling
<1>3. OrOnly(r.qry) => NoRepetition(r.set) /\ NodesOf(r.set) \subseteq Answer(r.qry)
  BY <1>1 DEF IsSet
<1>4. ASSUME ~ref
      PROVE  /\ r.phase = "end" /\ Settled(r)
             /\ \A p, k : Walked(r, p, k)
  <2>1. r.phase = "end"
    BY <1>1, <1>4 DEF Answers
  <2> QED
    BY <2>1 DEF Settled, Walked
<1>5. ASSUME ~ref, NEW p \in 1..Len(Paths[r.qry]), ~PathInAnd(r.qry, p),
             NEW n \in Hits(r.qry, p)
      PROVE  n \in NodesOf(r.set)
  <2>1. PICK k \in 1..Len(Visits(r.qry, p)) :
            Selected(Visits(r.qry, p)[k]) /\ Visits(r.qry, p)[k].node = n
    BY <1>1, <1>5, HitsIs
  <2> QED
    BY <1>1, <1>4, <1>5, <2>1 DEF Answers
<1>6. ASSUME ~ref, Truth[r.qry]
      PROVE  r.set # <<>>
  <2>1. CASE \E p \in 1..Len(Paths[r.qry]) : ~PathInAnd(r.qry, p) /\ Hits(r.qry, p) # {}
    <3>1. PICK p \in 1..Len(Paths[r.qry]) : ~PathInAnd(r.qry, p) /\ Hits(r.qry, p) # {}
      BY <2>1
    <3>2. PICK n : n \in Hits(r.qry, p)
      BY <3>1
    <3>3. n \in NodesOf(r.set)
      BY <1>5, <1>6, <3>1, <3>2
    <3> QED
      BY <1>1, <3>3, SetIsEmpty
  <2>2. CASE \E p \in 1..Len(Paths[r.qry]) : Holds(r.qry, p)
    BY <1>1, <1>4, <1>6, <2>2 DEF Answers
  <2> QED
    BY <1>1, <1>6, <2>1, <2>2, PairTruthIs
<1>7. ASSUME ~ref, OrOnly(r.qry)
      PROVE  Answer(r.qry) \subseteq NodesOf(r.set)
  <2>1. ASSUME NEW n \in Answer(r.qry)
        PROVE  n \in NodesOf(r.set)
    <3>1. PICK p \in 1..Len(Paths[r.qry]) : n \in Hits(r.qry, p)
      BY <1>1, <2>1 DEF Answer
    <3>2. ~PathInAnd(r.qry, p)
      <4>1. Paths[r.qry][p].rel = "or"
        BY <1>7 DEF OrOnly
      <4>2. p < Len(Paths[r.qry]) => Paths[r.qry][p + 1].rel = "or"
        <5>1. p < Len(Paths[r.qry]) => p + 1 \in 1..Len(Paths[r.qry])
          BY <1>1
        <5> QED
          BY <1>7, <5>1 DEF OrOnly
      <4> QED
        BY <4>1, <4>2 DEF PathInAnd
    <3> QED
      BY <1>5, <1>7, <3>1, <3>2
  <2> QED
    BY <2>1
<1> QED
  BY <1>2, <1>3, <1>6, <1>7 DEF r, ref

LEMMA PairAnswerCall ==
    ASSUME OneThread, PairAnswerInv, NEW t \in Threads, NEW q \in TopQueries, Call(t, q)
    PROVE  PairAnswered' /\ Waiting'
<1> DEFINE f == <<t, 1>>
           z == Fresh(q)
<1>1. /\ f \in Frames /\ frame \in [Frames -> FrameType] /\ f[1] = t
      /\ top[t] = 0 /\ frame' = [frame EXCEPT ![f] = z]
  BY QueriesAssumption DEF Frames, PairAnswerInv, PairInv, TypeInv, TypeOK, Call
<1>2. /\ \A ref, tk : PairAnswering(z, ref, tk)
      /\ z.pc = "request"
  BY FreshPairAnswer
<1> HIDE DEF f, z
<1>3. ASSUME NEW g \in Frames, g # f
      PROVE  frame'[g] = frame[g] /\ frame[g].pc = "off"
  <2>1. g[1] = t /\ g[2] \in 1..MaxDepth
    BY <1>1, FramesType DEF OneThread
  <2> QED
    BY <1>1, <1>3, <2>1 DEF PairAnswerInv, PairInv, Stack
<1>4. ASSUME NEW g \in Frames
      PROVE  PairAnswering(frame'[g], refused'[g[1]], tok')
  <2>1. CASE g = f
    BY <1>1, <1>2, <2>1
  <2>2. CASE g # f
    <3>1. Placed(frame[g])
      BY PairFacts DEF PairAnswerInv
    <3> QED
      BY <1>3, <2>2, <3>1, IdlePair DEF Placed
  <2> QED
    BY <2>1, <2>2
<1>5. \A h \in Frames : frame'[h].pc # "nested"
  <2>1. TAKE h \in Frames
  <2>2. CASE h = f
    BY <1>1, <1>2, <2>2
  <2>3. CASE h # f
    BY <1>3, <2>3
  <2> QED
    BY <2>2, <2>3
<1> QED
  BY <1>4, <1>5 DEF PairAnswered, Waiting

\* A frame that asks about the predicate of its candidate.
LEMMA PairAsks ==
    ASSUME NEW r, NEW s, NEW ref, NEW tk, PairAnswering(r, ref, tk),
           r.pc = "visit", s.pc = "nested", s.phase = r.phase, s.set = r.set,
           s.qry = r.qry, s.path = r.path, s.i = r.i, s.req = r.req, s.cur = r.cur,
           s.glob = r.glob
    PROVE  PairAnswering(s, ref, tk)
<1>1. \A k, id : Gathers(s, k, id) => Gathers(r, k, id)
  BY DEF Gathers, WalkPcs, Idling
<1>2. Collected(s, ref, tk)
  BY <1>1, StillCollected DEF PairAnswering, WalkPcs
<1>3. Compared(s, ref, tk)
  BY DEF Compared
<1>4. (\A p, k : Walked(s, p, k) => Walked(r, p, k)) /\ (Settled(s) <=> Settled(r))
  BY DEF Walked, WalkPcs, Settled
<1>5. Answers(s, ref)
  BY <1>4 DEF PairAnswering, Answers, Idling
<1>6. IsSet(s, tk)
  BY DEF PairAnswering, IsSet, Holder
<1> QED
  BY <1>2, <1>3, <1>5, <1>6 DEF PairAnswering

LEMMA PairAnswerNest ==
    ASSUME PairAnswerInv, NEW f \in Frames, Nest(f)
    PROVE  PairAnswered' /\ Waiting'
<1> DEFINE g == <<f[1], f[2] + 1>>
           r == frame[f]
           s == [r EXCEPT !.pc = "nested"]
           z == Fresh(ThisVisit(f).pred)
<1>1. /\ frame \in [Frames -> FrameType] /\ r \in FrameType /\ r.pc = "visit"
      /\ TypeOK /\ refused' = refused /\ tok' = tok
      /\ f[2] < MaxDepth /\ ThisVisit(f).pred # NoPred
  BY DEF PairAnswerInv, PairInv, TypeInv, TypeOK, Nest, At
<1>2. /\ g \in Frames /\ g # f
      /\ frame' = [frame EXCEPT ![f] = s, ![g] = z]
  BY <1>1, NestShape
<1>3. /\ \A ref, tk : PairAnswering(z, ref, tk)
      /\ z.pc = "request" /\ z.qry = ThisVisit(f).pred
  BY FreshPairAnswer
<1>4. /\ s.pc = "nested" /\ s.phase = r.phase /\ s.set = r.set /\ s.qry = r.qry
      /\ s.path = r.path /\ s.i = r.i /\ s.req = r.req /\ s.cur = r.cur
      /\ s.glob = r.glob
  BY <1>1 DEF FrameType
<1>5. frame[f] = r /\ g = <<f[1], f[2] + 1>>
  OBVIOUS
<1> HIDE DEF g, r, s, z
<1>6. /\ frame'[f] = s /\ frame'[g] = z
      /\ \A h \in Frames : h # f /\ h # g => frame'[h] = frame[h]
  BY <1>1, <1>2
<1>7. PairAnswering(s, refused[f[1]], tok)
  <2>1. PairAnswering(r, refused[f[1]], tok)
    BY <1>5 DEF PairAnswerInv, PairAnswered
  <2> QED
    BY <1>1, <1>4, <2>1, PairAsks
<1>8. \A h \in Frames : PairAnswering(frame'[h], refused'[h[1]], tok')
  BY <1>1, <1>3, <1>6, <1>7 DEF PairAnswerInv, PairAnswered
<1>9. SUFFICES ASSUME NEW h \in Frames, frame'[h].pc = "nested"
               PROVE  /\ h[2] < MaxDepth
                      /\ ThisVisit(h)'.pred # NoPred
                      /\ frame'[<<h[1], h[2] + 1>>].qry = ThisVisit(h)'.pred
  BY <1>8 DEF PairAnswered, Waiting
<1>10. CASE h = f
  <2>1. ThisVisit(f)' = ThisVisit(f)
    BY <1>4, <1>5, <1>6 DEF ThisVisit, ThisPath
  <2> QED
    BY <1>1, <1>3, <1>5, <1>6, <1>10, <2>1
<1>11. CASE h # f
  <2>1. frame'[h] = frame[h]
    BY <1>3, <1>6, <1>9, <1>11
  <2>2. ThisVisit(h)' = ThisVisit(h)
    BY <2>1 DEF ThisVisit, ThisPath
  <2>3. /\ h[2] < MaxDepth /\ ThisVisit(h).pred # NoPred
        /\ frame[<<h[1], h[2] + 1>>].qry = ThisVisit(h).pred
    BY <1>9, <2>1 DEF PairAnswerInv, Waiting
  <2>4. <<h[1], h[2] + 1>> \in Frames /\ <<h[1], h[2] + 1>> # g
    BY <1>5, <1>11, <2>3, FramesType, QueriesAssumption DEF Frames
  <2>5. frame'[<<h[1], h[2] + 1>>].qry = frame[<<h[1], h[2] + 1>>].qry
    BY <1>4, <1>5, <1>6, <2>4
  <2> QED
    BY <2>2, <2>3, <2>5
<1> QED
  BY <1>10, <1>11

\* A frame whose candidate's predicate does not hold goes on with the next one.
LEMMA PairSkips ==
    ASSUME NEW r, NEW s, NEW ref, NEW tk, PairAnswering(r, ref, tk),
           r.qry \in Queries, Len(r.req) = Len(Paths[r.qry]), r.i \in Nat,
           r.path \in 1..Len(Paths[r.qry]),
           r.pc = "nested", s.pc = "visit", s.i = r.i + 1, s.phase = r.phase,
           s.set = r.set, s.qry = r.qry, s.path = r.path, s.req = r.req,
           s.cur = r.cur, s.glob = r.glob,
           ~ref => ~Selected(Visits(r.qry, r.path)[r.i])
    PROVE  PairAnswering(s, ref, tk)
<1>1. \A k, id : Gathers(s, k, id) => Gathers(r, k, id)
  BY DEF Gathers, WalkPcs, Idling
<1>2. Collected(s, ref, tk)
  <2>1. SUFFICES ASSUME NEW k \in 1..Len(r.req), NEW id \in Ids \cup {-1, 0},
                        Gathers(s, k, id)
        PROVE
        /\ \A n \in Nodes : id \in tk[n] => n \in Hits(r.qry, k)
        /\ ~ref =>
             /\ id \in Ids
             /\ \A j \in 1..Len(Visits(r.qry, k)) :
                  LET n == Visits(r.qry, k)[j].node IN
                  /\ k = r.path /\ s.pc \in WalkPcs => j < s.i
                  /\ Selected(Visits(r.qry, k)[j])
                  => n \in NodesOf(r.set) /\ id \in tk[n]
    BY DEF Collected
  <2>2. /\ \A n \in Nodes : id \in tk[n] => n \in Hits(r.qry, k)
        /\ ~ref =>
             /\ id \in Ids
             /\ \A j \in 1..Len(Visits(r.qry, k)) :
                  LET n == Visits(r.qry, k)[j].node IN
                  /\ k = r.path /\ r.pc \in WalkPcs => j < r.i
                  /\ Selected(Visits(r.qry, k)[j])
                  => n \in NodesOf(r.set) /\ id \in tk[n]
    BY <1>1, <2>1 DEF PairAnswering, Collected
  <2>3. ASSUME ~ref, NEW j \in 1..Len(Visits(r.qry, k)),
               k = r.path /\ s.pc \in WalkPcs => j < s.i,
               Selected(Visits(r.qry, k)[j])
        PROVE  /\ Visits(r.qry, k)[j].node \in NodesOf(r.set)
               /\ id \in tk[Visits(r.qry, k)[j].node]
    <3>1. j \in Nat
      BY LenVisits
    <3>2. k = r.path => j # r.i
      BY <2>3
    <3>3. k = r.path => j < r.i
      BY <2>3, <3>1, <3>2 DEF WalkPcs
    <3> QED
      BY <2>2, <2>3, <3>3
  <2> QED
    BY <2>2, <2>3
<1>3. Compared(s, ref, tk)
  BY DEF Compared
<1>4. Settled(s) <=> Settled(r)
  BY DEF Settled
<1>5. ASSUME ~ref, NEW p \in 1..Len(Paths[r.qry]), NEW k \in 1..Len(Visits(r.qry, p)),
             ~PathInAnd(r.qry, p), Walked(s, p, k), Selected(Visits(r.qry, p)[k])
      PROVE  Visits(r.qry, p)[k].node \in NodesOf(s.set)
  <2>1. k \in Nat
    BY LenVisits
  <2>2. p = r.path => k # r.i
    BY <1>5
  <2>3. Walked(r, p, k)
    BY <1>5, <2>1, <2>2 DEF Walked, WalkPcs
  <2> QED
    BY <1>5, <2>3 DEF PairAnswering, Answers
<1>6. Answers(s, ref)
  BY <1>4, <1>5 DEF PairAnswering, Answers, Idling
<1>7. IsSet(s, tk)
  BY DEF PairAnswering, IsSet, Holder
<1> QED
  BY <1>2, <1>3, <1>6, <1>7 DEF PairAnswering

\* A frame whose candidate's predicate holds adds the candidate.
LEMMA PairSelects ==
    ASSUME NEW r, NEW s, NEW ref, NEW tk, PairAnswering(r, ref, tk),
           r.pc = "nested", s.pc = "add", s.phase = r.phase, s.set = r.set,
           s.qry = r.qry, s.path = r.path, s.i = r.i, s.req = r.req, s.cur = r.cur,
           s.glob = r.glob, Selected(Visits(r.qry, r.path)[r.i])
    PROVE  PairAnswering(s, ref, tk)
<1>1. \A k, id : Gathers(s, k, id) => Gathers(r, k, id)
  BY DEF Gathers, WalkPcs, Idling
<1>2. Collected(s, ref, tk)
  BY <1>1, StillCollected DEF PairAnswering, WalkPcs
<1>3. Compared(s, ref, tk)
  BY DEF Compared
<1>4. (\A p, k : Walked(s, p, k) => Walked(r, p, k)) /\ (Settled(s) <=> Settled(r))
  BY DEF Walked, WalkPcs, Settled
<1>5. Answers(s, ref)
  BY <1>4 DEF PairAnswering, Answers, Idling
<1>6. IsSet(s, tk)
  BY DEF PairAnswering, IsSet, Holder
<1> QED
  BY <1>2, <1>3, <1>5, <1>6 DEF PairAnswering

\* A frame goes on after a nested evaluation according to what its predicate
\* means.
LEMMA PairResumes ==
    ASSUME OnePair, PairAnswerInv, NEW f \in Frames, NEW g \in Frames, NEW s,
           g[1] = f[1], f[2] = g[2] + 1,
           frame[f].pc = "done", frame[g].pc = "nested",
           \/ s = [frame[g] EXCEPT !.pc = "add"] /\ frame[f].set # <<>>
           \/ s = [frame[g] EXCEPT !.pc = "visit", !.i = @ + 1]
              /\ frame[f].set = <<>>
    PROVE  PairAnswering(s, refused[g[1]], tok)
<1> DEFINE r == frame[g]
           ref == refused[g[1]]
           v == Visits(r.qry, r.path)[r.i]
<1>1. /\ r \in FrameType /\ Good(r) /\ PairAnswering(r, ref, tok) /\ r.pc = "nested"
      /\ ThisVisit(g) = v /\ r.qry \in Queries /\ Len(r.req) = Len(Paths[r.qry])
      /\ r.i \in Nat
  BY PairFacts, PairAnswerFacts DEF PairAnswerInv, ThisVisit, ThisPath, Visits
<1>2. r.path \in 1..Len(Paths[r.qry])
  BY <1>1 DEF Good, WalkPcs
<1>3. v.pred = frame[f].qry /\ v.pred # NoPred
  <2>1. f = <<g[1], g[2] + 1>>
    BY FramesType
  <2> QED
    BY <1>1, <2>1 DEF PairAnswerInv, Waiting
<1>4. Selected(v) <=> Truth[frame[f].qry]
  BY <1>3 DEF Selected
<1>5. CASE s = [r EXCEPT !.pc = "add"] /\ frame[f].set # <<>>
  <2>1. Selected(v)
    BY <1>4, <1>5, PairDoneTruth
  <2> HIDE DEF r, ref
  <2>2. /\ s.pc = "add" /\ s.set = r.set /\ s.qry = r.qry /\ s.phase = r.phase
        /\ s.path = r.path /\ s.i = r.i /\ s.req = r.req /\ s.cur = r.cur
        /\ s.glob = r.glob
    BY <1>1, <1>5 DEF FrameType
  <2> QED
    BY <1>1, <2>1, <2>2, PairSelects DEF ref
<1>6. CASE /\ s = [r EXCEPT !.pc = "visit", !.i = @ + 1]
           /\ frame[f].set = <<>>
  <2>1. ~ref => ~Selected(v)
    BY <1>4, <1>6, PairDoneTruth
  <2> HIDE DEF r, ref
  <2>2. /\ s.pc = "visit" /\ s.set = r.set /\ s.qry = r.qry /\ s.phase = r.phase
        /\ s.path = r.path /\ s.i = r.i + 1 /\ s.req = r.req /\ s.cur = r.cur
        /\ s.glob = r.glob
    BY <1>1, <1>6 DEF FrameType
  <2> QED
    BY <1>1, <1>2, <2>1, <2>2, PairSkips DEF ref
<1> QED
  BY <1>5, <1>6 DEF r

LEMMA PairAnswerReturn ==
    ASSUME OnePair, PairAnswerInv, NEW f \in Frames, Return(f)
    PROVE  PairAnswered' /\ Waiting'
<1> DEFINE g == <<f[1], f[2] - 1>>
           r == frame[g]
<1>1. /\ frame \in [Frames -> FrameType] /\ TypeInv /\ Stack
      /\ refused' = refused /\ tok' = tok
  BY DEF PairAnswerInv, PairInv, TypeInv, TypeOK, Return
<1>2. frame[f].pc = "done"
  BY <1>1, ReturnShape
<1>3. Off.pc = "off" /\ \A ref, tk : PairAnswering(Off, ref, tk)
  BY FreshPairAnswer
<1>4. PICK s : \/ f[2] = 1 /\ frame' = [frame EXCEPT ![f] = Off]
               \/ /\ f[2] # 1 /\ g \in Frames /\ g # f /\ r.pc = "nested"
                  /\ frame' = [frame EXCEPT ![f] = Off, ![g] = s]
                  /\ \/ s = [r EXCEPT !.pc = "add"] /\ frame[f].set # <<>>
                     \/ s = [r EXCEPT !.pc = "visit", !.i = @ + 1]
                        /\ frame[f].set = <<>>
  BY <1>1, ReturnShape
<1>5. g[1] = f[1] /\ f[2] = g[2] + 1 /\ f = <<f[1], f[2]>> /\ f[2] \in Nat
  BY FramesType, QueriesAssumption
<1> HIDE DEF g
<1>6. f[2] # 1 => /\ PairAnswering(s, refused[g[1]], tok) /\ s.pc # "nested"
                  /\ s.qry = r.qry
  <2>1. SUFFICES ASSUME f[2] # 1
                 PROVE  /\ PairAnswering(s, refused[g[1]], tok) /\ s.pc # "nested"
                        /\ s.qry = r.qry
    OBVIOUS
  <2>2. PairAnswering(s, refused[g[1]], tok)
    BY <1>2, <1>4, <1>5, <2>1, PairResumes
  <2>3. r \in FrameType
    BY <1>1, <1>4, <2>1
  <2> HIDE DEF r
  <2>4. CASE s = [r EXCEPT !.pc = "add"]
    BY <2>2, <2>3, <2>4 DEF FrameType
  <2>5. CASE s = [r EXCEPT !.pc = "visit", !.i = @ + 1]
    BY <2>2, <2>3, <2>5 DEF FrameType
  <2> QED
    BY <1>4, <2>1, <2>4, <2>5
<1>7. /\ frame'[f] = Off
      /\ f[2] # 1 => g \in Frames /\ frame'[g] = s
      /\ \A h \in Frames : h # f /\ (h = g => f[2] = 1) => frame'[h] = frame[h]
  BY <1>1, <1>4
<1>8. \A h \in Frames : PairAnswering(frame'[h], refused'[h[1]], tok')
  BY <1>1, <1>3, <1>6, <1>7 DEF PairAnswerInv, PairAnswered
<1>9. SUFFICES ASSUME NEW h \in Frames, frame'[h].pc = "nested"
               PROVE  /\ h[2] < MaxDepth
                      /\ ThisVisit(h)'.pred # NoPred
                      /\ frame'[<<h[1], h[2] + 1>>].qry = ThisVisit(h)'.pred
  BY <1>8 DEF PairAnswered, Waiting
<1>10. h # f /\ (h = g => f[2] = 1) /\ frame'[h] = frame[h]
  BY <1>3, <1>6, <1>7, <1>9
<1>11. ThisVisit(h)' = ThisVisit(h)
  BY <1>10 DEF ThisVisit, ThisPath
<1>12. /\ h[2] < MaxDepth /\ ThisVisit(h).pred # NoPred
       /\ frame[<<h[1], h[2] + 1>>].qry = ThisVisit(h).pred
  BY <1>9, <1>10 DEF PairAnswerInv, Waiting
<1> DEFINE above == <<h[1], h[2] + 1>>
<1>13. above \in Frames
  BY <1>12, FramesType, QueriesAssumption DEF Frames
<1>14. above # f
  <2>1. SUFFICES ASSUME above = f PROVE FALSE
    OBVIOUS
  <2>2. h = g
    BY <1>5, <2>1, FramesType, QueriesAssumption DEF g
  <2>3. f[2] = h[2] + 1 /\ h[2] \in 1..MaxDepth
    BY <2>1, FramesType
  <2> QED
    BY <1>10, <2>2, <2>3, QueriesAssumption
<1>15. frame'[above].qry = frame[above].qry
  BY <1>6, <1>7, <1>13, <1>14
<1> QED
  BY <1>11, <1>12, <1>15

-----------------------------------------------------------------------------
(* The theorems about answers.                                             *)

\* Answers, tokens and waiting frames agree in every reachable state when one
\* thread queries and no xpath has more than one 'and'.
THEOREM PairAnswerInvariant ==
    ASSUME OneThread, OnePair
    PROVE  Spec => []PairAnswerInv
<1>1. Init => PairAnswered /\ Waiting
  <2> SUFFICES ASSUME Init
               PROVE  PairAnswered /\ Waiting
    OBVIOUS
  <2>1. \A f \in Frames : frame[f] = Off
    BY DEF Init
  <2>2. Off.pc = "off" /\ \A ref, tk : PairAnswering(Off, ref, tk)
    BY FreshPairAnswer
  <2> QED
    BY <2>1, <2>2 DEF PairAnswered, Waiting
<1>2. PairInv /\ PairInv' /\ PairAnswered /\ Waiting /\ [Next]_vars =>
          (PairAnswered /\ Waiting)'
  <2> SUFFICES ASSUME PairInv, PairInv', PairAnswered, Waiting, [Next]_vars
               PROVE  PairAnswered' /\ Waiting'
    OBVIOUS
  <2>0. PairAnswerInv /\ TypeOK'
    BY DEF PairAnswerInv, PairInv, TypeInv
  <2>1. CASE UNCHANGED vars
    BY <2>0, <2>1 DEF PairAnswered, Waiting, ThisVisit, ThisPath, vars
  <2>2. ASSUME NEW t \in Threads, NEW q \in TopQueries, Call(t, q)
        PROVE  PairAnswered' /\ Waiting'
    BY <2>0, <2>2, PairAnswerCall
  <2>3. ASSUME NEW f \in Frames, Exec(f)
        PROVE  PairAnswered' /\ Waiting'
    <3>1. CASE LocalStep(f)
      BY <2>0, <3>1, PairAnsweredLocal, PairWaitingLocal
    <3>2. CASE Nest(f)
      BY <2>0, <3>2, PairAnswerNest
    <3>3. CASE Return(f)
      BY <2>0, <3>3, PairAnswerReturn
    <3> QED
      BY <2>3, <3>1, <3>2, <3>3, ExecCases
  <2> QED
    BY <2>1, <2>2, <2>3 DEF Next
<1> QED
  BY <1>1, <1>2, PairInvariant, PTL DEF Spec, PairAnswerInv

\* An evaluation that has nodes left in its set holds, when one thread queries
\* and no xpath has more than one 'and', even when it or a predicate it asks is
\* refused an id: roxml_compute_and empties the set unless both paths selected
\* something.  Without an 'and' the set is a subset of the answer.
THEOREM PairAnswersAreSound ==
    ASSUME OneThread, OnePair
    PROVE  Spec => []AnswerSound
<1>1. PairAnswerInv => AnswerSound
  BY PairDoneTruth DEF AnswerSound
<1> QED
  BY <1>1, PairAnswerInvariant, PTL

\* An evaluation that was refused no id has nodes in its set exactly when its
\* xpath holds, and without an 'and' exactly those it selects, when one thread
\* queries and no xpath has more than one 'and': the tokens of the two paths
\* tell roxml_compute_and which of them selected something, whatever nested
\* evaluations do to the table in between.
THEOREM PairAnswersAreExact ==
    ASSUME OneThread, OnePair
    PROVE  Spec => []AnswerExact
<1>1. ASSUME PairAnswerInv PROVE AnswerExact
  <2>1. SUFFICES ASSUME NEW f \in Frames, frame[f].pc = "done", ~refused[f[1]]
                 PROVE  /\ (frame[f].set # <<>>) = Truth[frame[f].qry]
                        /\ OrOnly(frame[f].qry) =>
                              /\ NoRepetition(frame[f].set)
                              /\ NodesOf(frame[f].set) = Answer(frame[f].qry)
    BY DEF AnswerExact
  <2>2. frame[f].qry \in Queries
    BY <1>1, PairAnswerFacts DEF PairAnswerInv
  <2>3. Truth[frame[f].qry] \in BOOLEAN
    BY <2>2, TruthAssumption
  <2>4. (frame[f].set # <<>>) = Truth[frame[f].qry]
    BY <1>1, <2>1, <2>3, PairDoneTruth
  <2>5. OrOnly(frame[f].qry) =>
            /\ NoRepetition(frame[f].set)
            /\ NodesOf(frame[f].set) = Answer(frame[f].qry)
    BY <1>1, <2>1, PairDoneTruth
  <2> QED
    BY <2>4, <2>5
<1> QED
  BY <1>1, PairAnswerInvariant, PTL
=============================================================================
