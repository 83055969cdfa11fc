-------------------------- MODULE RoxmlPool_proofs --------------------------
(***************************************************************************)
(* Theorems about RoxmlPool, for any number of threads, nodes, ids and     *)
(* queries.                                                                *)
(***************************************************************************)
EXTENDS RoxmlPool, TLAPS

-----------------------------------------------------------------------------
(* Facts about the constants.                                              *)

LEMMA VisitType ==
    ASSUME NEW q \in Queries, NEW p \in 1..Len(Paths[q]),
           NEW k \in 1..Len(Visits(q, p))
    PROVE  /\ Visits(q, p)[k].node \in Nodes
           /\ Visits(q, p)[k].pred \in Queries \cup {NoPred}
<1>1. Paths[q] \in Seq(Path)
  BY QueriesAssumption
<1>2. Paths[q][p] \in Path
  BY <1>1
<1>3. Visits(q, p) \in Seq(Visit)
  BY <1>2 DEF Path, Visits
<1>4. Visits(q, p)[k] \in Visit
  BY <1>3
<1> QED
  BY <1>4 DEF Visit

LEMMA LenVisits ==
    ASSUME NEW q \in Queries, NEW p \in 1..Len(Paths[q])
    PROVE  Len(Visits(q, p)) \in Nat
<1>1. Paths[q] \in Seq(Path)
  BY QueriesAssumption
<1>2. Paths[q][p] \in Path
  BY <1>1
<1> QED
  BY <1>2 DEF Path, Visits

LEMMA UCharId ==
    ASSUME NEW id \in Ids \cup {-1}
    PROVE  UChar(id) \in Ids \cup {255}
<1>1. CASE id \in Ids
  BY <1>1, IdsAssumption DEF Ids, UChar
<1>2. CASE id = -1
  BY <1>2 DEF UChar
<1> QED
  BY <1>1, <1>2

LEMMA LenPaths ==
    ASSUME NEW q \in Queries
    PROVE  Len(Paths[q]) \in Nat \ {0}
  BY QueriesAssumption

-----------------------------------------------------------------------------
(* Type correctness.  Good says of one frame what its type does not: that  *)
(* its counters are inside the parsed xpath whenever they are used, that   *)
(* it marks nodes only with an id it was given, and that only the paths of *)
(* an 'and' have an id.                                                    *)

WalkPcs == {"visit", "nested", "add"}
AndPcs == {"probe1", "probe2", "wipe1", "wipe2"}
OrPcs == {"or1", "or2", "or3"}

PathInAnd(q, p) ==
    \/ Paths[q][p].rel = "and"
    \/ p < Len(Paths[q]) /\ Paths[q][p + 1].rel = "and"

Good(r) ==
    /\ r \in FrameType
    /\ Len(r.req) = Len(Paths[r.qry])
    /\ r.pc = "head" => r.path # 0
    /\ r.pc \in WalkPcs \cup AndPcs \cup OrPcs =>
          r.path \in 1..Len(Paths[r.qry]) /\ r.i # 0
    /\ r.pc \in WalkPcs => r.phase # "end"
    /\ r.pc \in {"nested", "add"} => r.i <= Len(Visits(r.qry, r.path))
    /\ r.pc \notin {"off", "request", "done"} => r.glob \in Ids
    /\ r.pc \in WalkPcs /\ r.phase = "and" =>
          r.cur # 0 /\ PathInAnd(r.qry, r.path)
    /\ r.pc \in AndPcs => PathInAnd(r.qry, r.path)
    /\ r.pc \in OrPcs => r.path < Len(Paths[r.qry])
    /\ \A p \in 1..Len(r.req) : r.req[p] # 0 => PathInAnd(r.qry, p)

TypeInv ==
    /\ TypeOK
    /\ \A f \in Frames : Good(frame[f])

LEMMA FreshGood ==
    ASSUME NEW q \in Queries
    PROVE  Good(Fresh(q)) /\ Good([Fresh(q) EXCEPT !.pc = "off"])
<1>1. [p \in 1..Len(Paths[q]) |-> 0] \in Seq(Ids \cup {-1, 0})
  BY LenPaths
<1>2. <<>> \in Seq(Nodes)
  OBVIOUS
<1>3. Fresh(q) \in FrameType
  BY <1>1, <1>2 DEF Fresh, FrameType, Pcs
<1>4. [Fresh(q) EXCEPT !.pc = "off"] \in FrameType
  BY <1>3 DEF FrameType, Pcs
<1>5. Len(Fresh(q).req) = Len(Paths[q])
  BY LenPaths DEF Fresh
<1> QED
  BY <1>3, <1>4, <1>5 DEF Good, Fresh, WalkPcs, AndPcs, OrPcs

LEMMA OffGood == Good(Off)
  BY FreshGood, QueriesAssumption DEF Off

LEMMA TypeInit == Init => TypeInv
<1> SUFFICES ASSUME Init PROVE TypeInv
  OBVIOUS
<1>1. Off \in FrameType
  BY OffGood DEF Good
<1>2. \A f \in Frames : frame[f] = Off
  BY DEF Init
<1>3. TypeOK
  BY <1>1, QueriesAssumption DEF Init, TypeOK
<1> QED
  BY <1>2, <1>3, OffGood DEF TypeInv

\* A step that changes one frame, into a good one.
LEMMA TypeFrame ==
    ASSUME TypeInv, NEW f \in Frames,
           frame' = [frame EXCEPT ![f] = frame'[f]], Good(frame'[f]),
           ids' \in [Ids -> {0, 1}], tok' \in [Nodes -> SUBSET (Ids \cup {255})],
           top' \in [Threads -> 0..MaxDepth], refused' \in [Threads -> BOOLEAN]
    PROVE  TypeInv'
<1>1. frame' \in [Frames -> FrameType]
  BY DEF TypeInv, TypeOK, Good
<1>2. \A g \in Frames : Good(frame'[g])
  BY DEF TypeInv, TypeOK
<1> QED
  BY <1>1, <1>2 DEF TypeInv, TypeOK

LEMMA TypeCall ==
    ASSUME TypeInv, NEW t \in Threads, NEW q \in TopQueries, Call(t, q)
    PROVE  TypeInv'
<1>1. q \in Queries /\ <<t, 1>> \in Frames
  BY QueriesAssumption DEF Frames
<1>2. Good(Fresh(q))
  BY <1>1, FreshGood
<1>3. frame'[<<t, 1>>] = Fresh(q)
  BY <1>1 DEF Call, TypeInv, TypeOK
<1>4. top' \in [Threads -> 0..MaxDepth] /\ refused' \in [Threads -> BOOLEAN]
  BY QueriesAssumption DEF Call, TypeInv, TypeOK
<1>5. frame' = [frame EXCEPT ![<<t, 1>>] = frame'[<<t, 1>>]]
  BY <1>3 DEF Call
<1>6. ids' \in [Ids -> {0, 1}] /\ tok' \in [Nodes -> SUBSET (Ids \cup {255})]
  BY DEF Call, TypeInv, TypeOK
<1>7. Good(frame'[<<t, 1>>])
  BY <1>2, <1>3
<1> QED
  BY <1>1, <1>4, <1>5, <1>6, <1>7, TypeFrame

LEMMA TypeRequestId ==
    ASSUME TypeInv, NEW f \in Frames, NEW id, RequestId(f, id)
    PROVE  ids' \in [Ids -> {0, 1}] /\ refused' \in [Threads -> BOOLEAN]
<1>1. ids \in [Ids -> {0, 1}] /\ refused \in [Threads -> BOOLEAN]
  BY DEF TypeInv, TypeOK
<1>2. CASE ids' = [ids EXCEPT ![id] = 1] /\ UNCHANGED refused
  BY <1>1, <1>2
<1>3. CASE refused' = [refused EXCEPT ![f[1]] = TRUE] /\ UNCHANGED ids
  BY <1>1, <1>3
<1> QED
  BY <1>2, <1>3 DEF RequestId

LEMMA TypeRequestGlob ==
    ASSUME TypeInv, NEW f \in Frames, RequestGlob(f)
    PROVE  TypeInv'
<1>1. PICK id \in Ids \cup {-1} :
         /\ RequestId(f, id)
         /\ frame' = [frame EXCEPT ![f].glob = id,
                                   ![f].pc = IF id < 0 THEN "done" ELSE "head"]
  BY DEF RequestGlob
<1>2. id < 0 <=> id = -1
  BY IdsAssumption DEF Ids
<1>3. Good(frame'[f])
  BY <1>1, <1>2 DEF RequestGlob, Good, FrameType, At, Pcs, WalkPcs, AndPcs,
                    OrPcs, TypeInv, TypeOK
<1>4. frame' = [frame EXCEPT ![f] = frame'[f]]
  BY <1>1 DEF TypeInv, TypeOK
<1>5. ids' \in [Ids -> {0, 1}] /\ refused' \in [Threads -> BOOLEAN]
  BY <1>1, TypeRequestId
<1>6. tok' \in [Nodes -> SUBSET (Ids \cup {255})] /\ top' \in [Threads -> 0..MaxDepth]
  BY DEF RequestGlob, TypeInv, TypeOK
<1> QED
  BY <1>3, <1>4, <1>5, <1>6, TypeFrame

\* A step of one frame that touches no table.
LEMMA TypeLocal ==
    ASSUME TypeInv, NEW f \in Frames,
           frame' = [frame EXCEPT ![f] = frame'[f]], Good(frame'[f]),
           UNCHANGED <<ids, tok, top, refused>>
    PROVE  TypeInv'
  BY TypeFrame DEF TypeInv, TypeOK

\* A step of one frame that adds or removes a token.
LEMMA TypeToken ==
    ASSUME TypeInv, NEW f \in Frames,
           frame' = [frame EXCEPT ![f] = frame'[f]], Good(frame'[f]),
           NEW n, NEW id,
           \/ id \in Ids \cup {-1} /\ AddToPool(n, id)
           \/ DelFromPool(n, id),
           UNCHANGED <<ids, top, refused>>
    PROVE  TypeInv'
<1> DEFINE S == Ids \cup {255}
<1>1. tok \in [Nodes -> SUBSET S]
  BY DEF TypeInv, TypeOK
<1>2. ASSUME id \in Ids \cup {-1}, AddToPool(n, id)
      PROVE  tok' \in [Nodes -> SUBSET S]
  <2>1. UChar(id) \in S
    BY <1>2, UCharId
  <2> HIDE DEF S
  <2> QED
    BY <1>1, <1>2, <2>1 DEF AddToPool
<1>3. ASSUME DelFromPool(n, id)
      PROVE  tok' \in [Nodes -> SUBSET S]
  <2> HIDE DEF S
  <2> QED
    BY <1>1, <1>3 DEF DelFromPool
<1>4. tok' \in [Nodes -> SUBSET (Ids \cup {255})]
  BY <1>2, <1>3
<1> QED
  BY <1>4, TypeFrame DEF TypeInv, TypeOK

LEMMA WalkIdType ==
    ASSUME TypeInv, NEW f \in Frames, frame[f].pc \in WalkPcs
    PROVE  WalkId(f) \in Ids \cup {-1}
  BY IdsAssumption DEF TypeInv, Good, FrameType, WalkId, WalkPcs, Ids

\* The frame and its candidate at the end of the path of a walk.
LEMMA ThisVisitType ==
    ASSUME TypeInv, NEW f \in Frames,
           \/ frame[f].pc \in {"nested", "add"}
           \/ frame[f].pc = "visit" /\ InVisits(f)
    PROVE  /\ frame[f].i \in 1..Len(Visits(frame[f].qry, frame[f].path))
           /\ ThisVisit(f) = Visits(frame[f].qry, frame[f].path)[frame[f].i]
           /\ ThisVisit(f).node \in Nodes
           /\ ThisVisit(f).pred \in Queries \cup {NoPred}
<1>1. Good(frame[f])
  BY DEF TypeInv
<1>2. /\ frame[f].qry \in Queries
      /\ frame[f].path \in 1..Len(Paths[frame[f].qry])
      /\ frame[f].i \in Nat \ {0}
  BY <1>1 DEF Good, FrameType, WalkPcs
<1>3. Len(Visits(frame[f].qry, frame[f].path)) \in Nat
  BY <1>2, LenVisits
<1>4. frame[f].i \in 1..Len(Visits(frame[f].qry, frame[f].path))
  BY <1>1, <1>2, <1>3 DEF Good, InVisits, ThisPath, Visits
<1>5. ThisVisit(f) = Visits(frame[f].qry, frame[f].path)[frame[f].i]
  BY DEF ThisVisit, ThisPath, Visits
<1> QED
  BY <1>2, <1>4, <1>5, VisitType

\* What Good asks of a frame that a step changes, its xpath apart.
LEMMA GoodStep ==
    ASSUME NEW r, NEW s, Good(r), s \in FrameType, s.qry = r.qry,
           \/ s.req = r.req
           \/ /\ Len(s.req) = Len(r.req)
              /\ \A p \in 1..Len(s.req) :
                    s.req[p] # 0 => s.req[p] = r.req[p] \/ PathInAnd(r.qry, p),
           s.glob = r.glob, s.glob \in Ids \/ s.pc \in {"off", "request", "done"},
           s.pc = "head" => s.path # 0,
           s.pc \in WalkPcs => s.phase # "end",
           s.pc \in WalkPcs \cup AndPcs \cup OrPcs =>
               s.path \in 1..Len(Paths[s.qry]) /\ s.i # 0,
           s.pc \in {"nested", "add"} => s.i <= Len(Visits(s.qry, s.path)),
           s.pc \in WalkPcs /\ s.phase = "and" =>
               s.cur # 0 /\ PathInAnd(s.qry, s.path),
           s.pc \in AndPcs => PathInAnd(s.qry, s.path),
           s.pc \in OrPcs => s.path < Len(Paths[s.qry])
    PROVE  Good(s)
  BY DEF Good

LEMMA SeqUpdate ==
    ASSUME NEW S, NEW x \in Seq(S), NEW k \in 1..Len(x), NEW v \in S
    PROVE  /\ [x EXCEPT ![k] = v] \in Seq(S)
           /\ Len([x EXCEPT ![k] = v]) = Len(x)
  OBVIOUS

\* Storing the request id of a path that is part of an 'and'.
LEMMA ReqStored ==
    ASSUME NEW r, Good(r), r.path \in 1..Len(Paths[r.qry]),
           PathInAnd(r.qry, r.path), NEW q, q = [r.req EXCEPT ![r.path] = r.cur]
    PROVE  /\ q \in Seq(Ids \cup {-1, 0}) /\ Len(q) = Len(r.req)
           /\ \A p \in 1..Len(q) :
                 q[p] # 0 => q[p] = r.req[p] \/ PathInAnd(r.qry, p)
<1> DEFINE S == Ids \cup {-1, 0}
<1>1. r.req \in Seq(S) /\ r.cur \in S
  BY DEF Good, FrameType
<1> HIDE DEF S
<1>2. q \in Seq(S) /\ Len(q) = Len(r.req)
  BY <1>1, SeqUpdate DEF Good
<1>3. \A p \in 1..Len(q) : p # r.path => q[p] = r.req[p]
  BY <1>1
<1> QED
  BY <1>2, <1>3 DEF S

LEMMA TypeAndHead ==
    ASSUME TypeInv, NEW f \in Frames, AndHead(f)
    PROVE  TypeInv'
<1> DEFINE r == frame[f]
           s == frame'[f]
<1>1. frame \in [Frames -> FrameType] /\ Good(r)
  BY DEF TypeInv, TypeOK
<1>2. r \in FrameType /\ r.pc = "head"
  BY <1>1 DEF AndHead, At
<1>3. \/ s = [r EXCEPT !.phase = "or", !.path = 1]
      \/ s = [r EXCEPT !.path = @ + 1]
  BY <1>1 DEF AndHead
<1>4. frame' = [frame EXCEPT ![f] = s]
  BY <1>1 DEF AndHead
<1> HIDE DEF r, s
<1>5. r.path + 1 \in Nat \ {0}
  BY <1>2 DEF FrameType
<1>6. r.glob \in Ids
  BY <1>1, <1>2 DEF Good
<1>7. CASE s = [r EXCEPT !.phase = "or", !.path = 1]
  <2>1. s \in FrameType
    BY <1>2, <1>5, <1>6, <1>7 DEF FrameType, Pcs
  <2>2. /\ s.pc = r.pc /\ s.phase = "or" /\ s.path = 1 /\ s.qry = r.qry
        /\ s.req = r.req /\ s.glob = r.glob /\ s.i = r.i /\ s.cur = r.cur
    BY <1>2, <1>7 DEF FrameType
  <2>3. Good(s)
    BY <1>1, <1>2, <1>5, <1>6, <2>1, <2>2, GoodStep
        DEF WalkPcs, AndPcs, OrPcs
  <2> QED
    BY <1>4, <2>3, TypeLocal DEF AndHead, s
<1>8. CASE s = [r EXCEPT !.path = @ + 1]
  <2>1. s \in FrameType
    BY <1>2, <1>5, <1>6, <1>8 DEF FrameType, Pcs
  <2>2. /\ s.pc = r.pc /\ s.path = r.path + 1 /\ s.qry = r.qry /\ s.req = r.req
        /\ s.glob = r.glob /\ s.i = r.i /\ s.phase = r.phase /\ s.cur = r.cur
    BY <1>2, <1>8 DEF FrameType
  <2>3. Good(s)
    BY <1>1, <1>2, <1>5, <1>6, <2>1, <2>2, GoodStep
        DEF WalkPcs, AndPcs, OrPcs
  <2> QED
    BY <1>4, <2>3, TypeLocal DEF AndHead, s
<1> QED
  BY <1>3, <1>7, <1>8

LEMMA TypeRequestAnd ==
    ASSUME TypeInv, NEW f \in Frames, RequestAnd(f)
    PROVE  TypeInv'
<1> DEFINE r == frame[f]
           s == frame'[f]
<1>1. frame \in [Frames -> FrameType] /\ Good(r)
  BY DEF TypeInv, TypeOK
<1>2. r \in FrameType /\ r.pc = "head" /\ r.phase = "and"
  BY <1>1 DEF RequestAnd, At, InPhase
<1>3. r.path <= Len(Paths[r.qry]) /\ PathInAnd(r.qry, r.path)
  BY DEF RequestAnd, InPaths, NbPaths, InAnd, ThisPath, PathInAnd
<1>4. PICK id \in Ids \cup {-1} :
         /\ RequestId(f, id)
         /\ frame' = [frame EXCEPT ![f].cur = id, ![f].pc = "visit", ![f].i = 1]
  BY DEF RequestAnd
<1>5. s = [r EXCEPT !.cur = id, !.pc = "visit", !.i = 1]
  BY <1>1, <1>4
<1>6. frame' = [frame EXCEPT ![f] = s]
  BY <1>1, <1>4
<1> HIDE DEF r, s
<1>7. r.path \in 1..Len(Paths[r.qry]) /\ r.glob \in Ids
  BY <1>1, <1>2, <1>3, LenPaths DEF Good, FrameType
<1>8. s \in FrameType
  BY <1>2, <1>5 DEF FrameType, Pcs
<1>9. /\ s.pc = "visit" /\ s.i = 1 /\ s.cur = id /\ s.qry = r.qry
      /\ s.path = r.path /\ s.glob = r.glob /\ s.req = r.req /\ s.phase = "and"
  BY <1>2, <1>5 DEF FrameType
<1>10. id # 0
  BY IdsAssumption DEF Ids
<1>11. Good(s)
  BY <1>1, <1>3, <1>7, <1>8, <1>9, <1>10, GoodStep DEF WalkPcs, AndPcs, OrPcs
<1>12. ids' \in [Ids -> {0, 1}] /\ refused' \in [Threads -> BOOLEAN]
  BY <1>4, TypeRequestId
<1> QED
  BY <1>6, <1>11, <1>12, TypeFrame DEF RequestAnd, TypeInv, TypeOK, s

LEMMA TypeAddToSet ==
    ASSUME TypeInv, NEW f \in Frames, AddToSet(f)
    PROVE  TypeInv'
<1> DEFINE n == ThisVisit(f).node
           r == frame[f]
           s == frame'[f]
<1>1. frame \in [Frames -> FrameType] /\ Good(r)
  BY DEF TypeInv, TypeOK
<1>2. r \in FrameType /\ r.pc \in {"visit", "add"}
  BY <1>1 DEF AddToSet, At
<1>3. n \in Nodes
  BY ThisVisitType DEF AddToSet, At
<1>4. WalkId(f) \in Ids \cup {-1}
  BY <1>2, WalkIdType DEF WalkPcs
<1> HIDE DEF n
<1>5. \/ s = [r EXCEPT !.pc = "visit", !.i = @ + 1] /\ UNCHANGED tok
      \/ /\ s = [r EXCEPT !.pc = "visit", !.i = @ + 1, !.set = Append(@, n)]
         /\ AddToPool(n, WalkId(f))
  BY <1>1 DEF AddToSet, n
<1>6. frame' = [frame EXCEPT ![f] = s]
  BY <1>1 DEF AddToSet
<1> HIDE DEF r, s
<1>7. r.i + 1 \in Nat \ {0} /\ Append(r.set, n) \in Seq(Nodes)
  BY <1>2, <1>3 DEF FrameType
<1>8. /\ r.path \in 1..Len(Paths[r.qry]) /\ r.phase # "end" /\ r.glob \in Ids
      /\ r.phase = "and" => r.cur # 0 /\ PathInAnd(r.qry, r.path)
  BY <1>1, <1>2 DEF Good, WalkPcs
<1>9. CASE s = [r EXCEPT !.pc = "visit", !.i = @ + 1] /\ UNCHANGED tok
  <2>1. s \in FrameType
    BY <1>2, <1>7, <1>9 DEF FrameType, Pcs
  <2>2. /\ s.pc = "visit" /\ s.i = r.i + 1 /\ s.qry = r.qry /\ s.cur = r.cur
        /\ s.path = r.path /\ s.glob = r.glob /\ s.req = r.req
        /\ s.phase = r.phase
    BY <1>2, <1>9 DEF FrameType
  <2>3. Good(s)
    BY <1>1, <1>7, <1>8, <2>1, <2>2, GoodStep DEF WalkPcs, AndPcs, OrPcs
  <2> QED
    BY <1>6, <1>9, <2>3, TypeLocal DEF AddToSet, s
<1>10. CASE /\ s = [r EXCEPT !.pc = "visit", !.i = @ + 1, !.set = Append(@, n)]
            /\ AddToPool(n, WalkId(f))
  <2>1. s \in FrameType
    BY <1>2, <1>7, <1>10 DEF FrameType, Pcs
  <2>2. /\ s.pc = "visit" /\ s.i = r.i + 1 /\ s.qry = r.qry /\ s.cur = r.cur
        /\ s.path = r.path /\ s.glob = r.glob /\ s.req = r.req
        /\ s.phase = r.phase
    BY <1>2, <1>10 DEF FrameType
  <2>3. Good(s)
    BY <1>1, <1>7, <1>8, <2>1, <2>2, GoodStep DEF WalkPcs, AndPcs, OrPcs
  <2> QED
    BY <1>4, <1>6, <1>10, <2>3, TypeToken DEF AddToSet, s
<1> QED
  BY <1>5, <1>9, <1>10

LEMMA TypeEndOfWalk ==
    ASSUME TypeInv, NEW f \in Frames, EndOfWalk(f)
    PROVE  TypeInv'
<1> DEFINE r == frame[f]
           s == frame'[f]
           q == [r.req EXCEPT ![r.path] = r.cur]
<1>1. frame \in [Frames -> FrameType] /\ Good(r)
  BY DEF TypeInv, TypeOK
<1>2. r \in FrameType /\ r.pc = "visit" /\ ~InVisits(f)
  BY <1>1 DEF EndOfWalk, At
<1>q. q = [r.req EXCEPT ![r.path] = r.cur]
  OBVIOUS
<1> HIDE DEF q
<1>3. \/ r.phase = "and" /\ s = [r EXCEPT !.pc = "probe1", !.i = 1,
                                        !.has1 = FALSE, !.has2 = FALSE]
      \/ r.phase = "and" /\ s = [r EXCEPT !.pc = "head", !.path = @ + 1,
                                        !.req = q]
      \/ s = [r EXCEPT !.pc = "head", !.path = @ + 1]
  <2>1. \/ frame[f].phase = "and" /\ frame' = [frame EXCEPT ![f].pc = "probe1",
                                        ![f].i = 1, ![f].has1 = FALSE, ![f].has2 = FALSE]
        \/ frame[f].phase = "and" /\ frame' = [frame EXCEPT ![f].pc = "head",
                                        ![f].path = @ + 1, ![f].req[frame[f].path] = frame[f].cur]
        \/ frame' = [frame EXCEPT ![f].pc = "head", ![f].path = @ + 1]
    BY DEF EndOfWalk, InPhase
  <2>2. frame' = [frame EXCEPT ![f].pc = "probe1", ![f].i = 1,
                               ![f].has1 = FALSE, ![f].has2 = FALSE]
        => s = [r EXCEPT !.pc = "probe1", !.i = 1, !.has1 = FALSE,
                         !.has2 = FALSE]
    BY <1>1, <1>q
  <2>3. frame' = [frame EXCEPT ![f].pc = "head", ![f].path = @ + 1,
                               ![f].req[frame[f].path] = frame[f].cur]
        => s = [r EXCEPT !.pc = "head", !.path = @ + 1, !.req = q]
    BY <1>1, <1>q
  <2>4. frame' = [frame EXCEPT ![f].pc = "head", ![f].path = @ + 1]
        => s = [r EXCEPT !.pc = "head", !.path = @ + 1]
    BY <1>1, <1>q
  <2> QED
    BY <2>1, <2>2, <2>3, <2>4
<1>4. frame' = [frame EXCEPT ![f] = s]
  BY <1>1 DEF EndOfWalk
<1> HIDE DEF r, s
<1>5. r.path + 1 \in Nat \ {0}
  BY <1>2 DEF FrameType
<1>6. r.path \in 1..Len(Paths[r.qry]) /\ r.i # 0
  BY <1>1, <1>2 DEF Good, WalkPcs, AndPcs, OrPcs
<1>7. r.glob \in Ids
  BY <1>1, <1>2 DEF Good
<1>8. CASE r.phase = "and" /\ s = [r EXCEPT !.pc = "probe1", !.i = 1,
                                        !.has1 = FALSE, !.has2 = FALSE]
  <2>1. r.phase = "and"
    BY <1>8
  <2>2. PathInAnd(r.qry, r.path)
    BY <1>1, <1>2, <1>6, <1>8 DEF Good, WalkPcs
  <2>3. s \in FrameType
    BY <1>2, <1>5, <1>6, <1>7, <2>1, <2>2, <1>8 DEF FrameType, Pcs
  <2>4. /\ s.pc = "probe1" /\ s.i = 1 /\ s.qry = r.qry /\ s.req = r.req
        /\ s.glob = r.glob /\ s.path = r.path /\ s.phase = r.phase
        /\ s.cur = r.cur
    BY <1>2, <1>8 DEF FrameType
  <2>5. Good(s)
    BY <1>1, <1>2, <1>5, <1>6, <1>7, <2>1, <2>2, <2>3, <2>4, GoodStep
        DEF WalkPcs, AndPcs, OrPcs
  <2> QED
    BY <1>4, <2>5, TypeLocal DEF EndOfWalk, s
<1>9. CASE r.phase = "and" /\ s = [r EXCEPT !.pc = "head", !.path = @ + 1,
                                        !.req = q]
  <2>1. r.phase = "and"
    BY <1>9
  <2>2. PathInAnd(r.qry, r.path)
    BY <1>1, <1>2, <1>6, <1>9 DEF Good, WalkPcs
  <2>3. /\ q \in Seq(Ids \cup {-1, 0}) /\ Len(q) = Len(r.req)
      /\ \A p \in 1..Len(q) : q[p] # 0 => q[p] = r.req[p] \/ PathInAnd(r.qry, p)
    BY <1>1, <1>6, <2>2, <1>q, ReqStored
  <2>4. s \in FrameType
    BY <1>2, <1>5, <1>6, <1>7, <2>1, <2>2, <2>3, <1>9 DEF FrameType, Pcs
  <2>5. /\ s.pc = "head" /\ s.path = r.path + 1 /\ s.req = q /\ s.qry = r.qry
        /\ s.glob = r.glob /\ s.i = r.i /\ s.phase = r.phase /\ s.cur = r.cur
    BY <1>2, <1>9 DEF FrameType
  <2>6. Good(s)
    BY <1>1, <1>2, <1>5, <1>6, <1>7, <2>1, <2>2, <2>3, <2>4, <2>5, GoodStep
        DEF WalkPcs, AndPcs, OrPcs
  <2> QED
    BY <1>4, <2>6, TypeLocal DEF EndOfWalk, s
<1>10. CASE s = [r EXCEPT !.pc = "head", !.path = @ + 1]
  <2>1. s \in FrameType
    BY <1>2, <1>5, <1>6, <1>7, <1>10 DEF FrameType, Pcs
  <2>2. /\ s.pc = "head" /\ s.path = r.path + 1 /\ s.qry = r.qry
        /\ s.req = r.req /\ s.glob = r.glob /\ s.i = r.i /\ s.phase = r.phase
        /\ s.cur = r.cur
    BY <1>2, <1>10 DEF FrameType
  <2>3. Good(s)
    BY <1>1, <1>2, <1>5, <1>6, <1>7, <2>1, <2>2, GoodStep
        DEF WalkPcs, AndPcs, OrPcs
  <2> QED
    BY <1>4, <2>3, TypeLocal DEF EndOfWalk, s
<1> QED
  BY <1>3, <1>8, <1>9, <1>10

LEMMA TypeProbeCur ==
    ASSUME TypeInv, NEW f \in Frames, ProbeCur(f)
    PROVE  TypeInv'
<1> DEFINE r == frame[f]
           s == frame'[f]
<1>1. frame \in [Frames -> FrameType] /\ Good(r)
  BY DEF TypeInv, TypeOK
<1>2. r \in FrameType /\ r.pc = "probe1"
  BY <1>1 DEF ProbeCur, At
<1>3. s = [r EXCEPT !.pc = "probe2",
                    !.has1 = @ \/ InPool(ThisNode(f), frame[f].cur)]
  BY <1>1 DEF ProbeCur
<1>4. frame' = [frame EXCEPT ![f] = s]
  BY <1>1 DEF ProbeCur
<1> HIDE DEF r, s
<1>5. r.path \in 1..Len(Paths[r.qry]) /\ r.i # 0
  BY <1>1, <1>2 DEF Good, WalkPcs, AndPcs, OrPcs
<1>6. PathInAnd(r.qry, r.path)
  BY <1>1, <1>2 DEF Good, AndPcs
<1>7. r.glob \in Ids
  BY <1>1, <1>2 DEF Good
<1>8. s \in FrameType
  BY <1>2, <1>5, <1>6, <1>7, <1>3 DEF FrameType, Pcs
<1>9. /\ s.pc = "probe2" /\ s.qry = r.qry /\ s.req = r.req /\ s.glob = r.glob
      /\ s.path = r.path /\ s.i = r.i /\ s.phase = r.phase /\ s.cur = r.cur
  BY <1>2, <1>3 DEF FrameType
<1>10. Good(s)
  BY <1>1, <1>2, <1>5, <1>6, <1>7, <1>8, <1>9, GoodStep
      DEF WalkPcs, AndPcs, OrPcs
<1> QED
  BY <1>4, <1>10, TypeLocal DEF ProbeCur, s

LEMMA TypeProbePrev ==
    ASSUME TypeInv, NEW f \in Frames, ProbePrev(f)
    PROVE  TypeInv'
<1> DEFINE r == frame[f]
           s == frame'[f]
<1>1. frame \in [Frames -> FrameType] /\ Good(r)
  BY DEF TypeInv, TypeOK
<1>2. r \in FrameType /\ r.pc = "probe2"
  BY <1>1 DEF ProbePrev, At
<1>3. s = [r EXCEPT !.pc = "probe1", !.i = @ + 1,
                    !.has2 = @ \/ InPool(ThisNode(f), PrevReq(f))]
  BY <1>1 DEF ProbePrev
<1>4. frame' = [frame EXCEPT ![f] = s]
  BY <1>1 DEF ProbePrev
<1> HIDE DEF r, s
<1>5. r.i + 1 \in Nat \ {0}
  BY <1>2 DEF FrameType
<1>6. r.path \in 1..Len(Paths[r.qry]) /\ r.i # 0
  BY <1>1, <1>2 DEF Good, WalkPcs, AndPcs, OrPcs
<1>7. PathInAnd(r.qry, r.path)
  BY <1>1, <1>2 DEF Good, AndPcs
<1>8. r.glob \in Ids
  BY <1>1, <1>2 DEF Good
<1>9. s \in FrameType
  BY <1>2, <1>5, <1>6, <1>7, <1>8, <1>3 DEF FrameType, Pcs
<1>10. /\ s.pc = "probe1" /\ s.i = r.i + 1 /\ s.qry = r.qry /\ s.req = r.req
      /\ s.glob = r.glob /\ s.path = r.path /\ s.phase = r.phase
      /\ s.cur = r.cur
  BY <1>2, <1>3 DEF FrameType
<1>11. Good(s)
  BY <1>1, <1>2, <1>5, <1>6, <1>7, <1>8, <1>9, <1>10, GoodStep
      DEF WalkPcs, AndPcs, OrPcs
<1> QED
  BY <1>4, <1>11, TypeLocal DEF ProbePrev, s

LEMMA TypeEndOfProbe ==
    ASSUME TypeInv, NEW f \in Frames, EndOfProbe(f)
    PROVE  TypeInv'
<1> DEFINE r == frame[f]
           s == frame'[f]
           q == [r.req EXCEPT ![r.path] = r.cur]
<1>1. frame \in [Frames -> FrameType] /\ Good(r)
  BY DEF TypeInv, TypeOK
<1>2. r \in FrameType /\ r.pc = "probe1"
  BY <1>1 DEF EndOfProbe, At
<1>q. q = [r.req EXCEPT ![r.path] = r.cur]
  OBVIOUS
<1> HIDE DEF q
<1>3. \/ s = [r EXCEPT !.pc = "head", !.path = @ + 1, !.req = q]
      \/ s = [r EXCEPT !.pc = "wipe1", !.i = 1]
  <2>1. \/ frame' = [frame EXCEPT ![f].pc = "head", ![f].path = @ + 1,
                                  ![f].req[frame[f].path] = frame[f].cur]
        \/ frame' = [frame EXCEPT ![f].pc = "wipe1", ![f].i = 1]
    BY DEF EndOfProbe, InPhase
  <2>2. frame' = [frame EXCEPT ![f].pc = "head", ![f].path = @ + 1,
                               ![f].req[frame[f].path] = frame[f].cur]
        => s = [r EXCEPT !.pc = "head", !.path = @ + 1, !.req = q]
    BY <1>1, <1>q
  <2>3. frame' = [frame EXCEPT ![f].pc = "wipe1", ![f].i = 1]
        => s = [r EXCEPT !.pc = "wipe1", !.i = 1]
    BY <1>1, <1>q
  <2> QED
    BY <2>1, <2>2, <2>3
<1>4. frame' = [frame EXCEPT ![f] = s]
  BY <1>1 DEF EndOfProbe
<1> HIDE DEF r, s
<1>5. r.path + 1 \in Nat \ {0}
  BY <1>2 DEF FrameType
<1>6. r.path \in 1..Len(Paths[r.qry]) /\ r.i # 0
  BY <1>1, <1>2 DEF Good, WalkPcs, AndPcs, OrPcs
<1>7. PathInAnd(r.qry, r.path)
  BY <1>1, <1>2 DEF Good, AndPcs
<1>8. r.glob \in Ids
  BY <1>1, <1>2 DEF Good
<1>9. /\ q \in Seq(Ids \cup {-1, 0}) /\ Len(q) = Len(r.req)
      /\ \A p \in 1..Len(q) : q[p] # 0 => q[p] = r.req[p] \/ PathInAnd(r.qry, p)
  BY <1>1, <1>6, <1>7, <1>q, ReqStored
<1>10. CASE s = [r EXCEPT !.pc = "head", !.path = @ + 1, !.req = q]
  <2>1. s \in FrameType
    BY <1>2, <1>5, <1>6, <1>7, <1>8, <1>9, <1>10 DEF FrameType, Pcs
  <2>2. /\ s.pc = "head" /\ s.path = r.path + 1 /\ s.req = q /\ s.qry = r.qry
        /\ s.glob = r.glob /\ s.i = r.i /\ s.phase = r.phase /\ s.cur = r.cur
    BY <1>2, <1>10 DEF FrameType
  <2>3. Good(s)
    BY <1>1, <1>2, <1>5, <1>6, <1>7, <1>8, <1>9, <2>1, <2>2, GoodStep
        DEF WalkPcs, AndPcs, OrPcs
  <2> QED
    BY <1>4, <2>3, TypeLocal DEF EndOfProbe, s
<1>11. CASE s = [r EXCEPT !.pc = "wipe1", !.i = 1]
  <2>1. s \in FrameType
    BY <1>2, <1>5, <1>6, <1>7, <1>8, <1>9, <1>11 DEF FrameType, Pcs
  <2>2. /\ s.pc = "wipe1" /\ s.i = 1 /\ s.qry = r.qry /\ s.req = r.req
        /\ s.glob = r.glob /\ s.path = r.path /\ s.phase = r.phase
        /\ s.cur = r.cur
    BY <1>2, <1>11 DEF FrameType
  <2>3. Good(s)
    BY <1>1, <1>2, <1>5, <1>6, <1>7, <1>8, <1>9, <2>1, <2>2, GoodStep
        DEF WalkPcs, AndPcs, OrPcs
  <2> QED
    BY <1>4, <2>3, TypeLocal DEF EndOfProbe, s
<1> QED
  BY <1>3, <1>10, <1>11

LEMMA TypeWipeCur ==
    ASSUME TypeInv, NEW f \in Frames, WipeCur(f)
    PROVE  TypeInv'
<1> DEFINE r == frame[f]
           s == frame'[f]
<1>1. frame \in [Frames -> FrameType] /\ Good(r)
  BY DEF TypeInv, TypeOK
<1>2. r \in FrameType /\ r.pc = "wipe1"
  BY <1>1 DEF WipeCur, At
<1>3. s = [r EXCEPT !.pc = "wipe2"]
  BY <1>1 DEF WipeCur
<1>4. frame' = [frame EXCEPT ![f] = s]
  BY <1>1 DEF WipeCur
<1> HIDE DEF r, s
<1>5. r.path \in 1..Len(Paths[r.qry]) /\ r.i # 0
  BY <1>1, <1>2 DEF Good, WalkPcs, AndPcs, OrPcs
<1>6. PathInAnd(r.qry, r.path)
  BY <1>1, <1>2 DEF Good, AndPcs
<1>7. r.glob \in Ids
  BY <1>1, <1>2 DEF Good
<1>8. s \in FrameType
  BY <1>2, <1>5, <1>6, <1>7, <1>3 DEF FrameType, Pcs
<1>9. /\ s.pc = "wipe2" /\ s.qry = r.qry /\ s.req = r.req /\ s.glob = r.glob
      /\ s.path = r.path /\ s.i = r.i /\ s.phase = r.phase /\ s.cur = r.cur
  BY <1>2, <1>3 DEF FrameType
<1>10. Good(s)
  BY <1>1, <1>2, <1>5, <1>6, <1>7, <1>8, <1>9, GoodStep
      DEF WalkPcs, AndPcs, OrPcs
<1> QED
  BY <1>4, <1>10, TypeToken DEF WipeCur, s

LEMMA TypeWipePrev ==
    ASSUME TypeInv, NEW f \in Frames, WipePrev(f)
    PROVE  TypeInv'
<1> DEFINE r == frame[f]
           s == frame'[f]
<1>1. frame \in [Frames -> FrameType] /\ Good(r)
  BY DEF TypeInv, TypeOK
<1>2. r \in FrameType /\ r.pc = "wipe2"
  BY <1>1 DEF WipePrev, At
<1>3. s = [r EXCEPT !.pc = "wipe1", !.i = @ + 1]
  BY <1>1 DEF WipePrev
<1>4. frame' = [frame EXCEPT ![f] = s]
  BY <1>1 DEF WipePrev
<1> HIDE DEF r, s
<1>5. r.i + 1 \in Nat \ {0}
  BY <1>2 DEF FrameType
<1>6. r.path \in 1..Len(Paths[r.qry]) /\ r.i # 0
  BY <1>1, <1>2 DEF Good, WalkPcs, AndPcs, OrPcs
<1>7. PathInAnd(r.qry, r.path)
  BY <1>1, <1>2 DEF Good, AndPcs
<1>8. r.glob \in Ids
  BY <1>1, <1>2 DEF Good
<1>9. s \in FrameType
  BY <1>2, <1>5, <1>6, <1>7, <1>8, <1>3 DEF FrameType, Pcs
<1>10. /\ s.pc = "wipe1" /\ s.i = r.i + 1 /\ s.qry = r.qry /\ s.req = r.req
      /\ s.glob = r.glob /\ s.path = r.path /\ s.phase = r.phase
      /\ s.cur = r.cur
  BY <1>2, <1>3 DEF FrameType
<1>11. Good(s)
  BY <1>1, <1>2, <1>5, <1>6, <1>7, <1>8, <1>9, <1>10, GoodStep
      DEF WalkPcs, AndPcs, OrPcs
<1> QED
  BY <1>4, <1>11, TypeToken DEF WipePrev, s

LEMMA TypeEndOfWipe ==
    ASSUME TypeInv, NEW f \in Frames, EndOfWipe(f)
    PROVE  TypeInv'
<1> DEFINE r == frame[f]
           s == frame'[f]
           q == [r.req EXCEPT ![r.path] = r.cur]
<1>1. frame \in [Frames -> FrameType] /\ Good(r)
  BY DEF TypeInv, TypeOK
<1>2. r \in FrameType /\ r.pc = "wipe1"
  BY <1>1 DEF EndOfWipe, At
<1>q. q = [r.req EXCEPT ![r.path] = r.cur]
  OBVIOUS
<1> HIDE DEF q
<1>3. s = [r EXCEPT !.pc = "head", !.path = @ + 1, !.set = <<>>, !.req = q]
  BY <1>1, <1>q DEF EndOfWipe
<1>4. frame' = [frame EXCEPT ![f] = s]
  BY <1>1 DEF EndOfWipe
<1> HIDE DEF r, s
<1>5. r.path + 1 \in Nat \ {0}
  BY <1>2 DEF FrameType
<1>6. r.path \in 1..Len(Paths[r.qry]) /\ r.i # 0
  BY <1>1, <1>2 DEF Good, WalkPcs, AndPcs, OrPcs
<1>7. PathInAnd(r.qry, r.path)
  BY <1>1, <1>2 DEF Good, AndPcs
<1>8. r.glob \in Ids
  BY <1>1, <1>2 DEF Good
<1>9. /\ q \in Seq(Ids \cup {-1, 0}) /\ Len(q) = Len(r.req)
      /\ \A p \in 1..Len(q) : q[p] # 0 => q[p] = r.req[p] \/ PathInAnd(r.qry, p)
  BY <1>1, <1>6, <1>7, <1>q, ReqStored
<1>10. <<>> \in Seq(Nodes)
  BY <1>2
<1>11. s \in FrameType
  BY <1>2, <1>5, <1>6, <1>7, <1>8, <1>9, <1>10, <1>3 DEF FrameType, Pcs
<1>12. /\ s.pc = "head" /\ s.path = r.path + 1 /\ s.set = <<>> /\ s.req = q
      /\ s.qry = r.qry /\ s.glob = r.glob /\ s.i = r.i /\ s.phase = r.phase
      /\ s.cur = r.cur
  BY <1>2, <1>3 DEF FrameType
<1>13. Good(s)
  BY <1>1, <1>2, <1>5, <1>6, <1>7, <1>8, <1>9, <1>10, <1>11, <1>12, GoodStep
      DEF WalkPcs, AndPcs, OrPcs
<1> QED
  BY <1>4, <1>13, TypeLocal DEF EndOfWipe, s

LEMMA TypeOrHead ==
    ASSUME TypeInv, NEW f \in Frames, OrHead(f)
    PROVE  TypeInv'
<1> DEFINE r == frame[f]
           s == frame'[f]
<1>1. frame \in [Frames -> FrameType] /\ Good(r)
  BY DEF TypeInv, TypeOK
<1>2. r \in FrameType /\ r.pc = "head"
  BY <1>1 DEF OrHead, At, InPhase, InPaths, NbPaths, ThisPath
<1>3. \/ s = [r EXCEPT !.phase = "end", !.path = 0, !.pc = "rel", !.i = 1,
                       !.rid = r.glob]
      \/ s = [r EXCEPT !.path = @ + 1]
      \/ r.path <= Len(Paths[r.qry]) /\ r.phase = "or" /\ s = [r EXCEPT !.i = 1,
                                        !.pc = "visit"]
      \/ r.path <= Len(Paths[r.qry]) /\ r.req[r.path] # 0 /\ Paths[r.qry][r.path].rel = "or" /\ s = [r EXCEPT !.i = 1, !.pc = "or1"]
  BY <1>1 DEF OrHead, InPhase, InPaths, NbPaths, ThisPath
<1>4. frame' = [frame EXCEPT ![f] = s]
  BY <1>1 DEF OrHead
<1> HIDE DEF r, s
<1>5. r.path + 1 \in Nat \ {0}
  BY <1>2 DEF FrameType
<1>6. r.glob \in Ids
  BY <1>1, <1>2 DEF Good
<1>7. Len(Paths[r.qry]) \in Nat
  BY <1>2, LenPaths DEF FrameType
<1>8. r.path # 0
  BY <1>1, <1>2 DEF Good
<1>9. CASE s = [r EXCEPT !.phase = "end", !.path = 0, !.pc = "rel", !.i = 1,
                         !.rid = r.glob]
  <2>1. s \in FrameType
    BY <1>2, <1>5, <1>6, <1>7, <1>8, <1>9 DEF FrameType, Pcs
  <2>2. /\ s.phase = "end" /\ s.path = 0 /\ s.pc = "rel" /\ s.i = 1
        /\ s.rid = r.glob /\ s.qry = r.qry /\ s.req = r.req /\ s.glob = r.glob
        /\ s.cur = r.cur
    BY <1>2, <1>9 DEF FrameType
  <2>3. Good(s)
    BY <1>1, <1>2, <1>5, <1>6, <1>7, <1>8, <2>1, <2>2, GoodStep
        DEF WalkPcs, AndPcs, OrPcs
  <2> QED
    BY <1>4, <2>3, TypeLocal DEF OrHead, s
<1>10. CASE s = [r EXCEPT !.path = @ + 1]
  <2>1. s \in FrameType
    BY <1>2, <1>5, <1>6, <1>7, <1>8, <1>10 DEF FrameType, Pcs
  <2>2. /\ s.pc = r.pc /\ s.path = r.path + 1 /\ s.qry = r.qry /\ s.req = r.req
        /\ s.glob = r.glob /\ s.i = r.i /\ s.phase = r.phase /\ s.cur = r.cur
    BY <1>2, <1>10 DEF FrameType
  <2>3. Good(s)
    BY <1>1, <1>2, <1>5, <1>6, <1>7, <1>8, <2>1, <2>2, GoodStep
        DEF WalkPcs, AndPcs, OrPcs
  <2> QED
    BY <1>4, <2>3, TypeLocal DEF OrHead, s
<1>11. CASE r.path <= Len(Paths[r.qry]) /\ r.phase = "or" /\ s = [r EXCEPT !.i = 1, !.pc = "visit"]
  <2>1. r.path <= Len(Paths[r.qry]) /\ r.phase = "or"
    BY <1>11
  <2>2. r.path \in 1..Len(Paths[r.qry])
    BY <1>2, <1>7, <1>8, <1>11 DEF FrameType
  <2>3. s \in FrameType
    BY <1>2, <1>5, <1>6, <1>7, <1>8, <2>1, <2>2, <1>11 DEF FrameType, Pcs
  <2>4. /\ s.i = 1 /\ s.pc = "visit" /\ s.qry = r.qry /\ s.req = r.req
        /\ s.glob = r.glob /\ s.path = r.path /\ s.phase = r.phase
        /\ s.cur = r.cur
    BY <1>2, <1>11 DEF FrameType
  <2>5. Good(s)
    BY <1>1, <1>2, <1>5, <1>6, <1>7, <1>8, <2>1, <2>2, <2>3, <2>4, GoodStep
        DEF WalkPcs, AndPcs, OrPcs
  <2> QED
    BY <1>4, <2>5, TypeLocal DEF OrHead, s
<1>12. CASE r.path <= Len(Paths[r.qry]) /\ r.req[r.path] # 0 /\ Paths[r.qry][r.path].rel = "or" /\ s = [r EXCEPT !.i = 1, !.pc = "or1"]
  <2>1. r.path <= Len(Paths[r.qry]) /\ r.req[r.path] # 0 /\ Paths[r.qry][r.path].rel = "or"
    BY <1>12
  <2>2. r.path \in 1..Len(Paths[r.qry])
    BY <1>2, <1>7, <1>8, <1>12 DEF FrameType
  <2>3. r.path < Len(Paths[r.qry])
    BY <1>1, <2>2, <1>12 DEF Good, PathInAnd
  <2>4. s \in FrameType
    BY <1>2, <1>5, <1>6, <1>7, <1>8, <2>1, <2>2, <2>3, <1>12 DEF FrameType, Pcs
  <2>5. /\ s.i = 1 /\ s.pc = "or1" /\ s.qry = r.qry /\ s.req = r.req
        /\ s.glob = r.glob /\ s.path = r.path /\ s.phase = r.phase
        /\ s.cur = r.cur
    BY <1>2, <1>12 DEF FrameType
  <2>6. Good(s)
    BY <1>1, <1>2, <1>5, <1>6, <1>7, <1>8, <2>1, <2>2, <2>3, <2>4, <2>5,
       GoodStep
        DEF WalkPcs, AndPcs, OrPcs
  <2> QED
    BY <1>4, <2>6, TypeLocal DEF OrHead, s
<1> QED
  BY <1>3, <1>9, <1>10, <1>11, <1>12

LEMMA TypeOrProbe ==
    ASSUME TypeInv, NEW f \in Frames, OrProbe(f)
    PROVE  TypeInv'
<1> DEFINE r == frame[f]
           s == frame'[f]
<1>1. frame \in [Frames -> FrameType] /\ Good(r)
  BY DEF TypeInv, TypeOK
<1>2. r \in FrameType /\ r.pc = "or1"
  BY <1>1 DEF OrProbe, At
<1>3. \/ s = [r EXCEPT !.pc = "or2"]
      \/ s = [r EXCEPT !.i = @ + 1]
  BY <1>1 DEF OrProbe
<1>4. frame' = [frame EXCEPT ![f] = s]
  BY <1>1 DEF OrProbe
<1> HIDE DEF r, s
<1>5. r.i + 1 \in Nat \ {0}
  BY <1>2 DEF FrameType
<1>6. r.path \in 1..Len(Paths[r.qry]) /\ r.i # 0
  BY <1>1, <1>2 DEF Good, WalkPcs, AndPcs, OrPcs
<1>7. r.path < Len(Paths[r.qry])
  BY <1>1, <1>2 DEF Good, OrPcs
<1>8. r.glob \in Ids
  BY <1>1, <1>2 DEF Good
<1>9. CASE s = [r EXCEPT !.pc = "or2"]
  <2>1. s \in FrameType
    BY <1>2, <1>5, <1>6, <1>7, <1>8, <1>9 DEF FrameType, Pcs
  <2>2. /\ s.pc = "or2" /\ s.qry = r.qry /\ s.req = r.req /\ s.glob = r.glob
        /\ s.path = r.path /\ s.i = r.i /\ s.phase = r.phase /\ s.cur = r.cur
    BY <1>2, <1>9 DEF FrameType
  <2>3. Good(s)
    BY <1>1, <1>2, <1>5, <1>6, <1>7, <1>8, <2>1, <2>2, GoodStep
        DEF WalkPcs, AndPcs, OrPcs
  <2> QED
    BY <1>4, <2>3, TypeLocal DEF OrProbe, s
<1>10. CASE s = [r EXCEPT !.i = @ + 1]
  <2>1. s \in FrameType
    BY <1>2, <1>5, <1>6, <1>7, <1>8, <1>10 DEF FrameType, Pcs
  <2>2. /\ s.pc = r.pc /\ s.i = r.i + 1 /\ s.qry = r.qry /\ s.req = r.req
        /\ s.glob = r.glob /\ s.path = r.path /\ s.phase = r.phase
        /\ s.cur = r.cur
    BY <1>2, <1>10 DEF FrameType
  <2>3. Good(s)
    BY <1>1, <1>2, <1>5, <1>6, <1>7, <1>8, <2>1, <2>2, GoodStep
        DEF WalkPcs, AndPcs, OrPcs
  <2> QED
    BY <1>4, <2>3, TypeLocal DEF OrProbe, s
<1> QED
  BY <1>3, <1>9, <1>10

LEMMA TypeOrAdd ==
    ASSUME TypeInv, NEW f \in Frames, OrAdd(f)
    PROVE  TypeInv'
<1> DEFINE r == frame[f]
           s == frame'[f]
<1>1. frame \in [Frames -> FrameType] /\ Good(r)
  BY DEF TypeInv, TypeOK
<1>2. r \in FrameType /\ r.pc = "or2"
  BY <1>1 DEF OrAdd, At
<1>3. s = [r EXCEPT !.pc = "or3"]
  BY <1>1 DEF OrAdd
<1>4. frame' = [frame EXCEPT ![f] = s]
  BY <1>1 DEF OrAdd
<1> HIDE DEF r, s
<1>5. r.path \in 1..Len(Paths[r.qry]) /\ r.i # 0
  BY <1>1, <1>2 DEF Good, WalkPcs, AndPcs, OrPcs
<1>6. r.path < Len(Paths[r.qry])
  BY <1>1, <1>2 DEF Good, OrPcs
<1>7. r.glob \in Ids
  BY <1>1, <1>2 DEF Good
<1>8. s \in FrameType
  BY <1>2, <1>5, <1>6, <1>7, <1>3 DEF FrameType, Pcs
<1>9. /\ s.pc = "or3" /\ s.qry = r.qry /\ s.req = r.req /\ s.glob = r.glob
      /\ s.path = r.path /\ s.i = r.i /\ s.phase = r.phase /\ s.cur = r.cur
  BY <1>2, <1>3 DEF FrameType
<1>10. Good(s)
  BY <1>1, <1>2, <1>5, <1>6, <1>7, <1>8, <1>9, GoodStep
      DEF WalkPcs, AndPcs, OrPcs
<1> QED
  BY <1>4, <1>7, <1>10, TypeToken DEF OrAdd, r, s

LEMMA TypeOrDel ==
    ASSUME TypeInv, NEW f \in Frames, OrDel(f)
    PROVE  TypeInv'
<1> DEFINE r == frame[f]
           s == frame'[f]
<1>1. frame \in [Frames -> FrameType] /\ Good(r)
  BY DEF TypeInv, TypeOK
<1>2. r \in FrameType /\ r.pc = "or3"
  BY <1>1 DEF OrDel, At
<1>3. s = [r EXCEPT !.pc = "or1", !.i = @ + 1]
  BY <1>1 DEF OrDel
<1>4. frame' = [frame EXCEPT ![f] = s]
  BY <1>1 DEF OrDel
<1> HIDE DEF r, s
<1>5. r.i + 1 \in Nat \ {0}
  BY <1>2 DEF FrameType
<1>6. r.path \in 1..Len(Paths[r.qry]) /\ r.i # 0
  BY <1>1, <1>2 DEF Good, WalkPcs, AndPcs, OrPcs
<1>7. r.path < Len(Paths[r.qry])
  BY <1>1, <1>2 DEF Good, OrPcs
<1>8. r.glob \in Ids
  BY <1>1, <1>2 DEF Good
<1>9. s \in FrameType
  BY <1>2, <1>5, <1>6, <1>7, <1>8, <1>3 DEF FrameType, Pcs
<1>10. /\ s.pc = "or1" /\ s.i = r.i + 1 /\ s.qry = r.qry /\ s.req = r.req
      /\ s.glob = r.glob /\ s.path = r.path /\ s.phase = r.phase
      /\ s.cur = r.cur
  BY <1>2, <1>3 DEF FrameType
<1>11. Good(s)
  BY <1>1, <1>2, <1>5, <1>6, <1>7, <1>8, <1>9, <1>10, GoodStep
      DEF WalkPcs, AndPcs, OrPcs
<1> QED
  BY <1>4, <1>11, TypeToken DEF OrDel, s

LEMMA TypeEndOfOr ==
    ASSUME TypeInv, NEW f \in Frames, EndOfOr(f)
    PROVE  TypeInv'
<1> DEFINE r == frame[f]
           s == frame'[f]
<1>1. frame \in [Frames -> FrameType] /\ Good(r)
  BY DEF TypeInv, TypeOK
<1>2. r \in FrameType /\ r.pc = "or1"
  BY <1>1 DEF EndOfOr, At, NextReq
<1>3. s = [r EXCEPT !.pc = "rel", !.i = 1, !.rid = r.req[r.path + 1]]
  BY <1>1 DEF EndOfOr, NextReq
<1>4. frame' = [frame EXCEPT ![f] = s]
  BY <1>1 DEF EndOfOr
<1> HIDE DEF r, s
<1>5. r.path \in 1..Len(Paths[r.qry]) /\ r.i # 0
  BY <1>1, <1>2 DEF Good, WalkPcs, AndPcs, OrPcs
<1>6. r.path < Len(Paths[r.qry])
  BY <1>1, <1>2 DEF Good, OrPcs
<1>7. r.req[r.path + 1] \in Ids \cup {-1, 0}
  BY <1>1, <1>2, <1>5, <1>6, LenPaths DEF FrameType, Good
<1>8. r.glob \in Ids
  BY <1>1, <1>2 DEF Good
<1>9. s \in FrameType
  BY <1>2, <1>5, <1>6, <1>7, <1>8, <1>3 DEF FrameType, Pcs
<1>10. /\ s.pc = "rel" /\ s.i = 1 /\ s.rid = r.req[r.path + 1] /\ s.qry = r.qry
      /\ s.req = r.req /\ s.glob = r.glob /\ s.path = r.path
      /\ s.phase = r.phase /\ s.cur = r.cur
  BY <1>2, <1>3 DEF FrameType
<1>11. Good(s)
  BY <1>1, <1>2, <1>5, <1>6, <1>7, <1>8, <1>9, <1>10, GoodStep
      DEF WalkPcs, AndPcs, OrPcs
<1> QED
  BY <1>4, <1>11, TypeLocal DEF EndOfOr, s

LEMMA TypeReleaseToken ==
    ASSUME TypeInv, NEW f \in Frames, ReleaseToken(f)
    PROVE  TypeInv'
<1> DEFINE r == frame[f]
           s == frame'[f]
<1>1. frame \in [Frames -> FrameType] /\ Good(r)
  BY DEF TypeInv, TypeOK
<1>2. r \in FrameType /\ r.pc = "rel"
  BY <1>1 DEF ReleaseToken, At
<1>3. s = [r EXCEPT !.i = @ + 1]
  BY <1>1 DEF ReleaseToken
<1>4. frame' = [frame EXCEPT ![f] = s]
  BY <1>1 DEF ReleaseToken
<1> HIDE DEF r, s
<1>5. r.i + 1 \in Nat \ {0}
  BY <1>2 DEF FrameType
<1>6. r.glob \in Ids
  BY <1>1, <1>2 DEF Good
<1>7. s \in FrameType
  BY <1>2, <1>5, <1>6, <1>3 DEF FrameType, Pcs
<1>8. /\ s.pc = r.pc /\ s.i = r.i + 1 /\ s.qry = r.qry /\ s.req = r.req
      /\ s.glob = r.glob /\ s.path = r.path /\ s.phase = r.phase
      /\ s.cur = r.cur
  BY <1>2, <1>3 DEF FrameType
<1>9. Good(s)
  BY <1>1, <1>2, <1>5, <1>6, <1>7, <1>8, GoodStep
      DEF WalkPcs, AndPcs, OrPcs
<1> QED
  BY <1>4, <1>9, TypeToken DEF ReleaseToken, s

LEMMA TypeReleaseId ==
    ASSUME TypeInv, NEW f \in Frames, ReleaseId(f)
    PROVE  TypeInv'
<1> DEFINE r == frame[f]
           s == frame'[f]
<1>1. frame \in [Frames -> FrameType] /\ Good(r)
  BY DEF TypeInv, TypeOK
<1>2. r \in FrameType /\ r.pc = "rel"
  BY <1>1 DEF ReleaseId, At
<1>3. s = [r EXCEPT !.pc = "head", !.path = @ + 1]
  BY <1>1 DEF ReleaseId
<1>4. frame' = [frame EXCEPT ![f] = s]
  BY <1>1 DEF ReleaseId
<1>5. ids' \in [Ids -> {0, 1}]
  BY DEF ReleaseId, TypeInv, TypeOK
<1> HIDE DEF r, s
<1>6. r.path + 1 \in Nat \ {0}
  BY <1>2 DEF FrameType
<1>7. r.glob \in Ids
  BY <1>1, <1>2 DEF Good
<1>8. s \in FrameType
  BY <1>2, <1>5, <1>6, <1>7, <1>3 DEF FrameType, Pcs
<1>9. /\ s.pc = "head" /\ s.path = r.path + 1 /\ s.qry = r.qry /\ s.req = r.req
      /\ s.glob = r.glob /\ s.i = r.i /\ s.phase = r.phase /\ s.cur = r.cur
  BY <1>2, <1>3 DEF FrameType
<1>10. Good(s)
  BY <1>1, <1>2, <1>5, <1>6, <1>7, <1>8, <1>9, GoodStep
      DEF WalkPcs, AndPcs, OrPcs
<1> QED
  BY <1>4, <1>5, <1>10, TypeFrame DEF ReleaseId, TypeInv, TypeOK, s

LEMMA TypeEndHead ==
    ASSUME TypeInv, NEW f \in Frames, EndHead(f)
    PROVE  TypeInv'
<1> DEFINE r == frame[f]
           s == frame'[f]
<1>1. frame \in [Frames -> FrameType] /\ Good(r)
  BY DEF TypeInv, TypeOK
<1>2. r \in FrameType /\ r.pc = "head"
  BY <1>1 DEF EndHead, At, InPaths, NbPaths
<1>3. \/ s = [r EXCEPT !.pc = "done"]
      \/ s = [r EXCEPT !.path = @ + 1]
      \/ r.path <= Len(Paths[r.qry]) /\ s = [r EXCEPT !.pc = "rel", !.i = 1,
                                        !.rid = r.req[r.path]]
  BY <1>1 DEF EndHead, InPaths, NbPaths
<1>4. frame' = [frame EXCEPT ![f] = s]
  BY <1>1 DEF EndHead
<1> HIDE DEF r, s
<1>5. r.path + 1 \in Nat \ {0}
  BY <1>2 DEF FrameType
<1>6. r.glob \in Ids
  BY <1>1, <1>2 DEF Good
<1>7. Len(Paths[r.qry]) \in Nat
  BY <1>2, LenPaths DEF FrameType
<1>8. r.path # 0
  BY <1>1, <1>2 DEF Good
<1>9. CASE s = [r EXCEPT !.pc = "done"]
  <2>1. s \in FrameType
    BY <1>2, <1>5, <1>6, <1>7, <1>8, <1>9 DEF FrameType, Pcs
  <2>2. /\ s.pc = "done" /\ s.qry = r.qry /\ s.req = r.req /\ s.glob = r.glob
        /\ s.path = r.path /\ s.i = r.i /\ s.phase = r.phase /\ s.cur = r.cur
    BY <1>2, <1>9 DEF FrameType
  <2>3. Good(s)
    BY <1>1, <1>2, <1>5, <1>6, <1>7, <1>8, <2>1, <2>2, GoodStep
        DEF WalkPcs, AndPcs, OrPcs
  <2> QED
    BY <1>4, <2>3, TypeLocal DEF EndHead, s
<1>10. CASE s = [r EXCEPT !.path = @ + 1]
  <2>1. s \in FrameType
    BY <1>2, <1>5, <1>6, <1>7, <1>8, <1>10 DEF FrameType, Pcs
  <2>2. /\ s.pc = r.pc /\ s.path = r.path + 1 /\ s.qry = r.qry /\ s.req = r.req
        /\ s.glob = r.glob /\ s.i = r.i /\ s.phase = r.phase /\ s.cur = r.cur
    BY <1>2, <1>10 DEF FrameType
  <2>3. Good(s)
    BY <1>1, <1>2, <1>5, <1>6, <1>7, <1>8, <2>1, <2>2, GoodStep
        DEF WalkPcs, AndPcs, OrPcs
  <2> QED
    BY <1>4, <2>3, TypeLocal DEF EndHead, s
<1>11. CASE r.path <= Len(Paths[r.qry]) /\ s = [r EXCEPT !.pc = "rel", !.i = 1,
                                        !.rid = r.req[r.path]]
  <2>1. r.path <= Len(Paths[r.qry])
    BY <1>11
  <2>2. r.req[r.path] \in Ids \cup {-1, 0}
    BY <1>1, <1>2, <1>7, <1>8, <1>11 DEF FrameType, Good
  <2>3. s \in FrameType
    BY <1>2, <1>5, <1>6, <1>7, <1>8, <2>1, <2>2, <1>11 DEF FrameType, Pcs
  <2>4. /\ s.pc = "rel" /\ s.i = 1 /\ s.rid = r.req[r.path] /\ s.qry = r.qry
        /\ s.req = r.req /\ s.glob = r.glob /\ s.path = r.path
        /\ s.phase = r.phase /\ s.cur = r.cur
    BY <1>2, <1>11 DEF FrameType
  <2>5. Good(s)
    BY <1>1, <1>2, <1>5, <1>6, <1>7, <1>8, <2>1, <2>2, <2>3, <2>4, GoodStep
        DEF WalkPcs, AndPcs, OrPcs
  <2> QED
    BY <1>4, <2>5, TypeLocal DEF EndHead, s
<1> QED
  BY <1>3, <1>9, <1>10, <1>11

-----------------------------------------------------------------------------
(* The stack of activation records of a thread.                            *)

\* Below the top frame of a thread every frame waits for a nested evaluation,
\* above it no frame is in use.
Stack ==
    \A f \in Frames :
        /\ f[2] < top[f[1]] => frame[f].pc = "nested"
        /\ f[2] > top[f[1]] => frame[f].pc = "off"
        /\ f[2] = top[f[1]] => frame[f].pc \notin {"off", "nested"}

LocalStep(f) ==
    \/ RequestGlob(f)  \/ AndHead(f)   \/ RequestAnd(f)
    \/ AddToSet(f)     \/ EndOfWalk(f)
    \/ ProbeCur(f)     \/ ProbePrev(f) \/ EndOfProbe(f)
    \/ WipeCur(f)      \/ WipePrev(f)  \/ EndOfWipe(f)
    \/ OrHead(f)       \/ OrProbe(f)   \/ OrAdd(f)       \/ OrDel(f)
    \/ EndOfOr(f)      \/ ReleaseToken(f) \/ ReleaseId(f) \/ EndHead(f)

LEMMA FramesType ==
    ASSUME NEW f \in Frames
    PROVE  f[1] \in Threads /\ f[2] \in 1..MaxDepth /\ f = <<f[1], f[2]>>
  BY DEF Frames

\* A step of one frame is a step of the top one, and leaves it on top.
LEMMA LocalFrame ==
    ASSUME TypeOK, NEW f \in Frames, LocalStep(f)
    PROVE  /\ top' = top /\ top[f[1]] = f[2]
           /\ frame' = [frame EXCEPT ![f] = frame'[f]]
           /\ frame'[f].pc \notin {"off", "nested"}
<1>1. frame \in [Frames -> FrameType]
  BY DEF TypeOK
<1>2. frame[f] \in FrameType
  BY <1>1
<1>3. CASE RequestGlob(f)
  <2>1. PICK id \in Ids \cup {-1} :
           frame' = [frame EXCEPT ![f].glob = id,
                                  ![f].pc = IF id < 0 THEN "done" ELSE "head"]
    BY <1>3 DEF RequestGlob
  <2> QED
    BY <1>1, <1>2, <2>1, <1>3 DEF RequestGlob, At, FrameType
<1>4. CASE AndHead(f)
  BY <1>1, <1>2, <1>4 DEF AndHead, At, FrameType
<1>5. CASE RequestAnd(f)
  <2>1. PICK id \in Ids \cup {-1} :
           frame' = [frame EXCEPT ![f].cur = id, ![f].pc = "visit", ![f].i = 1]
    BY <1>5 DEF RequestAnd
  <2> QED
    BY <1>1, <1>2, <2>1, <1>5 DEF RequestAnd, At, FrameType
<1>6. CASE AddToSet(f)
  BY <1>1, <1>2, <1>6 DEF AddToSet, At, FrameType
<1>7. CASE EndOfWalk(f)
  BY <1>1, <1>2, <1>7 DEF EndOfWalk, At, FrameType
<1>8. CASE ProbeCur(f)
  BY <1>1, <1>2, <1>8 DEF ProbeCur, At, FrameType
<1>9. CASE ProbePrev(f)
  BY <1>1, <1>2, <1>9 DEF ProbePrev, At, FrameType
<1>10. CASE EndOfProbe(f)
  BY <1>1, <1>2, <1>10 DEF EndOfProbe, At, FrameType
<1>11. CASE WipeCur(f)
  BY <1>1, <1>2, <1>11 DEF WipeCur, At, FrameType
<1>12. CASE WipePrev(f)
  BY <1>1, <1>2, <1>12 DEF WipePrev, At, FrameType
<1>13. CASE EndOfWipe(f)
  BY <1>1, <1>2, <1>13 DEF EndOfWipe, At, FrameType
<1>14. CASE OrHead(f)
  <2>1. frame[f].pc = "head" /\ top[f[1]] = f[2] /\ top' = top
    BY <1>14 DEF OrHead, At
  <2>2. \/ frame' = [frame EXCEPT ![f].phase = "end", ![f].path = 0,
                         ![f].pc = "rel", ![f].i = 1, ![f].rid = frame[f].glob]
        \/ frame' = [frame EXCEPT ![f].path = @ + 1]
        \/ frame' = [frame EXCEPT ![f].i = 1, ![f].pc = "visit"]
        \/ frame' = [frame EXCEPT ![f].i = 1, ![f].pc = "or1"]
    BY <1>14 DEF OrHead
  <2>3. CASE frame' = [frame EXCEPT ![f].phase = "end", ![f].path = 0,
                         ![f].pc = "rel", ![f].i = 1, ![f].rid = frame[f].glob]
    BY <1>1, <1>2, <2>1, <2>3 DEF FrameType
  <2>4. CASE frame' = [frame EXCEPT ![f].path = @ + 1]
    BY <1>1, <1>2, <2>1, <2>4 DEF FrameType
  <2>5. CASE frame' = [frame EXCEPT ![f].i = 1, ![f].pc = "visit"]
    BY <1>1, <1>2, <2>1, <2>5 DEF FrameType
  <2>6. CASE frame' = [frame EXCEPT ![f].i = 1, ![f].pc = "or1"]
    BY <1>1, <1>2, <2>1, <2>6 DEF FrameType
  <2> QED
    BY <2>2, <2>3, <2>4, <2>5, <2>6
<1>15. CASE OrProbe(f)
  BY <1>1, <1>2, <1>15 DEF OrProbe, At, FrameType
<1>16. CASE OrAdd(f)
  BY <1>1, <1>2, <1>16 DEF OrAdd, At, FrameType
<1>17. CASE OrDel(f)
  BY <1>1, <1>2, <1>17 DEF OrDel, At, FrameType
<1>18. CASE EndOfOr(f)
  BY <1>1, <1>2, <1>18 DEF EndOfOr, At, FrameType
<1>19. CASE ReleaseToken(f)
  BY <1>1, <1>2, <1>19 DEF ReleaseToken, At, FrameType
<1>20. CASE ReleaseId(f)
  BY <1>1, <1>2, <1>20 DEF ReleaseId, At, FrameType
<1>21. CASE EndHead(f)
  <2>1. frame[f].pc = "head" /\ top[f[1]] = f[2] /\ top' = top
    BY <1>21 DEF EndHead, At
  <2>2. \/ frame' = [frame EXCEPT ![f].pc = "done"]
        \/ frame' = [frame EXCEPT ![f].path = @ + 1]
        \/ \E id : frame' = [frame EXCEPT ![f].pc = "rel", ![f].i = 1,
                                        ![f].rid = id]
    BY <1>21 DEF EndHead
  <2>3. CASE frame' = [frame EXCEPT ![f].pc = "done"]
    BY <1>1, <1>2, <2>1, <2>3 DEF FrameType
  <2>4. CASE frame' = [frame EXCEPT ![f].path = @ + 1]
    BY <1>1, <1>2, <2>1, <2>4 DEF FrameType
  <2>5. CASE \E id : frame' = [frame EXCEPT ![f].pc = "rel", ![f].i = 1,
                                        ![f].rid = id]
    <3>1. PICK id : frame' = [frame EXCEPT ![f].pc = "rel", ![f].i = 1,
                                        ![f].rid = id]
      BY <2>5
    <3> QED
      BY <1>1, <1>2, <2>1, <3>1 DEF FrameType
  <2> QED
    BY <2>2, <2>3, <2>4, <2>5
<1> QED
  BY <1>3, <1>4, <1>5, <1>6, <1>7, <1>8, <1>9, <1>10, <1>11, <1>12, <1>13,
     <1>14, <1>15, <1>16, <1>17, <1>18, <1>19, <1>20, <1>21 DEF LocalStep

LEMMA StackLocal ==
    ASSUME TypeOK, Stack, NEW f \in Frames, LocalStep(f)
    PROVE  Stack'
<1>1. frame \in [Frames -> FrameType]
  BY DEF TypeOK
<1> QED
  BY <1>1, LocalFrame DEF Stack

LEMMA StackInit == Init => Stack
<1> SUFFICES ASSUME Init PROVE Stack
  OBVIOUS
<1>1. Off.pc = "off"
  BY DEF Off, Fresh
<1>2. ASSUME NEW f \in Frames PROVE frame[f] = Off /\ f[2] > top[f[1]]
  BY FramesType DEF Init
<1> QED
  BY <1>1, <1>2, FramesType DEF Stack, Init

LEMMA StackCall ==
    ASSUME TypeOK, Stack, NEW t \in Threads, NEW q \in TopQueries, Call(t, q)
    PROVE  Stack'
<1>1. frame \in [Frames -> FrameType] /\ top \in [Threads -> 0..MaxDepth]
  BY DEF TypeOK
<1>2. top[t] = 0 /\ top' = [top EXCEPT ![t] = 1]
      /\ frame' = [frame EXCEPT ![<<t, 1>>] = Fresh(q)]
  BY DEF Call
<1>3. <<t, 1>> \in Frames
  BY QueriesAssumption DEF Frames
<1>4. Fresh(q).pc = "request"
  BY DEF Fresh
<1> SUFFICES ASSUME NEW g \in Frames
             PROVE  /\ g[2] < top'[g[1]] => frame'[g].pc = "nested"
                    /\ g[2] > top'[g[1]] => frame'[g].pc = "off"
                    /\ g[2] = top'[g[1]] => frame'[g].pc \notin {"off", "nested"}
  BY DEF Stack
<1>5. g[1] \in Threads /\ g[2] \in 1..MaxDepth /\ g = <<g[1], g[2]>>
  BY FramesType
<1>6. CASE g[1] # t
  BY <1>1, <1>2, <1>3, <1>5, <1>6 DEF Stack
<1>7. CASE g = <<t, 1>>
  BY <1>1, <1>2, <1>3, <1>4, <1>7
<1>8. CASE g[1] = t /\ g[2] > 1
  BY <1>1, <1>2, <1>3, <1>5, <1>8 DEF Stack
<1> QED
  BY <1>5, <1>6, <1>7, <1>8

-----------------------------------------------------------------------------
(* Entering and leaving a nested evaluation.                               *)

LEMMA NestShape ==
    ASSUME TypeOK, NEW f \in Frames, Nest(f)
    PROVE  LET g == <<f[1], f[2] + 1>> IN
           /\ g \in Frames /\ g # f
           /\ top[f[1]] = f[2] /\ top' = [top EXCEPT ![f[1]] = @ + 1]
           /\ frame' = [frame EXCEPT ![f] = [frame[f] EXCEPT !.pc = "nested"],
                                     ![g] = Fresh(ThisVisit(f).pred)]
<1> DEFINE g == <<f[1], f[2] + 1>>
<1>1. g \in Frames /\ g # f
  BY FramesType, QueriesAssumption DEF Frames, Nest
<1>2. frame \in [Frames -> FrameType]
  BY DEF TypeOK
<1>3. frame' = [frame EXCEPT ![f].pc = "nested",
                             ![g] = Fresh(ThisVisit(f).pred)]
  BY DEF Nest
<1> HIDE DEF g
<1>4. frame' = [frame EXCEPT ![f] = [frame[f] EXCEPT !.pc = "nested"],
                             ![g] = Fresh(ThisVisit(f).pred)]
  BY <1>1, <1>2, <1>3
<1> QED
  BY <1>1, <1>4 DEF Nest, At, g

LEMMA StackNest ==
    ASSUME TypeInv, Stack, NEW f \in Frames, Nest(f)
    PROVE  Stack'
<1> DEFINE g == <<f[1], f[2] + 1>>
           s == [frame[f] EXCEPT !.pc = "nested"]
           z == Fresh(ThisVisit(f).pred)
<1>1. frame \in [Frames -> FrameType] /\ top \in [Threads -> 0..MaxDepth]
  BY DEF TypeInv, TypeOK
<1>2. /\ g \in Frames /\ g # f
      /\ top[f[1]] = f[2] /\ top' = [top EXCEPT ![f[1]] = @ + 1]
      /\ frame' = [frame EXCEPT ![f] = s, ![g] = z]
  BY NestShape DEF TypeInv
<1>3. z.pc = "request" /\ s.pc = "nested"
  BY <1>1 DEF Fresh, FrameType
<1> HIDE DEF s, z
<1> SUFFICES ASSUME NEW h \in Frames
             PROVE  /\ h[2] < top'[h[1]] => frame'[h].pc = "nested"
                    /\ h[2] > top'[h[1]] => frame'[h].pc = "off"
                    /\ h[2] = top'[h[1]] => frame'[h].pc \notin {"off", "nested"}
  BY DEF Stack
<1>4. /\ h[1] \in Threads /\ h[2] \in 1..MaxDepth /\ h = <<h[1], h[2]>>
      /\ f[1] \in Threads /\ f[2] \in 1..MaxDepth /\ f = <<f[1], f[2]>>
  BY FramesType
<1>5. CASE h[1] # f[1]
  <2>1. frame'[h] = frame[h] /\ top'[h[1]] = top[h[1]]
    BY <1>1, <1>2, <1>4, <1>5
  <2> QED
    BY <2>1 DEF Stack
<1>6. CASE h = f
  BY <1>1, <1>2, <1>3, <1>4, <1>6
<1>7. CASE h = g
  BY <1>1, <1>2, <1>3, <1>4, <1>7
<1>8. CASE h[1] = f[1] /\ h # f /\ h # g
  <2>1. frame'[h] = frame[h] /\ top'[h[1]] = top[h[1]] + 1
    BY <1>1, <1>2, <1>4, <1>8
  <2>2. h[2] # f[2] /\ h[2] # f[2] + 1
    BY <1>4, <1>8
  <2> QED
    BY <1>1, <1>2, <1>4, <1>8, <2>1, <2>2 DEF Stack
<1> QED
  BY <1>5, <1>6, <1>7, <1>8

LEMMA TypeNest ==
    ASSUME TypeInv, NEW f \in Frames, Nest(f)
    PROVE  TypeInv'
<1> DEFINE g == <<f[1], f[2] + 1>>
           r == frame[f]
           s == [r EXCEPT !.pc = "nested"]
           z == Fresh(ThisVisit(f).pred)
<1>1. Good(r) /\ r \in FrameType /\ r.pc = "visit"
  BY DEF TypeInv, TypeOK, Nest, At, Good
<1>2. /\ g \in Frames /\ g # f
      /\ top[f[1]] = f[2] /\ top' = [top EXCEPT ![f[1]] = @ + 1]
      /\ frame' = [frame EXCEPT ![f] = s, ![g] = z]
  BY NestShape DEF TypeInv
<1>3. /\ r.i \in 1..Len(Visits(r.qry, r.path))
      /\ ThisVisit(f).pred \in Queries
  BY ThisVisitType DEF Nest, At
<1>4. Good(z)
  BY <1>3, FreshGood
<1> HIDE DEF z, g, r
<1>5. s \in FrameType
  BY <1>1 DEF FrameType, Pcs
<1>6. /\ s.pc = "nested" /\ s.i = r.i /\ s.qry = r.qry /\ s.cur = r.cur
      /\ s.path = r.path /\ s.glob = r.glob /\ s.req = r.req /\ s.phase = r.phase
  BY <1>1 DEF FrameType
<1>7. /\ r.path \in 1..Len(Paths[r.qry]) /\ r.phase # "end" /\ r.glob \in Ids
      /\ r.phase = "and" => r.cur # 0 /\ PathInAnd(r.qry, r.path)
      /\ r.i <= Len(Visits(r.qry, r.path)) /\ r.i # 0
  BY <1>1, <1>3 DEF Good, WalkPcs, FrameType
<1> HIDE DEF s
<1>8. Good(s)
  BY <1>1, <1>5, <1>6, <1>7, GoodStep DEF WalkPcs, AndPcs, OrPcs
<1>9. top' \in [Threads -> 0..MaxDepth]
  <2>1. top \in [Threads -> 0..MaxDepth] /\ f[2] + 1 \in 0..MaxDepth
    BY FramesType, QueriesAssumption DEF TypeInv, TypeOK, Nest
  <2> QED
    BY <1>2, <2>1
<1>10. frame \in [Frames -> FrameType] /\ z \in FrameType
  BY <1>4 DEF TypeInv, TypeOK, Good
<1>11. frame' \in [Frames -> FrameType]
  BY <1>2, <1>5, <1>10
<1>12. \A h \in Frames : Good(frame'[h])
  BY <1>2, <1>4, <1>8, <1>10 DEF TypeInv
<1> QED
  BY <1>9, <1>11, <1>12 DEF TypeInv, TypeOK, Nest

LEMMA ReturnShape ==
    ASSUME TypeInv, Stack, NEW f \in Frames, Return(f)
    PROVE  LET g == <<f[1], f[2] - 1>> IN
           /\ top[f[1]] = f[2] /\ top' = [top EXCEPT ![f[1]] = @ - 1]
           /\ frame[f].pc = "done"
           /\ \/ f[2] = 1 /\ frame' = [frame EXCEPT ![f] = Off]
              \/ /\ f[2] # 1 /\ g \in Frames /\ g # f /\ frame[g].pc = "nested"
                 /\ \E s : /\ frame' = [frame EXCEPT ![f] = Off, ![g] = s]
                           /\ \/ /\ s = [frame[g] EXCEPT !.pc = "add"]
                                 /\ frame[f].set # <<>>
                              \/ /\ s = [frame[g] EXCEPT !.pc = "visit",
                                        !.i = @ + 1]
                                 /\ frame[f].set = <<>>
<1> DEFINE g == <<f[1], f[2] - 1>>
<1>1. frame \in [Frames -> FrameType] /\ top[f[1]] = f[2] /\ frame[f].pc = "done"
      /\ top' = [top EXCEPT ![f[1]] = @ - 1]
  BY DEF TypeInv, TypeOK, Return, At
<1>2. CASE f[2] = 1
  BY <1>1, <1>2 DEF Return
<1>3. CASE f[2] # 1
  <2>1. g \in Frames /\ g # f
    BY <1>3, FramesType, QueriesAssumption DEF Frames
  <2>2. frame[g].pc = "nested"
    BY <1>1, <2>1, FramesType DEF Stack
  <2>3. \/ /\ frame[f].set # <<>>
           /\ frame' = [frame EXCEPT ![f] = Off, ![g].pc = "add"]
        \/ /\ frame[f].set = <<>>
           /\ frame' = [frame EXCEPT ![f] = Off, ![g].pc = "visit",
                                     ![g].i = @ + 1]
    BY <1>3 DEF Return
  <2> HIDE DEF g
  <2>4. CASE /\ frame[f].set # <<>>
             /\ frame' = [frame EXCEPT ![f] = Off, ![g].pc = "add"]
    <3>1. frame' = [frame EXCEPT ![f] = Off,
                                 ![g] = [frame[g] EXCEPT !.pc = "add"]]
      BY <1>1, <2>1, <2>4
    <3> QED
      BY <1>1, <1>3, <2>1, <2>2, <2>4, <3>1 DEF g
  <2>5. CASE /\ frame[f].set = <<>>
             /\ frame' = [frame EXCEPT ![f] = Off, ![g].pc = "visit",
                                       ![g].i = @ + 1]
    <3>1. frame' = [frame EXCEPT ![f] = Off,
                      ![g] = [frame[g] EXCEPT !.pc = "visit", !.i = @ + 1]]
      BY <1>1, <2>1, <2>5
    <3> QED
      BY <1>1, <1>3, <2>1, <2>2, <2>5, <3>1 DEF g
  <2> QED
    BY <2>3, <2>4, <2>5
<1> QED
  BY <1>2, <1>3

LEMMA StackReturn ==
    ASSUME TypeInv, Stack, NEW f \in Frames, Return(f)
    PROVE  Stack'
<1> DEFINE g == <<f[1], f[2] - 1>>
<1>1. frame \in [Frames -> FrameType] /\ top \in [Threads -> 0..MaxDepth]
  BY DEF TypeInv, TypeOK
<1>2. Off.pc = "off"
  BY DEF Off, Fresh
<1>3. top[f[1]] = f[2] /\ top' = [top EXCEPT ![f[1]] = @ - 1]
  BY ReturnShape
<1>4. /\ frame'[f] = Off
      /\ f[2] # 1 => frame'[g].pc \in {"add", "visit"}
      /\ \A h \in Frames : h # f /\ h # g => frame'[h] = frame[h]
  <2>1. CASE f[2] = 1
    BY <1>1, <2>1, ReturnShape
  <2>2. CASE f[2] # 1
    <3>1. g \in Frames /\ g # f
      BY <2>2, ReturnShape
    <3>2. PICK s : /\ frame' = [frame EXCEPT ![f] = Off, ![g] = s]
                   /\ \/ s = [frame[g] EXCEPT !.pc = "add"]
                      \/ s = [frame[g] EXCEPT !.pc = "visit", !.i = @ + 1]
      BY <2>2, ReturnShape
    <3>3. frame[g] \in FrameType
      BY <1>1, <3>1
    <3>4. s.pc \in {"add", "visit"}
      BY <3>2, <3>3 DEF FrameType
    <3> HIDE DEF g
    <3> QED
      BY <1>1, <3>1, <3>2, <3>4
  <2> QED
    BY <2>1, <2>2
<1> SUFFICES ASSUME NEW h \in Frames
             PROVE  /\ h[2] < top'[h[1]] => frame'[h].pc = "nested"
                    /\ h[2] > top'[h[1]] => frame'[h].pc = "off"
                    /\ h[2] = top'[h[1]] => frame'[h].pc \notin {"off", "nested"}
  BY DEF Stack
<1>5. /\ h[1] \in Threads /\ h[2] \in 1..MaxDepth /\ h = <<h[1], h[2]>>
      /\ f[1] \in Threads /\ f[2] \in 1..MaxDepth /\ f = <<f[1], f[2]>>
  BY FramesType
<1>6. CASE h[1] # f[1]
  <2>1. frame'[h] = frame[h] /\ top'[h[1]] = top[h[1]]
    BY <1>1, <1>3, <1>4, <1>5, <1>6
  <2> QED
    BY <2>1 DEF Stack
<1>7. CASE h = f
  BY <1>1, <1>2, <1>3, <1>4, <1>5, <1>7
<1>8. CASE h = g
  BY <1>1, <1>3, <1>4, <1>5, <1>8
<1>9. CASE h[1] = f[1] /\ h # f /\ h # g
  <2>1. frame'[h] = frame[h] /\ top'[h[1]] = f[2] - 1
    BY <1>1, <1>3, <1>4, <1>5, <1>9
  <2>2. h[2] # f[2] /\ h[2] # f[2] - 1
    BY <1>5, <1>9
  <2> QED
    BY <1>1, <1>3, <1>5, <1>9, <2>1, <2>2 DEF Stack
<1> QED
  BY <1>6, <1>7, <1>8, <1>9

LEMMA TypeReturn ==
    ASSUME TypeInv, Stack, NEW f \in Frames, Return(f)
    PROVE  TypeInv'
<1> DEFINE g == <<f[1], f[2] - 1>>
           r == frame[g]
<1>1. frame \in [Frames -> FrameType] /\ top \in [Threads -> 0..MaxDepth]
  BY DEF TypeInv, TypeOK
<1>2. top[f[1]] = f[2] /\ top' = [top EXCEPT ![f[1]] = @ - 1]
  BY ReturnShape
<1>3. Good(Off) /\ Off \in FrameType
  BY OffGood DEF Good
<1>4. top' \in [Threads -> 0..MaxDepth]
  <2>1. f[2] - 1 \in 0..MaxDepth
    BY FramesType, QueriesAssumption
  <2> QED
    BY <1>1, <1>2, <2>1
<1>5. CASE f[2] = 1
  <2>1. frame' = [frame EXCEPT ![f] = Off]
    BY <1>5, ReturnShape
  <2> QED
    BY <1>1, <1>3, <1>4, <2>1 DEF TypeInv, TypeOK, Return
<1>6. CASE f[2] # 1
  <2>1. g \in Frames /\ g # f /\ r.pc = "nested"
    BY <1>6, ReturnShape
  <2>2. PICK s : /\ frame' = [frame EXCEPT ![f] = Off, ![g] = s]
                 /\ \/ s = [r EXCEPT !.pc = "add"]
                    \/ s = [r EXCEPT !.pc = "visit", !.i = @ + 1]
    BY <1>6, ReturnShape
  <2>3. Good(r) /\ r \in FrameType
    BY <1>1, <2>1 DEF TypeInv
  <2> HIDE DEF r, g
  <2>4. r.i + 1 \in Nat \ {0}
    BY <2>3 DEF FrameType
  <2>5. /\ r.path \in 1..Len(Paths[r.qry]) /\ r.phase # "end" /\ r.glob \in Ids
        /\ r.phase = "and" => r.cur # 0 /\ PathInAnd(r.qry, r.path)
        /\ r.i <= Len(Visits(r.qry, r.path)) /\ r.i # 0
    BY <2>1, <2>3 DEF Good, WalkPcs
  <2>6. Good(s)
    <3>1. CASE s = [r EXCEPT !.pc = "add"]
      <4>1. s \in FrameType
        BY <2>3, <3>1 DEF FrameType, Pcs
      <4>2. /\ s.pc = "add" /\ s.i = r.i /\ s.qry = r.qry /\ s.cur = r.cur
            /\ s.path = r.path /\ s.glob = r.glob /\ s.req = r.req
            /\ s.phase = r.phase
        BY <2>3, <3>1 DEF FrameType
      <4> QED
        BY <2>3, <2>5, <4>1, <4>2, GoodStep DEF WalkPcs, AndPcs, OrPcs
    <3>2. CASE s = [r EXCEPT !.pc = "visit", !.i = @ + 1]
      <4>1. s \in FrameType
        BY <2>3, <2>4, <3>2 DEF FrameType, Pcs
      <4>2. /\ s.pc = "visit" /\ s.i = r.i + 1 /\ s.qry = r.qry /\ s.cur = r.cur
            /\ s.path = r.path /\ s.glob = r.glob /\ s.req = r.req
            /\ s.phase = r.phase
        BY <2>3, <3>2 DEF FrameType
      <4> QED
        BY <2>3, <2>4, <2>5, <4>1, <4>2, GoodStep DEF WalkPcs, AndPcs, OrPcs
    <3> QED
      BY <2>2, <3>1, <3>2
  <2>7. s \in FrameType
    BY <2>6 DEF Good
  <2>8. frame' \in [Frames -> FrameType]
    BY <1>1, <1>3, <2>1, <2>2, <2>7
  <2>9. \A h \in Frames : Good(frame'[h])
    BY <1>1, <1>3, <2>1, <2>2, <2>6 DEF TypeInv
  <2> QED
    BY <1>4, <2>8, <2>9 DEF TypeInv, TypeOK, Return
<1> QED
  BY <1>5, <1>6

-----------------------------------------------------------------------------
(* The theorem.                                                            *)

LEMMA TypeLocalStep ==
    ASSUME TypeInv, NEW f \in Frames, LocalStep(f)
    PROVE  TypeInv'
  BY TypeRequestGlob, TypeAndHead, TypeRequestAnd, TypeAddToSet, TypeEndOfWalk,
     TypeProbeCur, TypeProbePrev, TypeEndOfProbe, TypeWipeCur, TypeWipePrev,
     TypeEndOfWipe, TypeOrHead, TypeOrProbe, TypeOrAdd, TypeOrDel, TypeEndOfOr,
     TypeReleaseToken, TypeReleaseId, TypeEndHead DEF LocalStep

LEMMA ExecCases ==
    ASSUME NEW f \in Frames, Exec(f)
    PROVE  LocalStep(f) \/ Nest(f) \/ Return(f)
  BY DEF Exec, LocalStep

\* The activation records and the stacks are well formed in every reachable
\* state.
THEOREM Framed == Spec => [](TypeInv /\ Stack)
<1>1. Init => TypeInv /\ Stack
  BY TypeInit, StackInit
<1>2. TypeInv /\ Stack /\ [Next]_vars => (TypeInv /\ Stack)'
  <2> SUFFICES ASSUME TypeInv, Stack, [Next]_vars
               PROVE  TypeInv' /\ Stack'
    OBVIOUS
  <2>0. TypeOK
    BY DEF TypeInv
  <2>1. CASE UNCHANGED vars
    BY <2>1 DEF TypeInv, TypeOK, Stack, vars
  <2>2. ASSUME NEW t \in Threads, NEW q \in TopQueries, Call(t, q)
        PROVE  TypeInv' /\ Stack'
    BY <2>0, <2>2, TypeCall, StackCall
  <2>3. ASSUME NEW f \in Frames, Exec(f)
        PROVE  TypeInv' /\ Stack'
    <3>1. CASE LocalStep(f)
      BY <2>0, <3>1, TypeLocalStep, StackLocal
    <3>2. CASE Nest(f)
      BY <3>2, TypeNest, StackNest
    <3>3. CASE Return(f)
      BY <3>3, TypeReturn, StackReturn
    <3> QED
      BY <2>3, <3>1, <3>2, <3>3, ExecCases
  <2> QED
    BY <2>1, <2>2, <2>3 DEF Next
<1> QED
  BY <1>1, <1>2, PTL DEF Spec

\* The table, the token lists and the activation records keep their types,
\* and so no loop of roxml_exec_xpath reads outside the parsed xpath.
THEOREM TypeCorrect == Spec => []TypeOK
<1>1. TypeInv => TypeOK
  BY DEF TypeInv
<1> QED
  BY <1>1, Framed, PTL

====
