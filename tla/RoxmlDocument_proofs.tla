------------------------ MODULE RoxmlDocument_proofs ------------------------
(***************************************************************************)
(* Proofs about loading and writing a document, whatever the texts, the    *)
(* size of the chunks and ROXML_BASE_LEN are:                              *)
(*    - while a text is read, the position of the context is that of the   *)
(*      next character of the file, and every turn reads one or fails;     *)
(*    - the buffer a document is written to is never overrun;              *)
(*    - what roxml_escape encodes it decodes, and no mark is left in it.   *)
(* A callback moves the position by what it returns, whatever it does to   *)
(* the nodes (CallIs).  The table of the parser gives every character one  *)
(* callback and the default one (CallbacksAre), so that a turn moves the   *)
(* position by what was read (TurnIs).  LoadInv adds the chunks.  An       *)
(* escape is found where one was written, and nowhere else (EscapesAre).   *)
(***************************************************************************)
EXTENDS RoxmlDocument, FiniteSetTheorems, SequenceTheorems, RoxmlLemmas

\* The least of some numbers.
LEMMA MinIs ==
    ASSUME NEW S, S \subseteq Nat, S # {}
    PROVE  Min(S) \in S /\ \A n \in S : Min(S) <= n
<1>1. \E m \in S : \A n \in S : m <= n
  BY LeastNumber
<1>. QED
  BY <1>1 DEF Min

\* Reading ahead stops inside the text.
LEMMA ScanIs ==
    ASSUME NEW s, Len(s) \in Nat, NEW from \in Nat, from <= Len(s), NEW S
    PROVE  Scan(s, from, S) \in from..Len(s)
<1>. DEFINE T == {i \in from..Len(s) : At(s, i) \in S \cup {""}}
<1>1. At(s, Len(s)) \in S \cup {""}
  <2>1. ~(Len(s) < Len(s))
    OBVIOUS
  <2>. QED
    BY <2>1 DEF At
<1>2. Min(T) \in T
  <2>0. Len(s) \in from..Len(s)
    OBVIOUS
  <2>1. Len(s) \in T
    BY <1>1, <2>0, Zenon
  <2>2. \A i \in from..Len(s) : i \in Nat
    OBVIOUS
  <2>3. T \subseteq Nat /\ T # {}
    BY <2>1, <2>2
  <2>. HIDE DEF T
  <2>. QED
    BY <2>3, MinIs
<1>3. Scan(s, from, S) = Min(T)
  BY DEF Scan
<1>. QED
  BY <1>2, <1>3

-----------------------------------------------------------------------------
(* The callbacks and the position.                                         *)

IsContext(c) == c = [x \in DOMAIN c |-> c[x]] /\ {"pos", "ret"} \subseteq DOMAIN c

\* A callback has been called at p and has not read anything yet.
Here(c, p) == IsContext(c) /\ c.pos = p /\ c.ret = 0

\* A callback that was called at p has returned.
Returns(c, p) == IsContext(c) /\ c.ret \in Int /\ (c.ret >= 0 => c.pos = p + c.ret)

\* It has read something, or failed.
Reads(c, p) == Returns(c, p) /\ c.ret # 0

LEMMA Sets ==
    ASSUME NEW c, NEW p, Here(c, p), NEW x, x \notin {"pos", "ret"}, NEW v
    PROVE  Here([c EXCEPT ![x] = v], p)
<1>. DEFINE d == [c EXCEPT ![x] = v]
<1>1. DOMAIN d = DOMAIN c /\ d = [y \in DOMAIN c |-> IF y = x THEN v ELSE c[y]]
  BY DEF Here, IsContext
<1>2. \A y \in {"pos", "ret"} : y \in DOMAIN c /\ d[y] = c[y]
  BY <1>1 DEF Here, IsContext
<1>. HIDE DEF d
<1>3. IsContext(d)
  BY <1>1, <1>2 DEF IsContext
<1>4. d.pos = c.pos /\ d.ret = c.ret
  BY <1>2
<1>. QED
  BY <1>3, <1>4 DEF Here, d

LEMMA AdvanceIs ==
    ASSUME NEW p \in Int, NEW c, Here(c, p), NEW n \in Nat \ {0}
    PROVE  Reads(Advance(c, n), p)
<1>. DEFINE d == Advance(c, n)
<1>1. DOMAIN d = DOMAIN c /\ d = [y \in DOMAIN c |-> IF y = "pos" THEN c.pos + n
                                                   ELSE IF y = "ret" THEN n ELSE c[y]]
  BY DEF Here, IsContext, Advance
<1>2. {"pos", "ret"} \subseteq DOMAIN c /\ c.pos = p
  BY DEF Here, IsContext
<1>. HIDE DEF d
<1>3. IsContext(d)
  BY <1>1, <1>2 DEF IsContext
<1>4. d.pos = p + n /\ d.ret = n
  BY <1>1, <1>2
<1>. QED
  BY <1>3, <1>4 DEF Returns, Reads, d

LEMMA ErrorIs ==
    ASSUME NEW p \in Int, NEW c, Here(c, p)
    PROVE  Reads(Error(c), p)
  BY DEF Here, IsContext, Returns, Reads, Error

\* What the callbacks do to the nodes does not move the position.
Stays(c, d) == \A p \in Int : Here(c, p) => Here(d, p)

LEMMA FreeStays == \A c, n : Stays(c, Free(c, n))
  BY Sets DEF Stays, Free
LEMMA LinkStays == \A c, q, n : Stays(c, Link(c, q, n))
  BY Sets DEF Stays, Link
LEMMA CloseAtStays == \A c, n, end : Stays(c, CloseAt(c, n, end))
  BY Sets DEF Stays, CloseAt
LEMMA SetTypeStays == \A c, n, type : Stays(c, SetType(c, n, type))
  BY Sets DEF Stays, SetType
LEMMA CreateAsStays == \A c, n, type, pos, word : Stays(c, CreateAs(c, n, type, pos, word))
  BY Sets DEF Stays, CreateAs
LEMMA ChainNsdefStays == \A c : Stays(c, ChainNsdef(c))
  BY Sets DEF Stays, ChainNsdef
LEMMA StaysTwice == \A c, d, e : Stays(c, d) /\ Stays(d, e) => Stays(c, e)
  BY DEF Stays

LEMMA CreateStays ==
    \A c, f, type, pos : f \notin {"pos", "ret"} => Stays(c, Create(c, f, type, pos))
  BY Sets, CreateAsStays DEF Stays, Create
LEMMA NamedStays == \A c, s, n : Stays(c, Named(c, s, n))
  BY Sets DEF Stays, Named
LEMMA EndValueStays == \A c : Stays(c, EndValue(c))
  BY Sets, CloseAtStays DEF Stays, EndValue

LEMMA ProcessStays == \A c : Stays(c, ProcessUnaliased(c))
<1>. SUFFICES ASSUME NEW c
              PROVE  Stays(c, ProcessUnaliased(c))
  OBVIOUS
<1>. DEFINE d == SetType([c EXCEPT !.nsdef = FALSE], c.arg, "nsd")
            e == IF Pending(d) THEN Free(d, d.heap[d.node].ns) ELSE d
            none == [e EXCEPT !.heap[c.node].ns = Null, !.heap[c.arg].ns = Null]
            uri == [e EXCEPT !.heap[c.arg].alias = "", !.heap[c.arg].ns = c.arg,
                             !.heap[c.node].ns = c.arg, !.spaces = c.arg]
<1>1. Stays(c, d)
  BY Sets, SetTypeStays DEF Stays
<1>2. Stays(d, e)
  BY FreeStays DEF Stays
<1>3. Stays(c, e)
  BY <1>1, <1>2, StaysTwice
<1>. HIDE DEF d, e
<1>4. Stays(e, none)
  BY Sets DEF Stays
<1>5. Stays(e, uri)
  BY Sets DEF Stays
<1>6. Stays(c, c)
  BY DEF Stays
<1>7. ProcessUnaliased(c) \in {c, none, uri}
  BY DEF ProcessUnaliased, d, e
<1>. HIDE DEF none, uri
<1>. QED
  BY <1>3, <1>4, <1>5, <1>6, <1>7, StaysTwice

LEMMA BeginNodeStays == \A c, pos, type : Stays(c, BeginNode(c, pos, type))
<1>. SUFFICES ASSUME NEW c, NEW pos, NEW type
              PROVE  Stays(c, BeginNode(c, pos, type))
  OBVIOUS
<1>. DEFINE text == Link(CloseAt(c, c.txt, pos), c.cur, c.txt)
            kept == IF c.empty THEN Free(c, c.txt) ELSE text
            d == IF c.txt = Null THEN c ELSE [kept EXCEPT !.txt = Null]
<1>1. Stays(c, text)
  BY CloseAtStays, LinkStays DEF Stays
<1>2. Stays(c, kept)
  <2>. HIDE DEF text
  <2>. QED
    BY <1>1, FreeStays
<1>3. Stays(c, d)
  <2>. HIDE DEF kept
  <2>. QED
    BY <1>2, Sets DEF Stays
<1>4. BeginNode(c, pos, type) = Create(d, "node", type, pos)
  BY DEF BeginNode
<1>. HIDE DEF d
<1>. QED
  BY <1>3, <1>4, CreateStays, StaysTwice

LEMMA DeclareStays == \A c : Stays(c, Declare(c))
<1>. SUFFICES ASSUME NEW c
              PROVE  Stays(c, Declare(c))
  OBVIOUS
<1>. DEFINE chained == ChainNsdef(c)
            d == [chained EXCEPT !.heap[c.arg].alias = c.name, !.nsdef = FALSE]
            freed == Free(d, d.heap[d.node].ns)
            e == [freed EXCEPT !.heap[d.node].ns = d.arg]
<1>1. Stays(c, d)
  <2>1. Stays(c, chained)
    BY ChainNsdefStays
  <2>. HIDE DEF chained
  <2>2. Stays(chained, d)
    BY Sets DEF Stays
  <2>. HIDE DEF d
  <2>. QED
    BY <2>1, <2>2, StaysTwice
<1>. HIDE DEF d
<1>2. Stays(d, freed)
  BY FreeStays
<1>. HIDE DEF freed
<1>3. Stays(freed, e)
  BY Sets DEF Stays
<1>4. Declare(c) \in {d, e}
  BY DEF Declare, d, freed, chained
<1>. HIDE DEF e
<1>. QED
  BY <1>1, <1>2, <1>3, <1>4, StaysTwice

LEMMA ThenAdvance ==
    ASSUME NEW p \in Int, NEW c, Here(c, p), NEW d, Stays(c, d), NEW n \in Nat \ {0}
    PROVE  Reads(Advance(d, n), p)
  BY AdvanceIs DEF Stays

LEMMA ScanOne ==
    ASSUME NEW s, Len(s) \in Nat \ {0}
    PROVE  \A S : Scan(s, 1, S) \in Nat \ {0}
<1>. SUFFICES ASSUME NEW S
              PROVE  Scan(s, 1, S) \in Nat \ {0}
  OBVIOUS
<1>1. Scan(s, 1, S) \in 1..Len(s)
  BY ScanIs
<1>. QED
  BY <1>1

LEMMA Itself == \A c : Stays(c, c)
  BY DEF Stays

LEMMA QuoteIs ==
    ASSUME NEW p \in Int, NEW c, Here(c, p), NEW mode
    PROVE  Returns(LoadQuote(c, mode), p)
<1>1. Here([c EXCEPT !.mode = mode], p) /\ Here([c EXCEPT !.mode = "none"], p)
  BY Sets
<1>2. \A d : Here(d, p) => Returns(d, p)
  BY DEF Here, Returns
<1>3. LoadQuote(c, mode) \in {c, [c EXCEPT !.mode = mode], [c EXCEPT !.mode = "none"]}
  BY DEF LoadQuote
<1>. QED
  BY <1>1, <1>2, <1>3

LEMMA OpenNodeIs ==
    ASSUME NEW p \in Int, NEW c, Here(c, p), NEW s
    PROVE  Reads(LoadOpenNode(c, s), p)
<1>. DEFINE d == [c EXCEPT !.state = "beg", !.previous = "beg"]
<1>1. Stays(c, d)
  BY Sets DEF Stays
<1>. HIDE DEF d
<1>2. Reads(Advance(d, 1), p) /\ Reads(Advance(c, 1), p) /\ Reads(Error(c), p)
  BY <1>1, ThenAdvance, Itself, ErrorIs
<1>3. LoadOpenNode(c, s) \in {Advance(d, 1), Advance(c, 1), Error(c)}
  BY DEF LoadOpenNode, d
<1>. QED
  BY <1>2, <1>3

LEMMA AfterTagIs ==
    ASSUME NEW p \in Int, NEW c, Here(c, p), NEW s, Len(s) \in Nat \ {0}
    PROVE  Reads(AfterTag(c, s), p)
<1>. DEFINE freed == Free(c, c.heap[c.node].ns)
            d == IF Pending(c) THEN [freed EXCEPT !.heap[c.node].ns = Null] ELSE c
            t == Create(d, "txt", "txt", c.pos + 1)
            n == Scan(s, 1, {"<"})
            white == \A i \in 1..n - 1 : At(s, i) \in White
            e == [t EXCEPT !.state = "content", !.previous = "content", !.empty = @ /\ white]
<1>1. Stays(c, d)
  <2>1. Stays(c, freed)
    BY FreeStays
  <2>. HIDE DEF freed
  <2>2. Stays(freed, [freed EXCEPT !.heap[c.node].ns = Null])
    BY Sets DEF Stays
  <2>. QED
    BY <2>1, <2>2, StaysTwice, Itself
<1>. HIDE DEF d
<1>2. Stays(d, t)
  BY CreateStays
<1>. HIDE DEF t, white
<1>3. Stays(t, e)
  BY Sets DEF Stays
<1>4. AfterTag(c, s) = Advance(e, n)
  BY DEF AfterTag, d, t, white
<1>. HIDE DEF e
<1>5. Stays(c, e)
  BY <1>1, <1>2, <1>3, StaysTwice
<1>. QED
  BY <1>4, <1>5, ThenAdvance, ScanOne

LEMMA ThenAfterTag ==
    ASSUME NEW p \in Int, NEW c, Here(c, p), NEW d, Stays(c, d),
           NEW s, Len(s) \in Nat \ {0}
    PROVE  Reads(AfterTag(d, s), p)
  BY AfterTagIs DEF Stays

LEMMA CloseNodeIs ==
    ASSUME NEW p \in Int, NEW c, Here(c, p), NEW s, Len(s) \in Nat \ {0}
    PROVE  Reads(LoadCloseNode(c, s), p)
<1>. DEFINE up == c.heap[c.cur].prnt
            linked == Link(c, c.cur, c.node)
            link == [linked EXCEPT !.empty = TRUE]
            close == CloseAt(c, c.cur, c.src[c.node].pos)
            named == [link EXCEPT !.cur = c.node]
            value == Link(EndValue(c), c.cur, c.node)
            attr == [value EXCEPT !.cur = c.node, !.inside = "arg_beg"]
            less == [c EXCEPT !.doctype = @ - 1]
            last == [link EXCEPT !.doctype = 0]
            doctype == CloseAt(last, c.node, c.pos)
            freed == Free(close, c.node)
            end == [freed EXCEPT !.empty = TRUE, !.node = Null,
                                 !.cur = IF up = Null THEN @ ELSE up]
<1>1. Stays(c, link)
  <2>1. Stays(c, linked)
    BY LinkStays
  <2>. HIDE DEF linked
  <2>2. Stays(linked, link)
    BY Sets DEF Stays
  <2>. QED
    BY <2>1, <2>2, StaysTwice
<1>. HIDE DEF link
<1>2. Stays(c, named)
  BY <1>1, Sets DEF Stays
<1>3. Stays(c, ProcessUnaliased(attr))
  <2>1. Stays(c, value)
    <3>1. Stays(c, EndValue(c)) /\ Stays(EndValue(c), value)
      BY EndValueStays, LinkStays
    <3>. QED
      BY <3>1, StaysTwice
  <2>. HIDE DEF value
  <2>2. Stays(value, attr)
    BY Sets DEF Stays
  <2>. HIDE DEF attr
  <2>. QED
    BY <2>1, <2>2, StaysTwice, ProcessStays
<1>4. Stays(c, less)
  BY Sets DEF Stays
<1>5. Stays(c, ProcessUnaliased(doctype))
  <2>1. Stays(link, last)
    BY Sets DEF Stays
  <2>. HIDE DEF last
  <2>2. Stays(last, doctype)
    BY CloseAtStays
  <2>. HIDE DEF doctype
  <2>. QED
    BY <1>1, <2>1, <2>2, StaysTwice, ProcessStays
<1>6. Stays(c, ProcessUnaliased(link))
  BY <1>1, StaysTwice, ProcessStays
<1>7. Stays(c, end)
  <2>1. Stays(c, close)
    BY CloseAtStays
  <2>. HIDE DEF close
  <2>2. Stays(close, freed)
    BY FreeStays
  <2>. HIDE DEF freed
  <2>3. Stays(freed, end)
    BY Sets DEF Stays
  <2>. HIDE DEF end
  <2>. QED
    BY <2>1, <2>2, <2>3, StaysTwice
<1>8. LoadCloseNode(c, s) \in
        {AfterTag(named, s), AfterTag(ProcessUnaliased(attr), s), Advance(less, 1),
         AfterTag(ProcessUnaliased(doctype), s), AfterTag(ProcessUnaliased(link), s),
         AfterTag(end, s), Advance(c, 1)}
  BY DEF LoadCloseNode, link
<1>. HIDE DEF named, attr, less, doctype, end
<1>9. Reads(Advance(less, 1), p) /\ Reads(Advance(c, 1), p)
  BY <1>4, ThenAdvance, Itself
<1>10. /\ Reads(AfterTag(named, s), p) /\ Reads(AfterTag(ProcessUnaliased(attr), s), p)
       /\ Reads(AfterTag(ProcessUnaliased(doctype), s), p)
       /\ Reads(AfterTag(ProcessUnaliased(link), s), p) /\ Reads(AfterTag(end, s), p)
  BY <1>2, <1>3, <1>5, <1>6, <1>7, ThenAfterTag
<1>. QED
  BY <1>8, <1>9, <1>10

LEMMA OpenSpecNodeIs ==
    ASSUME NEW p \in Int, NEW c, Here(c, p), NEW s, Len(s) \in Nat \ {0}
    PROVE  Reads(LoadOpenSpecNode(c, s), p)
<1>. DEFINE cmt == BeginNode(c, c.pos - 1, "cmt")
            comment == [cmt EXCEPT !.state = "comment"]
            cdata == BeginNode(c, c.pos - 1, "cdata")
            section == [cdata EXCEPT !.state = "cdata"]
            begun == IF c.doctype = 0 THEN BeginNode(c, c.pos - 1, "doctype") ELSE c
            doctype == [begun EXCEPT !.state = "single", !.previous = "single",
                                     !.doctype = @ + 1]
            dashes == At(s, 1) = "-" /\ At(s, 2) = "-"
            n == Scan(s, 3, {"-"})
<1>1. /\ Stays(c, cmt) /\ Stays(c, cdata) /\ Stays(c, begun)
  BY BeginNodeStays, Itself
<1>2. dashes => n \in Nat \ {0}
  <2>1. dashes => 2 < Len(s)
    BY DEF At
  <2>2. 3 <= Len(s) => n \in 3..Len(s)
    BY ScanIs
  <2>. HIDE DEF n, dashes
  <2>. QED
    BY <2>1, <2>2
<1>3. LoadOpenSpecNode(c, s) \in
        (IF dashes THEN {Advance(comment, n)} ELSE {})
        \cup {Advance(section, 1), Advance(doctype, 1), Advance(c, 1)}
  BY DEF LoadOpenSpecNode
<1>. HIDE DEF n, dashes, cmt, cdata, begun
<1>4. Stays(cmt, comment) /\ Stays(cdata, section) /\ Stays(begun, doctype)
  BY Sets DEF Stays
<1>. HIDE DEF comment, section, doctype
<1>5. Stays(c, comment) /\ Stays(c, section) /\ Stays(c, doctype)
  BY <1>1, <1>4, StaysTwice
<1>6. /\ dashes => Reads(Advance(comment, n), p)
      /\ Reads(Advance(section, 1), p) /\ Reads(Advance(doctype, 1), p)
      /\ Reads(Advance(c, 1), p)
  BY <1>2, <1>5, ThenAdvance, Itself
<1>. QED
  BY <1>3, <1>6

LEMMA CloseCommentIs ==
    ASSUME NEW p \in Int, NEW c, Here(c, p), NEW s
    PROVE  Reads(LoadCloseComment(c, s), p)
<1>. DEFINE d == [c EXCEPT !.state = "single"]
            e == CloseAt(d, c.node, c.pos)
<1>1. Stays(c, d)
  BY Sets DEF Stays
<1>2. LoadCloseComment(c, s) \in {Advance(e, 2), Advance(c, 1)}
  BY DEF LoadCloseComment
<1>. HIDE DEF d
<1>3. Stays(c, e)
  BY <1>1, CloseAtStays, StaysTwice
<1>. HIDE DEF e
<1>. QED
  BY <1>2, <1>3, ThenAdvance, Itself

LEMMA CloseCdataIs ==
    ASSUME NEW p \in Int, NEW c, Here(c, p), NEW s
    PROVE  Reads(LoadCloseCdata(c, s), p)
<1>. DEFINE d == [c EXCEPT !.state = "single", !.src[c.node].pos = @ + 3]
            e == CloseAt(d, c.node, c.pos)
<1>1. Stays(c, d)
  BY Sets DEF Stays
<1>2. LoadCloseCdata(c, s) \in {Advance(e, 2), Advance(c, 1)}
  BY DEF LoadCloseCdata
<1>. HIDE DEF d
<1>3. Stays(c, e)
  BY <1>1, CloseAtStays, StaysTwice
<1>. HIDE DEF e
<1>. QED
  BY <1>2, <1>3, ThenAdvance, Itself

LEMMA ClosePiIs ==
    ASSUME NEW p \in Int, NEW c, Here(c, p), NEW s
    PROVE  Reads(LoadClosePi(c, s), p)
<1>. DEFINE begun == BeginNode(c, c.pos - 1, "pi")
            pi == [begun EXCEPT !.state = "pi", !.previous = "pi"]
            d == [c EXCEPT !.state = "single", !.previous = "pi"]
            e == CloseAt(d, c.node, c.pos)
<1>1. Stays(c, d)
  BY Sets DEF Stays
<1>2. LoadClosePi(c, s) \in {Advance(pi, 1), Advance(e, 1), Advance(c, 1)}
  BY DEF LoadClosePi
<1>. HIDE DEF d
<1>3. Stays(c, e)
  BY <1>1, CloseAtStays, StaysTwice
<1>4. Stays(c, begun)
  BY BeginNodeStays
<1>. HIDE DEF e, begun
<1>5. Stays(begun, pi)
  BY Sets DEF Stays
<1>. HIDE DEF pi
<1>6. Stays(c, pi)
  BY <1>4, <1>5, StaysTwice
<1>. QED
  BY <1>2, <1>3, <1>6, ThenAdvance, Itself

LEMMA EndNodeIs ==
    ASSUME NEW p \in Int, NEW c, Here(c, p), NEW s
    PROVE  Reads(LoadEndNode(c, s), p)
<1>. DEFINE begun == BeginNode(c, c.pos - 1, "elm")
            end == [begun EXCEPT !.lvl = @ - 1, !.state = "end"]
            single == [c EXCEPT !.lvl = @ - 1, !.state = "single"]
            value == EndValue(c)
            attr == [value EXCEPT !.lvl = @ - 1, !.state = "single", !.inside = "arg_beg"]
<1>1. Stays(c, begun) /\ Stays(c, value)
  BY BeginNodeStays, EndValueStays
<1>2. LoadEndNode(c, s) \in
        {Error(end), Advance(end, 1), Advance(single, 1), Advance(attr, 1), Advance(c, 1)}
  BY DEF LoadEndNode
<1>. HIDE DEF begun, value
<1>3. Stays(begun, end) /\ Stays(c, single) /\ Stays(value, attr)
  BY Sets DEF Stays
<1>. HIDE DEF end, single, attr
<1>4. Stays(c, end) /\ Stays(c, attr)
  BY <1>1, <1>3, StaysTwice
<1>5. Reads(Error(end), p)
  BY <1>4, ErrorIs DEF Stays
<1>. QED
  BY <1>2, <1>3, <1>4, <1>5, ThenAdvance, Itself

LEMMA WhiteIs ==
    ASSUME NEW p \in Int, NEW c, Here(c, p), NEW s
    PROVE  Reads(LoadWhite(c, s), p)
<1>. DEFINE single == [c EXCEPT !.state = c.previous]
            name == [c EXCEPT !.state = "attr", !.inside = "arg_beg"]
            value == EndValue(c)
            attr == [value EXCEPT !.inside = "arg_beg"]
            done == ProcessUnaliased(attr)
<1>1. Stays(c, value)
  BY EndValueStays
<1>2. LoadWhite(c, s) \in
        {Advance(single, 1), Advance(name, 1), Advance(done, 1), Advance(c, 1)}
  BY DEF LoadWhite
<1>. HIDE DEF value
<1>3. Stays(c, single) /\ Stays(c, name) /\ Stays(value, attr)
  BY Sets DEF Stays
<1>. HIDE DEF single, name, attr
<1>4. Stays(c, done)
  BY <1>1, <1>3, StaysTwice, ProcessStays
<1>. HIDE DEF done
<1>. QED
  BY <1>2, <1>3, <1>4, ThenAdvance, Itself

LEMMA ColonIs ==
    ASSUME NEW p \in Int, NEW c, Here(c, p), NEW s
    PROVE  Reads(LoadColon(c, s), p)
<1>. DEFINE d == LookupNsdef(c, c.name)
            e == IF d = Null THEN CreateAs(c, New(c), "invalid", 0, c.name) ELSE c
            name == [e EXCEPT !.heap[c.node].ns = IF d = Null THEN New(c) ELSE d,
                              !.src[c.node].pos = @ + c.len + 2,
                              !.state = "beg", !.ns = TRUE]
            typed == SetType(c, c.arg, "nsd")
            xmlns == [typed EXCEPT !.inside = "arg_beg", !.nsdef = TRUE]
            attr == [c EXCEPT !.inside = "arg_beg", !.ns = TRUE,
                              !.heap[c.arg].ns = d,
                              !.src[c.arg].pos = @ + c.len + 2]
<1>1. Stays(c, e) /\ Stays(c, typed)
  BY CreateAsStays, SetTypeStays, Itself
<1>2. LoadColon(c, s) \in
        {Advance(name, 1), Advance(xmlns, 1), Advance(attr, 1), Advance(c, 1)}
  BY DEF LoadColon
<1>. HIDE DEF d, e, typed
<1>3. Stays(e, name)
  BY Sets DEF Stays
<1>4. Stays(typed, xmlns)
  BY Sets DEF Stays
<1>5. Stays(c, attr)
  BY Sets DEF Stays
<1>. HIDE DEF name, xmlns, attr
<1>6. Stays(c, name) /\ Stays(c, xmlns)
  BY <1>1, <1>3, <1>4, StaysTwice
<1>. QED
  BY <1>2, <1>5, <1>6, ThenAdvance, Itself

LEMMA ElementNameIs ==
    ASSUME NEW p \in Int, NEW c, Here(c, p), NEW s, Len(s) \in Nat \ {0}
    PROVE  Reads(ElementName(c, s), p)
<1>. DEFINE S == White \cup {">", "/", ":"}
            n == Scan(s, 1, S)
            up == [c EXCEPT !.lvl = @ + 1]
            d == IF c.ns THEN c ELSE BeginNode(up, c.pos - 1, "elm")
            plain == [d EXCEPT !.ns = FALSE, !.state = "name"]
            e == Named(plain, s, n)
<1>1. ElementName(c, s) = Advance(e, n)
  BY DEF ElementName
<1>. HIDE DEF S
<1>2. n \in Nat \ {0}
  BY ScanOne
<1>. HIDE DEF n
<1>3. Stays(c, up)
  BY Sets DEF Stays
<1>. HIDE DEF up
<1>4. Stays(c, d)
  BY <1>3, BeginNodeStays, StaysTwice, Itself
<1>. HIDE DEF d
<1>5. Stays(d, plain)
  BY Sets DEF Stays
<1>. HIDE DEF plain
<1>6. Stays(c, e)
  BY <1>4, <1>5, NamedStays, StaysTwice
<1>. HIDE DEF e
<1>. QED
  BY <1>1, <1>2, <1>6, ThenAdvance

LEMMA AttributeNameIs ==
    ASSUME NEW p \in Int, NEW c, Here(c, p), NEW s, Len(s) \in Nat \ {0}
    PROVE  Reads(AttributeName(c, s), p)
<1>. DEFINE S == {"=", ">", ":"}
            n == Scan(s, 1, S)
            new == Create(c, "arg", "att", c.pos - 1)
            d == IF c.nsdef \/ c.ns THEN c ELSE Link(new, new.node, new.arg)
            plain == [d EXCEPT !.ns = FALSE, !.inside = "arg"]
            e == Named(plain, s, n)
            f == IF c.nsdef THEN Declare(e) ELSE e
<1>1. AttributeName(c, s) = Advance(f, n)
  BY DEF AttributeName
<1>. HIDE DEF S
<1>2. n \in Nat \ {0}
  BY ScanOne
<1>. HIDE DEF n
<1>3. Stays(c, new)
  BY CreateStays
<1>. HIDE DEF new
<1>4. Stays(c, d)
  BY <1>3, LinkStays, StaysTwice, Itself
<1>. HIDE DEF d
<1>5. Stays(d, plain)
  BY Sets DEF Stays
<1>. HIDE DEF plain
<1>6. Stays(c, e)
  BY <1>4, <1>5, NamedStays, StaysTwice
<1>. HIDE DEF e
<1>7. Stays(c, f)
  BY <1>6, DeclareStays, StaysTwice
<1>. HIDE DEF f
<1>. QED
  BY <1>1, <1>2, <1>7, ThenAdvance

LEMMA ValueBeginIs ==
    ASSUME NEW p \in Int, NEW c, Here(c, p)
    PROVE  Reads(ValueBegin(c), p)
<1>. DEFINE quoted == c.mode # "none"
            d == Create(c, "val", "txt", IF quoted THEN c.pos + 1 ELSE c.pos)
            linked == Link(d, d.arg, d.val)
            e == [linked EXCEPT !.quoted = @ \/ quoted, !.inside = "val"]
<1>1. ValueBegin(c) = Advance(e, 1)
  BY DEF ValueBegin
<1>2. Stays(c, d)
  BY CreateStays
<1>. HIDE DEF d, quoted
<1>3. Stays(c, linked)
  BY <1>2, LinkStays, StaysTwice
<1>. HIDE DEF linked
<1>4. Stays(linked, e)
  BY Sets DEF Stays
<1>. HIDE DEF e
<1>5. Stays(c, e)
  BY <1>3, <1>4, StaysTwice
<1>. QED
  BY <1>1, <1>5, ThenAdvance

LEMMA AttributeEqualIs ==
    ASSUME NEW p \in Int, NEW c, Here(c, p)
    PROVE  Reads(AttributeEqual(c), p)
<1>. DEFINE closed == CloseAt(c, c.arg, c.pos)
            d == [closed EXCEPT !.inside = "val_beg"]
            chained == ChainNsdef(d)
            e == [chained EXCEPT !.nsdef = TRUE]
<1>1. AttributeEqual(c) \in {Advance(e, 1), Advance(d, 1)}
  BY DEF AttributeEqual
<1>2. Stays(c, closed)
  BY CloseAtStays
<1>. HIDE DEF closed
<1>3. Stays(closed, d)
  BY Sets DEF Stays
<1>. HIDE DEF d
<1>4. Stays(c, d)
  BY <1>2, <1>3, StaysTwice
<1>5. Stays(c, chained)
  BY <1>4, ChainNsdefStays, StaysTwice
<1>. HIDE DEF chained
<1>6. Stays(chained, e)
  BY Sets DEF Stays
<1>. HIDE DEF e
<1>7. Stays(c, e)
  BY <1>5, <1>6, StaysTwice
<1>. QED
  BY <1>1, <1>4, <1>7, ThenAdvance

LEMMA DefaultIs ==
    ASSUME NEW p \in Int, NEW c, Here(c, p), NEW s, Len(s) \in Nat \ {0}
    PROVE  Reads(LoadDefault(c, s), p)
<1>. DEFINE single == [c EXCEPT !.state = c.previous]
<1>1. Stays(c, single)
  BY Sets DEF Stays
<1>2. LoadDefault(c, s) \in
        {Advance(single, 1), ElementName(c, s), AttributeName(c, s), ValueBegin(c),
         AttributeEqual(c), Advance(c, 1)}
  BY DEF LoadDefault
<1>. HIDE DEF single
<1>3. Reads(Advance(single, 1), p) /\ Reads(Advance(c, 1), p)
  BY <1>1, ThenAdvance, Itself
<1>. QED
  BY <1>2, <1>3, ElementNameIs, AttributeNameIs, ValueBeginIs, AttributeEqualIs

\* The callbacks of a parser of documents.
Callback == {"white", "open_node", "close_node", "end_node", "quoted", "dquoted",
             "open_spec_node", "close_cdata", "close_comment", "close_pi", "colon",
             "default"}

\* A callback moves the position by what it says it has read; the default one
\* does not pass.
LEMMA CallIs ==
    ASSUME NEW p \in Int, NEW c, Here(c, p), NEW s, Len(s) \in Nat \ {0},
           NEW func \in Callback
    PROVE  /\ Returns(LoadCall(func, c, s), p)
           /\ func = "default" => Reads(LoadCall(func, c, s), p)
<1>1. func = "white" => LoadCall(func, c, s) = LoadWhite(c, s)
  BY DEF LoadCall
<1>2. func = "open_node" => LoadCall(func, c, s) = LoadOpenNode(c, s)
  BY DEF LoadCall
<1>3. func = "close_node" => LoadCall(func, c, s) = LoadCloseNode(c, s)
  BY DEF LoadCall
<1>4. func = "end_node" => LoadCall(func, c, s) = LoadEndNode(c, s)
  BY DEF LoadCall
<1>5. func = "quoted" => LoadCall(func, c, s) = LoadQuote(c, "quote")
  BY DEF LoadCall
<1>6. func = "dquoted" => LoadCall(func, c, s) = LoadQuote(c, "dquote")
  BY DEF LoadCall
<1>7. func = "open_spec_node" => LoadCall(func, c, s) = LoadOpenSpecNode(c, s)
  BY DEF LoadCall
<1>8. func = "close_cdata" => LoadCall(func, c, s) = LoadCloseCdata(c, s)
  BY DEF LoadCall
<1>9. func = "close_comment" => LoadCall(func, c, s) = LoadCloseComment(c, s)
  BY DEF LoadCall
<1>10. func = "close_pi" => LoadCall(func, c, s) = LoadClosePi(c, s)
  BY DEF LoadCall
<1>11. func = "colon" => LoadCall(func, c, s) = LoadColon(c, s)
  BY DEF LoadCall
<1>12. func = "default" => LoadCall(func, c, s) = LoadDefault(c, s)
  BY DEF LoadCall
<1>13. \A d : Reads(d, p) => Returns(d, p)
  BY DEF Reads
<1>14. /\ Reads(LoadWhite(c, s), p) /\ Reads(LoadOpenNode(c, s), p)
       /\ Reads(LoadCloseNode(c, s), p) /\ Reads(LoadEndNode(c, s), p)
       /\ Returns(LoadQuote(c, "quote"), p) /\ Returns(LoadQuote(c, "dquote"), p)
       /\ Reads(LoadOpenSpecNode(c, s), p) /\ Reads(LoadCloseCdata(c, s), p)
       /\ Reads(LoadCloseComment(c, s), p) /\ Reads(LoadClosePi(c, s), p)
       /\ Reads(LoadColon(c, s), p) /\ Reads(LoadDefault(c, s), p)
  BY WhiteIs, OpenNodeIs, CloseNodeIs, EndNodeIs, QuoteIs, OpenSpecNodeIs, CloseCdataIs,
     CloseCommentIs, ClosePiIs, ColonIs, DefaultIs
<1>. QED
  BY <1>1, <1>2, <1>3, <1>4, <1>5, <1>6, <1>7, <1>8, <1>9, <1>10, <1>11, <1>12, <1>13,
     <1>14 DEF Callback
-----------------------------------------------------------------------------
(* One turn of the loop.                                                   *)

LEMMA MaxIs ==
    ASSUME NEW n \in Nat, NEW s, s \subseteq 1..n, s # {}
    PROVE  Max(s) \in s /\ \A i \in s : i <= Max(s)
<1>. DEFINE T == {n - i : i \in s}
<1>1. T \subseteq Nat /\ T # {}
  <2>1. \A i \in 1..n : n - i \in Nat
    OBVIOUS
  <2>. QED
    BY <2>1
<1>2. PICK m \in T : \A j \in T : m <= j
  <2>. HIDE DEF T
  <2>. QED
    BY <1>1, LeastNumber
<1>3. PICK i \in s : m = n - i
  BY <1>2
<1>4. \A j \in s : j <= i
  <2>. SUFFICES ASSUME NEW j \in s
                PROVE  j <= i
    OBVIOUS
  <2>1. n - j \in T
    OBVIOUS
  <2>2. n - i <= n - j
    BY <1>2, <1>3, <2>1
  <2>3. i \in Nat /\ j \in Nat
    OBVIOUS
  <2>. QED
    BY <2>2, <2>3
<1>. QED
  BY <1>3, <1>4 DEF Max

LEMMA WithoutMax ==
    ASSUME NEW n \in Nat, NEW s \in SUBSET (1..n + 1), s # {}
    PROVE  s \ {Max(s)} \in SUBSET (1..n) /\ Max(s) \in s
<1>1. Max(s) \in s /\ \A i \in s : i <= Max(s)
  <2>1. n + 1 \in Nat /\ s \subseteq 1..n + 1
    OBVIOUS
  <2>. QED
    BY <2>1, MaxIs
<1>2. ASSUME NEW i \in s \ {Max(s)}
      PROVE  i \in 1..n
  <2>1. i \in 1..n + 1 /\ Max(s) \in 1..n + 1 /\ i <= Max(s) /\ i # Max(s)
    BY <1>1
  <2>. QED
    BY <2>1
<1>. QED
  BY <1>1, <1>2

\* One step of the turn: a callback is called if those before it have passed.
Tried(c, func, text) == IF c.ret # 0 THEN c ELSE LoadCall(func, c, text)

\* The turn of two callbacks.
LEMMA TurnOfTwo ==
    ASSUME NEW p, NEW key, NEW f, NEW g, Callbacks(p, key) = <<f, g>>,
           NEW c, NEW text
    PROVE  Turn(p, key, LoadCall, c, text) =
             Tried(Tried([c EXCEPT !.ret = 0], f, text), g, text)
<1>. DEFINE base == [c EXCEPT !.ret = 0]
            seq == <<f, g>>
            Body(it, s) == IF s = {} THEN base ELSE Tried(it[s \ {Max(s)}], seq[Max(s)], text)
            turn == CHOOSE it : it = [s \in SUBSET (DOMAIN seq) |-> Body(it, s)]
<1>1. Turn(p, key, LoadCall, c, text) = turn[DOMAIN seq]
  BY DEF Turn, FoldLeft, MapThenFoldSet, Tried
<1>2. DOMAIN seq = {1, 2} /\ seq[1] = f /\ seq[2] = g
  OBVIOUS
<1>3. Max({1}) = 1 /\ Max({2}) = 2 /\ Max({1, 2}) = 2
  <2>1. \A s : s \in {{1}, {2}, {1, 2}} => s \subseteq 1..2 /\ s # {}
    OBVIOUS
  <2>2. \A s : s \in {{1}, {2}, {1, 2}} => Max(s) \in s /\ \A i \in s : i <= Max(s)
    BY <2>1, MaxIs
  <2>3. Max({1}) \in {1} /\ Max({2}) \in {2} /\ Max({1, 2}) \in {1, 2} /\ 2 <= Max({1, 2})
    BY <2>2
  <2>. QED
    BY <2>3
<1>4. SUBSET {1, 2} = {{}, {1}, {2}, {1, 2}}
  OBVIOUS
<1>5. {1} \ {1} = {} /\ {2} \ {2} = {} /\ {1, 2} \ {2} = {1}
  OBVIOUS
<1>. HIDE DEF base, seq
<1>6. \A it : /\ Body(it, {}) = base
              /\ Body(it, {1}) = Tried(it[{}], f, text)
              /\ Body(it, {2}) = Tried(it[{}], g, text)
              /\ Body(it, {1, 2}) = Tried(it[{1}], g, text)
  BY <1>2, <1>3, <1>5
<1>. HIDE DEF Body
<1>. DEFINE first == Tried(base, f, text)
            h == [s \in SUBSET {1, 2} |->
                    IF s = {} THEN base
                    ELSE IF s = {1} THEN first
                    ELSE Tried(IF s = {2} THEN base ELSE first, g, text)]
<1>7. h[{}] = base /\ h[{1}] = first /\ h[{2}] = Tried(base, g, text)
      /\ h[{1, 2}] = Tried(first, g, text)
  <2>1. {} # {1} /\ {} # {2} /\ {1} # {2} /\ {} # {1, 2} /\ {1} # {1, 2} /\ {2} # {1, 2}
    OBVIOUS
  <2>. HIDE DEF first
  <2>. QED
    BY <1>4, <2>1
<1>8. \A s \in SUBSET {1, 2} : h[s] = Body(h, s)
  <2>. HIDE DEF h, first
  <2>1. /\ Body(h, {}) = base
        /\ Body(h, {1}) = Tried(h[{}], f, text)
        /\ Body(h, {2}) = Tried(h[{}], g, text)
        /\ Body(h, {1, 2}) = Tried(h[{1}], g, text)
    BY <1>6
  <2>2. Tried(base, f, text) = first
    BY DEF first
  <2>3. h[{}] = Body(h, {}) /\ h[{1}] = Body(h, {1})
    BY <1>7, <2>1, <2>2
  <2>4. h[{2}] = Body(h, {2}) /\ h[{1, 2}] = Body(h, {1, 2})
    BY <1>7, <2>1, <2>2
  <2>. QED
    BY <1>4, <2>3, <2>4
<1>9. h = [s \in SUBSET {1, 2} |-> h[s]]
  OBVIOUS
<1>10. h = [s \in SUBSET {1, 2} |-> Body(h, s)]
  <2>. HIDE DEF h
  <2>. QED
    BY <1>8, <1>9
<1>11. turn = [s \in SUBSET {1, 2} |-> Body(turn, s)]
  <2>. HIDE DEF h
  <2>. QED
    BY <1>2, <1>10
<1>. HIDE DEF turn, h
<1>12. turn[{}] = base /\ turn[{1}] = first /\ turn[{1, 2}] = Tried(turn[{1}], g, text)
  <2>1. \A s \in SUBSET {1, 2} : turn[s] = Body(turn, s)
    BY <1>11
  <2>. QED
    BY <1>4, <1>6, <2>1
<1>. QED
  BY <1>1, <1>2, <1>12 DEF base

\* After a turn the position has moved by what was read, at least a character.
LEMMA TurnIs ==
    ASSUME NEW c, IsContext(c), c.pos \in Int, NEW s, Len(s) \in Nat \ {0},
           NEW p, NEW key, NEW f \in Callback, Callbacks(p, key) = <<f, "default">>
    PROVE  Reads(Turn(p, key, LoadCall, c, s), c.pos)
<1>. DEFINE base == [c EXCEPT !.ret = 0]
            d == LoadCall(f, base, s)
            e == LoadCall("default", d, s)
<1>1. Here(base, c.pos)
  <2>1. DOMAIN base = DOMAIN c /\ base = [y \in DOMAIN c |-> IF y = "ret" THEN 0 ELSE c[y]]
    BY DEF IsContext
  <2>2. {"pos", "ret"} \subseteq DOMAIN c
    BY DEF IsContext
  <2>. HIDE DEF base
  <2>3. IsContext(base)
    BY <2>1, <2>2 DEF IsContext
  <2>. QED
    BY <2>1, <2>2, <2>3 DEF Here
<1>. HIDE DEF base
<1>2. Returns(d, c.pos)
  BY <1>1, CallIs
<1>3. base.ret = 0
  BY <1>1 DEF Here
<1>. HIDE DEF d
<1>4. d.ret = 0 => Here(d, c.pos)
  BY <1>2 DEF Returns, Here
<1>5. d.ret = 0 => Reads(e, c.pos)
  BY <1>4, CallIs DEF Callback
<1>6. d.ret # 0 => Reads(d, c.pos)
  BY <1>2 DEF Reads
<1>7. Tried(base, f, s) = d
  BY <1>3 DEF Tried, d
<1>8. Turn(p, key, LoadCall, c, s) = Tried(d, "default", s)
  BY <1>7, TurnOfTwo DEF base
<1>. QED
  BY <1>5, <1>6, <1>8 DEF Tried

-----------------------------------------------------------------------------
(* The table of the parser.  No two callbacks of a document parser share a *)
(* character, so that the collision pool stays empty.                      *)

Cells(F) == {Cell(func, 0) : func \in F}

Table(p, F) ==
    /\ p = [field \in {"main", "pool"} |-> p[field]]
    /\ p.main \in [Symbols -> Cells(F)]
    /\ p.pool = <<>>

LEMMA CellIs ==
    ASSUME NEW F, NEW cell \in Cells(F)
    PROVE  cell.func \in F /\ cell.next = 0 /\ cell = Cell(cell.func, 0)
  BY DEF Cells, Cell

\* The tables with another cell for a character.
Changed(p, key, cell) == {[p EXCEPT !.main[key] = cell],
                          [p EXCEPT !.main[key] = cell, !.pool = <<>>]}

\* The cell has been put, the others are as before.
Put(p, q, key, cell) ==
    /\ q.main[key] = cell
    /\ \A k \in Symbols \ {key} : q.main[k] = p.main[k]

LEMMA SetCell ==
    ASSUME NEW F, NEW p, Table(p, F), NEW key \in Symbols, NEW cell \in Cells(F),
           NEW q \in Changed(p, key, cell)
    PROVE  Table(q, F) /\ Put(p, q, key, cell)
<1>. DEFINE m == [p.main EXCEPT ![key] = cell]
<1>1. p = [field \in {"main", "pool"} |-> p[field]]
  BY DEF Table
<1>2. /\ q = [field \in {"main", "pool"} |-> q[field]]
      /\ q.main = m
  BY <1>1 DEF Changed
<1>3. q.pool = <<>>
  BY <1>1 DEF Table, Changed
<1>4. p.main \in [Symbols -> Cells(F)]
  BY DEF Table
<1>5. m \in [Symbols -> Cells(F)] /\ m[key] = cell /\ \A k \in Symbols \ {key} : m[k] = p.main[k]
  BY <1>4
<1>. HIDE DEF m
<1>. QED
  BY <1>2, <1>3, <1>5 DEF Table, Put

LEMMA NoneMore ==
    /\ \A e : [i \in 1..0 |-> e[i]] = <<>>
    /\ <<>> \o <<>> = <<>>
  OBVIOUS

LEMMA AllocateIs == Table(Allocate(Symbols), {"none"})
  BY DEF Table, Allocate, Cells

LEMMA NoCells ==
    ASSUME NEW p, p.pool = <<>>
    PROVE  CellsFrom(p, 0) = <<>>
<1>. DEFINE Body(it, i) == IF i = 0 THEN <<>> ELSE <<i>> \o it[p.pool[i].next]
            cells == CHOOSE it : it = [i \in 0..Len(p.pool) |-> Body(it, i)]
            h == [i \in 0..0 |-> <<>>]
<1>1. CellsFrom(p, 0) = cells[0]
  BY DEF CellsFrom
<1>2. 0..Len(p.pool) = 0..0 /\ 0 \in 0..0 /\ \A i \in 0..0 : i = 0
  OBVIOUS
<1>3. h = [i \in 0..Len(p.pool) |-> Body(h, i)]
  BY <1>2
<1>. HIDE DEF h
<1>4. cells = [i \in 0..Len(p.pool) |-> Body(cells, i)]
  BY <1>3
<1>. HIDE DEF cells
<1>. QED
  BY <1>1, <1>2, <1>4

\* The first callback of a character is put into its cell.
LEMMA AppendIs ==
    ASSUME NEW F, "none" \in F, NEW p, Table(p, F), NEW key \in Symbols,
           p.main[key].func = "none", NEW func \in F
    PROVE  /\ Table(AppendItem(p, key, func), F)
           /\ AppendItem(p, key, func).main[key].func = func
           /\ \A k \in Symbols \ {key} : AppendItem(p, key, func).main[k] = p.main[k]
<1>1. AppendItem(p, key, func) = [p EXCEPT !.main[key].func = func]
  BY DEF AppendItem
<1>2. p.main[key] = Cell("none", 0)
  BY CellIs DEF Table
<1>3. [p.main[key] EXCEPT !.func = func] = Cell(func, 0)
  BY <1>2 DEF Cell
<1>4. AppendItem(p, key, func) \in Changed(p, key, Cell(func, 0))
  BY <1>1, <1>3 DEF Changed
<1>5. Cell(func, 0) \in Cells(F) /\ Cell(func, 0).func = func
  BY DEF Cells, Cell
<1>6. /\ Table(AppendItem(p, key, func), F)
      /\ Put(p, AppendItem(p, key, func), key, Cell(func, 0))
  BY <1>4, <1>5, SetCell
<1>. QED
  BY <1>5, <1>6 DEF Put

\* One step of the registration of items.
Registered(items, it, s) ==
    IF s = {} THEN Allocate(Symbols)
    ELSE AppendItem(it[s \ {Max(s)}], items[Max(s)][1], items[Max(s)][2])

\* There is a function that takes these steps.
LEMMA RegistrationExists ==
    ASSUME NEW items, NEW m \in Nat
    PROVE  \E it : it = [s \in SUBSET (1..m) |-> Registered(items, it, s)]
<1>. DEFINE G(it, n) == it = [s \in SUBSET (1..n) |-> Registered(items, it, s)]
            S == {n \in Nat : \E it : G(it, n)}
<1>1. \E it : G(it, 0)
  <2>. DEFINE h == [s \in SUBSET (1..0) |-> Allocate(Symbols)]
  <2>1. \A s \in SUBSET (1..0) : s = {}
    OBVIOUS
  <2>2. \A s \in SUBSET (1..0) : Registered(items, h, s) = Allocate(Symbols)
    BY <2>1 DEF Registered
  <2>3. G(h, 0)
    BY <2>2
  <2>. HIDE DEF G, h
  <2>. QED
    BY <2>3
<1>2. ASSUME NEW n \in Nat, NEW f, G(f, n)
      PROVE  \E it : G(it, n + 1)
  <2>. DEFINE h == [s \in SUBSET (1..n + 1) |-> Registered(items, f, s)]
  <2>1. \A s \in SUBSET (1..n) : f[s] = Registered(items, f, s)
    BY <1>2
  <2>2. \A s \in SUBSET (1..n) : s \in SUBSET (1..n + 1)
    OBVIOUS
  <2>3. \A s \in SUBSET (1..n) : h[s] = f[s]
    BY <2>1, <2>2
  <2>4. \A s \in SUBSET (1..n + 1) : Registered(items, h, s) = Registered(items, f, s)
    <3>. SUFFICES ASSUME NEW s \in SUBSET (1..n + 1)
                  PROVE  Registered(items, h, s) = Registered(items, f, s)
      OBVIOUS
    <3>1. s # {} => s \ {Max(s)} \in SUBSET (1..n)
      BY WithoutMax
    <3>. HIDE DEF h
    <3>2. s # {} => h[s \ {Max(s)}] = f[s \ {Max(s)}]
      BY <2>3, <3>1
    <3>. QED
      BY <3>2 DEF Registered
  <2>5. G(h, n + 1)
    BY <2>4
  <2>. HIDE DEF G, h
  <2>. QED
    BY <2>5
<1>3. 0 \in S
  BY <1>1
<1>4. \A n \in Nat : n \in S => n + 1 \in S
  <2>. HIDE DEF G
  <2>. QED
    BY <1>2
<1>. HIDE DEF S
<1>5. Nat \subseteq S
  BY <1>3, <1>4, SetInduction
<1>6. m \in S
  BY <1>5
<1>. QED
  BY <1>6 DEF S

\* The tables after each item.
LEMMA Registration ==
    \E g : /\ g[0] = Allocate(Symbols)
           /\ \A k \in 1..13 : g[k] = AppendItem(g[k - 1], Items[k][1], Items[k][2])
           /\ LoadParser = Prepare(g[13])
<1>. DEFINE it == CHOOSE f : f = [s \in SUBSET (DOMAIN Items) |-> Registered(Items, f, s)]
            g == [k \in 0..13 |-> it[1..k]]
<1>1. LoadParser = Prepare(it[DOMAIN Items])
  BY DEF LoadParser, Parser, FoldLeft, MapThenFoldSet, Registered
<1>2. DOMAIN Items = 1..13
  BY DEF Items
<1>3. it = [s \in SUBSET (1..13) |-> Registered(Items, it, s)]
  <2>1. \A m \in Nat : \E f : f = [s \in SUBSET (1..m) |-> Registered(Items, f, s)]
    BY RegistrationExists
  <2>2. \E f : f = [s \in SUBSET (1..13) |-> Registered(Items, f, s)]
    BY <2>1
  <2>3. \E f : f = [s \in SUBSET (DOMAIN Items) |-> Registered(Items, f, s)]
    BY <1>2, <2>2
  <2>4. it = [s \in SUBSET (DOMAIN Items) |-> Registered(Items, it, s)]
    BY <2>3
  <2>. QED
    BY <1>2, <2>4
<1>. HIDE DEF it
<1>4. \A k \in 0..13 : 1..k \in SUBSET (1..13) /\ g[k] = it[1..k]
  OBVIOUS
<1>. HIDE DEF g
<1>5. \A k \in 0..13 : g[k] = Registered(Items, it, 1..k)
  BY <1>3, <1>4
<1>6. g[0] = Allocate(Symbols)
  <2>1. 1..0 = {} /\ 0 \in 0..13
    OBVIOUS
  <2>. QED
    BY <1>5, <2>1 DEF Registered
<1>7. ASSUME NEW k \in 1..13
      PROVE  g[k] = AppendItem(g[k - 1], Items[k][1], Items[k][2])
  <2>1. 1..k # {} /\ 1..k \subseteq 1..13
    OBVIOUS
  <2>2. Max(1..k) \in 1..k /\ \A i \in 1..k : i <= Max(1..k)
    BY <2>1, MaxIs
  <2>3. Max(1..k) = k
    <3>1. k \in 1..k
      OBVIOUS
    <3>2. k <= Max(1..k)
      BY <2>2, <3>1
    <3>. QED
      BY <2>2, <3>2
  <2>4. (1..k) \ {k} = 1..k - 1 /\ k - 1 \in 0..13 /\ k \in 0..13
    OBVIOUS
  <2>5. g[k] = Registered(Items, it, 1..k) /\ g[k - 1] = it[1..k - 1]
    BY <1>4, <1>5, <2>4
  <2>. QED
    BY <2>1, <2>3, <2>4, <2>5 DEF Registered
<1>8. LoadParser = Prepare(g[13])
  <2>1. g[13] = it[1..13]
    BY <1>4
  <2>. QED
    BY <1>1, <1>2, <2>1
<1>. QED
  BY <1>6, <1>7, <1>8

\* No two callbacks of a document parser share a character.
LEMMA ItemsAre ==
    /\ \A k \in 1..13 : Items[k][1] \in Symbols /\ Items[k][2] \in Callback
    /\ \A j, k \in 1..13 : Items[j][1] = Items[k][1] => j = k
    /\ Items[13][1] = "" /\ Items[13][2] = "default"
<1>1. DOMAIN Items = 1..13
  BY DEF Items
<1>2. \A k \in 1..13 : Items[k][1] \in Symbols
  <2>1. \A k \in 1..13 : Items[k] \in ToSet(Items)
    BY <1>1 DEF ToSet
  <2>. QED
    BY <2>1 DEF Symbols
<1>3. \A k \in 1..13 : k \in {1, 2, 3, 4, 5, 6, 7, 8, 9, 10, 11, 12, 13}
  OBVIOUS
<1>4. /\ Items[1][1] = " " /\ Items[2][1] = "<" /\ Items[3][1] = ">" /\ Items[4][1] = "/"
      /\ Items[5][1] = "'" /\ Items[6][1] = "\"" /\ Items[7][1] = "\n"
      /\ Items[8][1] = "!" /\ Items[9][1] = "]" /\ Items[10][1] = "-"
      /\ Items[11][1] = "?" /\ Items[12][1] = ":" /\ Items[13][1] = ""
  BY DEF Items
<1>5. /\ Items[1][2] = "white" /\ Items[2][2] = "open_node"
      /\ Items[3][2] = "close_node" /\ Items[4][2] = "end_node"
      /\ Items[5][2] = "quoted" /\ Items[6][2] = "dquoted" /\ Items[7][2] = "white"
      /\ Items[8][2] = "open_spec_node" /\ Items[9][2] = "close_cdata"
      /\ Items[10][2] = "close_comment" /\ Items[11][2] = "close_pi"
      /\ Items[12][2] = "colon" /\ Items[13][2] = "default"
  BY DEF Items
<1>6. \A k \in 1..13 : Items[k][2] \in Callback
  BY <1>3, <1>5 DEF Callback
<1>7. \A j \in 1..13 :
        /\ Items[j][1] = " " => j = 1
        /\ Items[j][1] = "<" => j = 2
        /\ Items[j][1] = ">" => j = 3
        /\ Items[j][1] = "/" => j = 4
        /\ Items[j][1] = "'" => j = 5
        /\ Items[j][1] = "\"" => j = 6
        /\ Items[j][1] = "\n" => j = 7
        /\ Items[j][1] = "!" => j = 8
        /\ Items[j][1] = "]" => j = 9
        /\ Items[j][1] = "-" => j = 10
        /\ Items[j][1] = "?" => j = 11
        /\ Items[j][1] = ":" => j = 12
        /\ Items[j][1] = "" => j = 13
  BY <1>3, <1>4
<1>8. \A k \in 1..13 :
        /\ Items[k][1] = Items[1][1] => k = 1
        /\ Items[k][1] = Items[2][1] => k = 2
        /\ Items[k][1] = Items[3][1] => k = 3
        /\ Items[k][1] = Items[4][1] => k = 4
        /\ Items[k][1] = Items[5][1] => k = 5
        /\ Items[k][1] = Items[6][1] => k = 6
        /\ Items[k][1] = Items[7][1] => k = 7
        /\ Items[k][1] = Items[8][1] => k = 8
        /\ Items[k][1] = Items[9][1] => k = 9
        /\ Items[k][1] = Items[10][1] => k = 10
        /\ Items[k][1] = Items[11][1] => k = 11
        /\ Items[k][1] = Items[12][1] => k = 12
        /\ Items[k][1] = Items[13][1] => k = 13
  BY <1>4, <1>7, ZenonT(60)
<1>9. \A j, k \in 1..13 : Items[j][1] = Items[k][1] => j = k
  <2>. SUFFICES ASSUME NEW j \in 1..13, NEW k \in 1..13, Items[k][1] = Items[j][1]
                PROVE  k = j
    OBVIOUS
  <2>. QED
    BY <1>3, <1>8
<1>. QED
  BY <1>2, <1>4, <1>5, <1>6, <1>9

Known == Callback \cup {"none"}

\* The table that the items make: a callback at most for each character, and
\* the default one.
LEMMA RegisteredIs ==
    \E p : /\ LoadParser = Prepare(p)
           /\ Table(p, Known)
           /\ p.main[""] = Cell("default", 0)
<1>1. PICK g : /\ g[0] = Allocate(Symbols)
               /\ \A k \in 1..13 : g[k] = AppendItem(g[k - 1], Items[k][1], Items[k][2])
               /\ LoadParser = Prepare(g[13])
  BY Registration
<1>. DEFINE Free0(n) == /\ Table(g[n], Known)
                        /\ \A j \in 1..13 : j > n => g[n].main[Items[j][1]].func = "none"
            S == {n \in Nat : n <= 13 => Free0(n)}
<1>2. Free0(0)
  <2>1. Table(g[0], {"none"})
    BY <1>1, AllocateIs
  <2>2. g[0].main \in [Symbols -> Cells({"none"})]
    BY <2>1 DEF Table
  <2>3. Cells({"none"}) \subseteq Cells(Known)
    BY DEF Cells, Known
  <2>4. Table(g[0], Known)
    <3>1. g[0].main \in [Symbols -> Cells(Known)]
      BY <2>2, <2>3
    <3>. QED
      BY <2>1, <3>1 DEF Table
  <2>5. \A k \in Symbols : g[0].main[k].func = "none"
    BY <2>2, CellIs
  <2>. QED
    BY <2>4, <2>5, ItemsAre
<1>3. ASSUME NEW n \in Nat, n + 1 <= 13, Free0(n)
      PROVE  Free0(n + 1) /\ g[n + 1].main[Items[n + 1][1]].func = Items[n + 1][2]
  <2>. DEFINE key == Items[n + 1][1]
              func == Items[n + 1][2]
  <2>1. n + 1 \in 1..13 /\ n + 1 - 1 = n /\ n + 1 > n
    BY <1>3
  <2>2. key \in Symbols /\ func \in Callback
    BY <2>1, ItemsAre
  <2>3. g[n + 1] = AppendItem(g[n], key, func)
    BY <1>1, <2>1
  <2>4. g[n].main[key].func = "none" /\ Table(g[n], Known)
    BY <1>3, <2>1
  <2>. HIDE DEF key, func
  <2>5. func \in Known /\ "none" \in Known
    BY <2>2 DEF Known
  <2>6. /\ Table(g[n + 1], Known) /\ g[n + 1].main[key].func = func
        /\ \A k \in Symbols \ {key} : g[n + 1].main[k] = g[n].main[k]
    BY <2>2, <2>3, <2>4, <2>5, AppendIs
  <2>7. ASSUME NEW j \in 1..13, j > n + 1
        PROVE  g[n + 1].main[Items[j][1]].func = "none"
    <3>1. j > n /\ j # n + 1
      BY <2>7
    <3>2. Items[j][1] \in Symbols \ {key}
      BY <2>1, <3>1, ItemsAre DEF key
    <3>3. g[n].main[Items[j][1]].func = "none"
      BY <1>3, <3>1
    <3>. QED
      BY <2>6, <3>2, <3>3
  <2>. QED
    BY <2>6, <2>7 DEF key, func
<1>4. 0 \in S
  BY <1>2
<1>5. \A n \in Nat : n \in S => n + 1 \in S
  <2>. HIDE DEF Free0
  <2>. QED
    BY <1>3
<1>6. 12 \in S
  <2>. HIDE DEF S
  <2>. QED
    BY <1>4, <1>5, SetInduction
<1>7. Free0(12)
  <2>. HIDE DEF Free0
  <2>. QED
    BY <1>6
<1>8. Free0(13) /\ g[13].main[""].func = "default"
  <2>1. 12 \in Nat /\ 12 + 1 = 13 /\ 12 + 1 <= 13
    OBVIOUS
  <2>. HIDE DEF Free0
  <2>2. Free0(12 + 1) /\ g[12 + 1].main[Items[12 + 1][1]].func = Items[12 + 1][2]
    BY <1>3, <1>7, <2>1
  <2>. QED
    BY <2>1, <2>2, ItemsAre
<1>9. g[13].main[""] = Cell("default", 0)
  <2>1. "" \in Symbols
    <3>1. 13 \in 1..13
      OBVIOUS
    <3>. QED
      BY <3>1, ItemsAre
  <2>2. g[13].main \in [Symbols -> Cells(Known)]
    BY <1>8 DEF Table
  <2>. QED
    BY <1>8, <2>1, <2>2, CellIs
<1>. QED
  BY <1>1, <1>8, <1>9

\* A cell without callbacks takes the default one, another is copied.
Filled(new, q, key) ==
    /\ q.main[key].func \in Callback
    /\ key = "" => q.main[key].func = "default"
    /\ \A k \in Symbols \ {key} : q.main[k] = new.main[k]

LEMMA CopyIs ==
    ASSUME NEW p, Table(p, Known), p.main[""] = Cell("default", 0),
           NEW new, Table(new, Known), NEW key \in Symbols
    PROVE  Table(CopyCell(p, new, key), Known) /\ Filled(new, CopyCell(p, new, key), key)
<1>. DEFINE cell == p.main[key]
            kept == IF cell.func = "none" THEN p.main[""] ELSE Cell(cell.func, 0)
<1>1. p.main \in [Symbols -> Cells(Known)] /\ p.pool = <<>>
  BY DEF Table
<1>3. cell.func \in Known /\ cell.next = 0
  BY <1>1, CellIs
<1>4. CellsFrom(p, cell.next) = <<>>
  BY <1>1, <1>3, NoCells
<1>6. CopyCell(p, new, key) \in Changed(new, key, kept)
  <2>1. CASE cell.func = "none"
    <3>1. CopyCell(p, new, key) = [new EXCEPT !.main[key] = p.main[""]]
      BY <2>1 DEF CopyCell
    <3>2. kept = p.main[""]
      BY <2>1
    <3>. QED
      BY <3>1, <3>2 DEF Changed
  <2>2. CASE cell.func # "none"
    <3>. DEFINE list == CellsFrom(p, cell.next)
                base == Len(new.pool)
                copied(i) == Cell(p.pool[list[i]].func,
                                  IF i < Len(list) THEN base + i + 1 ELSE 0)
                more == [i \in 1..Len(list) |-> copied(i)]
                first == Cell(cell.func, IF list = <<>> THEN 0 ELSE base + 1)
    <3>1. CopyCell(p, new, key) = [new EXCEPT !.main[key] = first, !.pool = @ \o more]
      BY <2>2 DEF CopyCell
    <3>2. list = <<>>
      BY <1>4
    <3>3. first = kept
      BY <2>2, <3>2
    <3>. HIDE DEF list, copied
    <3>4. more = <<>>
      <4>1. Len(list) = 0
        BY <3>2
      <4>2. more = [i \in 1..0 |-> copied(i)]
        BY <4>1
      <4>. HIDE DEF more
      <4>3. more = [i \in 1..0 |-> more[i]]
        BY <4>2
      <4>. QED
        BY <4>3, NoneMore
    <3>5. new.pool \o <<>> = <<>>
      <4>1. new.pool = <<>>
        BY DEF Table
      <4>. QED
        BY <4>1, NoneMore
    <3>. HIDE DEF more, first, kept, cell
    <3>6. CopyCell(p, new, key) = [new EXCEPT !.main[key] = kept, !.pool = <<>>]
      BY <3>1, <3>3, <3>4, <3>5
    <3>. QED
      BY <3>6 DEF Changed
  <2>. QED
    BY <2>1, <2>2
<1>7. /\ kept = Cell(kept.func, 0) /\ kept.func \in Callback
      /\ key = "" => kept.func = "default"
  <2>1. "default" \in Callback
    BY DEF Callback
  <2>2. \A f : Cell(f, 0).func = f
    BY DEF Cell
  <2>3. CASE cell.func = "none"
    <3>1. kept = Cell("default", 0)
      BY <2>3
    <3>. QED
      BY <2>1, <2>2, <3>1
  <2>4. CASE cell.func # "none"
    <3>1. kept = Cell(cell.func, 0)
      BY <2>4
    <3>2. cell.func \in Callback
      BY <1>3, <2>4 DEF Known
    <3>3. key = "" => cell.func = "default"
      BY <2>2
    <3>. QED
      BY <2>2, <3>1, <3>2, <3>3
  <2>. QED
    BY <2>3, <2>4
<1>9. kept \in Cells(Known)
  <2>. HIDE DEF kept
  <2>. QED
    BY <1>7 DEF Cells, Known
<1>. HIDE DEF kept
<1>10. /\ Table(CopyCell(p, new, key), Known)
       /\ CopyCell(p, new, key).main[key] = kept
       /\ \A k \in Symbols \ {key} : CopyCell(p, new, key).main[k] = new.main[k]
  <2>1. Table(new, Known) /\ key \in Symbols
    OBVIOUS
  <2>. DEFINE q == CopyCell(p, new, key)
  <2>2. q \in Changed(new, key, kept)
    BY <1>6
  <2>. HIDE DEF cell, q
  <2>3. Table(q, Known)
    BY <1>9, <2>1, <2>2, SetCell
  <2>4. Put(new, q, key, kept)
    BY <1>9, <2>1, <2>2, SetCell
  <2>. QED
    BY <2>3, <2>4 DEF q, Put
<1>. QED
  BY <1>7, <1>10 DEF Filled

\* One step of roxml_parser_prepare, when p is copied.
Copied(p, it, s) ==
    IF s = {} THEN Allocate(DOMAIN p.main)
    ELSE CopyCell(p, it[s \ {CHOOSE key \in s : TRUE}], CHOOSE key \in s : TRUE)

\* There is a function that takes these steps.
LEMMA CopyExists ==
    ASSUME NEW p, NEW S, IsFiniteSet(S)
    PROVE  \E it : it = [s \in SUBSET S |-> Copied(p, it, s)]
<1>. DEFINE Small(n) == {s \in SUBSET S : Cardinality(s) <= n}
            G(it, n) == it = [s \in Small(n) |-> Copied(p, it, s)]
            T == {n \in Nat : \E it : G(it, n)}
<1>1. \A s \in SUBSET S : /\ IsFiniteSet(s) /\ Cardinality(s) \in Nat
                          /\ Cardinality(s) <= Cardinality(S)
  <2>. SUFFICES ASSUME NEW s \in SUBSET S
                PROVE  /\ IsFiniteSet(s) /\ Cardinality(s) \in Nat
                       /\ Cardinality(s) <= Cardinality(S)
    OBVIOUS
  <2>. QED
    BY FS_Subset, FS_CardinalityType
<1>2. \A s \in SUBSET S : \A x \in s : Cardinality(s \ {x}) = Cardinality(s) - 1
  BY <1>1, FS_RemoveElement
<1>3. \A n \in Nat : \A s \in Small(n + 1) :
          s # {} => s \ {CHOOSE key \in s : TRUE} \in Small(n)
  <2>. SUFFICES ASSUME NEW n \in Nat, NEW s \in Small(n + 1), s # {}
                PROVE  s \ {CHOOSE key \in s : TRUE} \in Small(n)
    OBVIOUS
  <2>. DEFINE x == CHOOSE key \in s : TRUE
  <2>1. x \in s
    OBVIOUS
  <2>. HIDE DEF x
  <2>2. s \in SUBSET S /\ Cardinality(s) <= n + 1
    OBVIOUS
  <2>3. Cardinality(s) \in Nat /\ Cardinality(s \ {x}) = Cardinality(s) - 1
    BY <1>1, <1>2, <2>1, <2>2
  <2>4. Cardinality(s \ {x}) <= n
    BY <2>2, <2>3
  <2>5. s \ {x} \in SUBSET S
    BY <2>2
  <2>. QED
    BY <2>4, <2>5 DEF x
<1>4. \A n \in Nat : \A s \in Small(n) : s \in Small(n + 1)
  BY <1>1
<1>5. \E it : G(it, 0)
  <2>. DEFINE h == [s \in Small(0) |-> Allocate(DOMAIN p.main)]
  <2>1. \A s \in Small(0) : s = {}
    <3>. SUFFICES ASSUME NEW s \in Small(0)
                  PROVE  s = {}
      OBVIOUS
    <3>1. IsFiniteSet(s) /\ Cardinality(s) = 0
      BY <1>1
    <3>. QED
      BY <3>1, FS_EmptySet
  <2>2. \A s \in Small(0) : Copied(p, h, s) = Allocate(DOMAIN p.main)
    BY <2>1 DEF Copied
  <2>3. G(h, 0)
    <3>. HIDE DEF Small
    <3>. QED
      BY <2>2
  <2>. HIDE DEF G, h
  <2>. QED
    BY <2>3
<1>6. ASSUME NEW n \in Nat, NEW f, G(f, n)
      PROVE  \E it : G(it, n + 1)
  <2>. DEFINE h == [s \in Small(n + 1) |-> Copied(p, f, s)]
  <2>. HIDE DEF Small
  <2>1. \A s \in Small(n) : f[s] = Copied(p, f, s)
    BY <1>6
  <2>2. \A s \in Small(n) : h[s] = f[s]
    BY <1>4, <2>1
  <2>3. \A s \in Small(n + 1) : Copied(p, h, s) = Copied(p, f, s)
    <3>. SUFFICES ASSUME NEW s \in Small(n + 1)
                  PROVE  Copied(p, h, s) = Copied(p, f, s)
      OBVIOUS
    <3>1. s # {} => s \ {CHOOSE key \in s : TRUE} \in Small(n)
      BY <1>3
    <3>. HIDE DEF h
    <3>2. s # {} => h[s \ {CHOOSE key \in s : TRUE}] = f[s \ {CHOOSE key \in s : TRUE}]
      BY <2>2, <3>1
    <3>. QED
      BY <3>2 DEF Copied
  <2>4. G(h, n + 1)
    BY <2>3
  <2>. HIDE DEF G, h
  <2>. QED
    BY <2>4
<1>7. 0 \in T
  BY <1>5
<1>8. \A n \in Nat : n \in T => n + 1 \in T
  <2>. HIDE DEF G
  <2>. QED
    BY <1>6
<1>. HIDE DEF T
<1>9. Nat \subseteq T
  BY <1>7, <1>8, SetInduction
<1>10. Cardinality(S) \in Nat
  BY FS_CardinalityType
<1>11. Cardinality(S) \in T
  BY <1>9, <1>10
<1>12. Small(Cardinality(S)) = SUBSET S
  BY <1>1
<1>13. PICK it : G(it, Cardinality(S))
  <2>. HIDE DEF G
  <2>. QED
    BY <1>11 DEF T
<1>14. it = [s \in SUBSET S |-> Copied(p, it, s)]
  <2>. HIDE DEF Small
  <2>. QED
    BY <1>12, <1>13
<1>. QED
  BY <1>14

\* Every character has a callback in the table that documents are read with,
\* and one for the rest.
LEMMA LoadTable ==
    /\ Table(LoadParser, Known)
    /\ \A key \in Symbols : LoadParser.main[key].func \in Callback
    /\ LoadParser.main[""].func = "default"
<1>1. PICK p : LoadParser = Prepare(p) /\ Table(p, Known) /\ p.main[""] = Cell("default", 0)
  BY RegisteredIs
<1>. DEFINE it == CHOOSE f : f = [s \in SUBSET (DOMAIN p.main) |-> Copied(p, f, s)]
<1>2. DOMAIN p.main = Symbols
  BY <1>1 DEF Table
<1>3. Prepare(p) = it[DOMAIN p.main]
  BY DEF Prepare, FoldSet, MapThenFoldSet, Copied
<1>4. it = [s \in SUBSET (DOMAIN p.main) |-> Copied(p, it, s)]
  <2>1. \E f : f = [s \in SUBSET Symbols |-> Copied(p, f, s)]
    BY SymbolsAssumption, CopyExists
  <2>2. \E f : f = [s \in SUBSET (DOMAIN p.main) |-> Copied(p, f, s)]
    BY <1>2, <2>1
  <2>. QED
    BY <2>2
<1>. HIDE DEF it
<1>5. it = [s \in SUBSET Symbols |-> Copied(p, it, s)] /\ LoadParser = it[Symbols]
  BY <1>1, <1>2, <1>3, <1>4
<1>. DEFINE Full(s) == /\ Table(it[s], Known)
                       /\ \A key \in s : it[s].main[key].func \in Callback
                       /\ "" \in s => it[s].main[""].func = "default"
            T == {n \in Nat : \A s \in SUBSET Symbols : Cardinality(s) = n => Full(s)}
<1>6. \A s \in SUBSET Symbols : IsFiniteSet(s) /\ Cardinality(s) \in Nat
  BY SymbolsAssumption, FS_Subset, FS_CardinalityType
<1>7. Full({})
  <2>1. it[{}] = Copied(p, it, {})
    BY <1>5
  <2>2. it[{}] = Allocate(Symbols)
    BY <1>2, <2>1 DEF Copied
  <2>3. Table(it[{}], {"none"})
    BY <2>2, AllocateIs
  <2>4. Cells({"none"}) \subseteq Cells(Known)
    BY DEF Cells, Known
  <2>. QED
    BY <2>3, <2>4 DEF Table
<1>8. ASSUME NEW s \in SUBSET Symbols, s # {},
             Full(s \ {CHOOSE key \in s : TRUE})
      PROVE  Full(s)
  <2>. DEFINE key == CHOOSE k \in s : TRUE
              r == s \ {key}
              copy == CopyCell(p, it[r], key)
  <2>1. key \in s /\ key \in Symbols
    BY <1>8
  <2>2. it[s] = Copied(p, it, s)
    BY <1>5
  <2>3. it[s] = copy
    BY <1>8, <2>2 DEF Copied
  <2>4. Table(it[r], Known) /\ (\A k \in r : it[r].main[k].func \in Callback)
        /\ ("" \in r => it[r].main[""].func = "default")
    BY <1>8
  <2>. HIDE DEF key, copy
  <2>5. /\ Table(copy, Known) /\ copy.main[key].func \in Callback
        /\ key = "" => copy.main[key].func = "default"
        /\ \A k \in Symbols \ {key} : copy.main[k] = it[r].main[k]
    <3>1. Table(p, Known) /\ p.main[""] = Cell("default", 0)
      BY <1>1
    <3>2. Table(it[r], Known) /\ key \in Symbols
      BY <2>1, <2>4
    <3>. HIDE DEF r
    <3>3. Table(copy, Known) /\ Filled(it[r], copy, key)
      BY <3>1, <3>2, CopyIs DEF copy
    <3>. QED
      BY <3>3 DEF Filled
  <2>6. \A k \in s : k # key => k \in r /\ k \in Symbols \ {key}
    BY <2>1
  <2>. HIDE DEF r
  <2>. QED
    BY <2>3, <2>4, <2>5, <2>6
<1>9. 0 \in T
  <2>1. \A s \in SUBSET Symbols : Cardinality(s) = 0 => s = {}
    BY <1>6, FS_EmptySet
  <2>. HIDE DEF Full
  <2>. QED
    BY <1>7, <2>1
<1>10. ASSUME NEW n \in Nat, n \in T
       PROVE  n + 1 \in T
  <2>. HIDE DEF Full
  <2>. SUFFICES ASSUME NEW s \in SUBSET Symbols, Cardinality(s) = n + 1
                PROVE  Full(s)
    OBVIOUS
  <2>. DEFINE key == CHOOSE k \in s : TRUE
  <2>1. s # {}
    <3>1. n + 1 # 0
      OBVIOUS
    <3>. QED
      BY <1>6, <3>1, FS_EmptySet
  <2>2. key \in s
    BY <2>1
  <2>. HIDE DEF key
  <2>3. Cardinality(s \ {key}) = n
    <3>1. Cardinality(s \ {key}) = Cardinality(s) - 1
      BY <1>6, <2>2, FS_RemoveElement
    <3>. QED
      BY <3>1
  <2>4. Full(s \ {key})
    BY <1>10, <2>3
  <2>. QED
    BY <1>8, <2>1, <2>4 DEF key
<1>11. Nat \subseteq T
  <2>. HIDE DEF T
  <2>. QED
    BY <1>9, <1>10, SetInduction
<1>12. Full(Symbols)
  <2>. HIDE DEF Full
  <2>1. Cardinality(Symbols) \in Nat
    BY <1>6
  <2>. QED
    BY <1>11, <2>1
<1>13. "" \in Symbols
  <2>1. 13 \in 1..13
    OBVIOUS
  <2>. QED
    BY <2>1, ItemsAre
<1>. QED
  BY <1>5, <1>12, <1>13

\* A character is given to its callback, then to the default one.
LEMMA CallbacksAre ==
    ASSUME NEW key \in Symbols
    PROVE  \E f \in Callback : Callbacks(LoadParser, key) = <<f, "default">>
<1>. DEFINE f == LoadParser.main[key].func
<1>1. f \in Callback
  BY LoadTable
<1>2. f # "multiple"
  BY <1>1 DEF Callback
<1>3. Callbacks(LoadParser, key) = <<f>> \o <<LoadParser.main[""].func>>
  BY <1>2 DEF Callbacks
<1>4. LoadParser.main[""].func = "default"
  BY LoadTable
<1>. HIDE DEF f
<1>5. <<f>> \o <<"default">> = <<f, "default">>
  <2>. DEFINE S == {f, "default"}
              s == <<f>> \o <<"default">>
              t == <<f, "default">>
  <2>1. <<f>> \in Seq(S) /\ <<"default">> \in Seq(S) /\ t \in Seq(S)
    OBVIOUS
  <2>2. Len(<<f>>) = 1 /\ Len(<<"default">>) = 1 /\ Len(t) = 2
    OBVIOUS
  <2>3. <<f>>[1] = f /\ <<"default">>[1] = "default" /\ t[1] = f /\ t[2] = "default"
    OBVIOUS
  <2>. HIDE DEF t
  <2>4. s \in Seq(S) /\ Len(s) = 2 /\ s[1] = f /\ s[2] = "default"
    <3>. HIDE DEF S
    <3>. QED
      BY <2>1, <2>2, <2>3, ConcatProperties
  <2>. HIDE DEF s, S
  <2>5. \A i \in 1..Len(s) : s[i] = t[i]
    <3>1. \A i \in 1..2 : i = 1 \/ i = 2
      OBVIOUS
    <3>. QED
      BY <2>3, <2>4, <3>1
  <2>6. s = t
    BY <2>1, <2>2, <2>4, <2>5, SeqEqual
  <2>. QED
    BY <2>6 DEF s, t
<1>. QED
  BY <1>1, <1>3, <1>4, <1>5

-----------------------------------------------------------------------------
(* The position of the context.                                            *)

\* While a text is read: the chunk is never full of what was carried over, so
\* that something can be read, and the callbacks stop before it ends.
LoadInv ==
    /\ phase \in {"read", "parse"} =>
          /\ IsContext(ctx) /\ ctx.pos \in Int
          /\ buffer \in Seq(Symbols) /\ chunk \in Nat /\ bulk \in Nat
          /\ fpos \in 0..Len(file) /\ Len(buffer) <= bulk
          /\ ctx.pos = fpos - Len(buffer) + chunk
    /\ phase = "parse" =>
          /\ stop \in Int /\ stop <= Len(buffer)
          /\ Len(buffer) = bulk => BaseLen < bulk /\ stop = bulk - BaseLen
    /\ phase = "read" => chunk = 0 /\ Len(buffer) < bulk /\ BaseLen < bulk

\* What LoadProgress says of a step.
Progresses ==
    phase = "parse" =>
        CASE phase' = "parse" -> chunk' > chunk
          [] phase' = "read" -> Len(buffer') < bulk
          [] OTHER -> TRUE

LEMMA NewContextIs == IsContext(NewContext) /\ NewContext.pos = 0
  BY DEF IsContext, NewContext

\* The text is in a buffer, or none of it has been read.
LEMMA BeginInv ==
    ASSUME NEW f \in Seq(Symbols), file = f, chunk = 0, ctx = NewContext,
           LoadDoc(f) \/ LoadBuf(f)
    PROVE  LoadInv
<1>1. IsContext(ctx) /\ ctx.pos = 0
  BY NewContextIs
<1>2. Len(f) \in Nat
  OBVIOUS
<1>3. CASE LoadDoc(f)
  <2>1. bulk \in Nat /\ BaseLen < bulk /\ BaseLen \in Nat
    BY <1>3, BulkAssumption, BaseLenAssumption DEF LoadDoc
  <2>2. /\ fpos = 0 /\ phase = "read" /\ buffer \in Seq(Symbols) /\ Len(buffer) = 0
    BY <1>3 DEF LoadDoc
  <2>. QED
    BY <1>1, <1>2, <2>1, <2>2 DEF LoadInv
<1>4. CASE LoadBuf(f)
  BY <1>1, <1>2, <1>4 DEF LoadBuf, LoadInv
<1>. QED
  BY <1>3, <1>4

LEMMA ReadChunkKeeps ==
    ASSUME file \in Seq(Symbols), LoadInv, ReadChunk
    PROVE  LoadInv'
<1>. DEFINE n == Min({bulk - Len(buffer), Len(file) - fpos})
            more == SubSeq(file, fpos + 1, fpos + n)
            b == buffer \o more
<1>1. phase = "read"
  BY DEF ReadChunk
<1>2. /\ IsContext(ctx) /\ ctx.pos \in Int
      /\ buffer \in Seq(Symbols) /\ chunk = 0 /\ bulk \in Nat
      /\ fpos \in 0..Len(file) /\ Len(buffer) < bulk /\ BaseLen < bulk
      /\ ctx.pos = fpos - Len(buffer) + chunk
  BY <1>1 DEF LoadInv
<1>3. Len(file) \in Nat /\ Len(buffer) \in Nat /\ BaseLen \in Nat
  BY <1>2, BaseLenAssumption
<1>4. n \in Nat /\ n <= bulk - Len(buffer) /\ n <= Len(file) - fpos
  <2>1. bulk - Len(buffer) \in Nat /\ Len(file) - fpos \in Nat
    BY <1>2, <1>3
  <2>. DEFINE S == {bulk - Len(buffer), Len(file) - fpos}
  <2>2. S \subseteq Nat /\ S # {}
    BY <2>1
  <2>3. bulk - Len(buffer) \in S /\ Len(file) - fpos \in S
    OBVIOUS
  <2>. HIDE DEF S
  <2>4. Min(S) \in S /\ \A m \in S : Min(S) <= m
    BY <2>2, MinIs
  <2>. QED
    BY <2>2, <2>3, <2>4 DEF S
<1>. HIDE DEF n
<1>5. more \in Seq(Symbols) /\ Len(more) = n
  <2>. DEFINE i == fpos + 1
              j == fpos + n
  <2>1. i \in Int /\ j \in Int
    BY <1>2, <1>4
  <2>2. \A k \in i..j : file[k] \in Symbols
    <3>. SUFFICES ASSUME NEW k \in i..j
                  PROVE  file[k] \in Symbols
      OBVIOUS
    <3>1. k \in 1..Len(file)
      BY <1>2, <1>3, <1>4
    <3>. QED
      BY <3>1
  <2>3. more = SubSeq(file, i, j)
    OBVIOUS
  <2>. HIDE DEF i, j, more
  <2>4. more \in Seq(Symbols) /\ Len(more) = IF i <= j THEN j - i + 1 ELSE 0
    BY <2>1, <2>2, <2>3, SubSeqProperties
  <2>. QED
    BY <1>2, <1>4, <2>4 DEF i, j
<1>. HIDE DEF more
<1>6. b \in Seq(Symbols) /\ Len(b) = Len(buffer) + n
  BY <1>2, <1>5, ConcatProperties
<1>7. /\ buffer' = b /\ fpos' = fpos + n /\ phase' = "parse"
      /\ stop' = (IF Len(b) = bulk THEN Len(b) - BaseLen ELSE Len(b))
      /\ UNCHANGED <<file, bulk, chunk, ctx>>
  BY DEF ReadChunk, n, more
<1>. HIDE DEF b
<1>8. fpos' \in 0..Len(file') /\ Len(buffer') <= bulk'
  BY <1>2, <1>3, <1>4, <1>6, <1>7
<1>9. /\ ctx'.pos = fpos' - Len(buffer') + chunk'
      /\ stop' \in Int /\ stop' <= Len(buffer')
      /\ Len(buffer') = bulk' => BaseLen < bulk' /\ stop' = bulk' - BaseLen
  BY <1>2, <1>3, <1>4, <1>6, <1>7
<1>10. /\ IsContext(ctx') /\ ctx'.pos \in Int /\ buffer' \in Seq(Symbols)
       /\ chunk' \in Nat /\ bulk' \in Nat
  BY <1>2, <1>6, <1>7
<1>. QED
  BY <1>7, <1>8, <1>9, <1>10 DEF LoadInv

LEMMA ParseKeeps ==
    ASSUME file \in Seq(Symbols), LoadInv, Parse
    PROVE  LoadInv' /\ Progresses
<1>. DEFINE s == SubSeq(buffer, chunk + 1, Len(buffer))
            c == Turn(LoadParser, s[1], LoadCall, ctx, s)
<1>1. phase = "parse" /\ chunk < stop
  BY DEF Parse
<1>2. /\ IsContext(ctx) /\ ctx.pos \in Int
      /\ buffer \in Seq(Symbols) /\ chunk \in Nat /\ bulk \in Nat
      /\ fpos \in 0..Len(file) /\ Len(buffer) <= bulk
      /\ ctx.pos = fpos - Len(buffer) + chunk
      /\ stop \in Int /\ stop <= Len(buffer)
      /\ Len(buffer) = bulk => BaseLen < bulk /\ stop = bulk - BaseLen
  BY <1>1 DEF LoadInv
<1>3. Len(file) \in Nat /\ Len(buffer) \in Nat
  BY <1>2
<1>4. Len(s) \in Nat \ {0} /\ s[1] \in Symbols
  <2>1. \A i \in chunk + 1..Len(buffer) : buffer[i] \in Symbols
    BY <1>2, <1>3
  <2>2. chunk + 1 \in Int /\ Len(buffer) \in Int
    BY <1>2, <1>3
  <2>3. /\ s \in Seq(Symbols)
        /\ Len(s) = IF chunk + 1 <= Len(buffer) THEN Len(buffer) - (chunk + 1) + 1 ELSE 0
    BY <2>1, <2>2, SubSeqProperties
  <2>. HIDE DEF s
  <2>4. Len(s) \in Nat /\ Len(s) >= 1
    BY <1>1, <1>2, <1>3, <2>3
  <2>. QED
    BY <2>3, <2>4
<1>. HIDE DEF s
<1>5. Reads(c, ctx.pos)
  <2>1. PICK f \in Callback : Callbacks(LoadParser, s[1]) = <<f, "default">>
    BY <1>4, CallbacksAre
  <2>. QED
    BY <1>2, <1>4, <2>1, TurnIs
<1>6. /\ ctx' = c
      /\ chunk' = (IF c.ret < 0 THEN chunk ELSE chunk + c.ret)
      /\ phase' = (IF c.ret < 0 THEN "error" ELSE phase)
      /\ UNCHANGED <<file, bulk, fpos, buffer, stop>>
  BY DEF Parse, s
<1>. HIDE DEF c
<1>7. IsContext(c) /\ c.ret \in Int /\ c.ret # 0 /\ (c.ret >= 0 => c.pos = ctx.pos + c.ret)
  BY <1>5 DEF Reads, Returns
<1>8. CASE c.ret < 0
  BY <1>6, <1>8 DEF LoadInv, Progresses
<1>9. CASE ~(c.ret < 0)
  <2>1. c.ret > 0 /\ phase' = "parse" /\ chunk' = chunk + c.ret
    BY <1>1, <1>6, <1>7, <1>9
  <2>2. chunk' \in Nat /\ chunk' > chunk
    BY <1>2, <1>7, <2>1
  <2>3. ctx'.pos \in Int /\ ctx'.pos = fpos' - Len(buffer') + chunk'
    BY <1>2, <1>3, <1>6, <1>7, <2>1
  <2>4. Progresses
    BY <2>1, <2>2 DEF Progresses
  <2>5. IsContext(ctx')
    BY <1>6, <1>7
  <2>. QED
    BY <1>2, <1>6, <2>1, <2>2, <2>3, <2>4, <2>5 DEF LoadInv
<1>. QED
  BY <1>8, <1>9

LEMMA NextChunkKeeps ==
    ASSUME file \in Seq(Symbols), LoadInv, NextChunk
    PROVE  LoadInv' /\ Progresses
<1>1. phase = "parse" /\ chunk >= stop
  BY DEF NextChunk
<1>2. /\ IsContext(ctx) /\ ctx.pos \in Int
      /\ buffer \in Seq(Symbols) /\ chunk \in Nat /\ bulk \in Nat
      /\ fpos \in 0..Len(file) /\ Len(buffer) <= bulk
      /\ ctx.pos = fpos - Len(buffer) + chunk
      /\ stop \in Int /\ stop <= Len(buffer)
      /\ Len(buffer) = bulk => BaseLen < bulk /\ stop = bulk - BaseLen
  BY <1>1 DEF LoadInv
<1>3. Len(file) \in Nat /\ Len(buffer) \in Nat /\ BaseLen \in Nat
  BY <1>2, BaseLenAssumption
<1>4. /\ buffer' = SubSeq(buffer, chunk + 1, Len(buffer))
      /\ chunk' = 0
      /\ phase' = (CASE chunk > Len(buffer) -> "error"
                     [] chunk <= Len(buffer) /\ Len(buffer) = bulk -> "read"
                     [] OTHER -> IF ctx.lvl = 0 THEN "end" ELSE "error")
      /\ UNCHANGED <<file, bulk, fpos, stop, ctx>>
  BY DEF NextChunk
<1>5. CASE chunk <= Len(buffer) /\ Len(buffer) = bulk
  <2>1. phase' = "read"
    BY <1>2, <1>3, <1>4, <1>5
  <2>2. buffer' \in Seq(Symbols) /\ Len(buffer') = Len(buffer) - chunk
    <3>. DEFINE s == SubSeq(buffer, chunk + 1, Len(buffer))
    <3>1. \A i \in chunk + 1..Len(buffer) : buffer[i] \in Symbols
      BY <1>2, <1>3
    <3>2. chunk + 1 \in Int /\ Len(buffer) \in Int
      BY <1>2, <1>3
    <3>3. /\ s \in Seq(Symbols)
          /\ Len(s) = IF chunk + 1 <= Len(buffer) THEN Len(buffer) - (chunk + 1) + 1 ELSE 0
      BY <3>1, <3>2, SubSeqProperties
    <3>4. buffer' = s
      BY <1>4
    <3>. HIDE DEF s
    <3>. QED
      BY <1>2, <1>3, <1>5, <3>3, <3>4
  <2>3. BaseLen < bulk /\ Len(buffer') <= BaseLen
    BY <1>1, <1>2, <1>3, <1>5, <2>2
  <2>4. Len(buffer') < bulk' /\ Len(buffer') < bulk
    BY <1>2, <1>3, <1>4, <1>5, <2>2, <2>3
  <2>5. ctx'.pos = fpos' - Len(buffer') + chunk'
    BY <1>2, <1>3, <1>4, <2>2
  <2>6. Progresses
    BY <2>1, <2>4 DEF Progresses
  <2>7. Len(buffer') <= bulk' /\ chunk' \in Nat
    BY <1>2, <1>3, <1>4, <2>2, <2>4
  <2>. QED
    BY <1>2, <1>4, <2>1, <2>2, <2>3, <2>4, <2>5, <2>6, <2>7 DEF LoadInv
<1>6. CASE ~(chunk <= Len(buffer) /\ Len(buffer) = bulk)
  <2>1. phase' \in {"error", "end"}
    BY <1>2, <1>3, <1>4, <1>6
  <2>. QED
    BY <2>1 DEF LoadInv, Progresses
<1>. QED
  BY <1>5, <1>6

\* No step of roxml_load moves the position away from the text.
LEMMA LoadKeeps ==
    ASSUME file \in Seq(Symbols), LoadInv, [Next]_vars
    PROVE  LoadInv' /\ file' = file /\ (Next => Progresses)
<1>1. CASE ReadChunk
  <2>1. phase = "read"
    BY <1>1 DEF ReadChunk
  <2>. QED
    BY <1>1, <2>1, ReadChunkKeeps DEF ReadChunk, Progresses
<1>2. CASE Parse
  BY <1>2, ParseKeeps DEF Parse
<1>3. CASE NextChunk
  BY <1>3, NextChunkKeeps DEF NextChunk
<1>4. CASE Return
  <2>1. phase \in {"end", "error"} /\ phase' \in {"loaded", "invalid"} /\ file' = file
    BY <1>4 DEF Return
  <2>. QED
    BY <2>1 DEF LoadInv, Progresses
<1>5. CASE UNCHANGED vars
  <2>1. LoadInv' /\ file' = file
    BY <1>5 DEF vars, LoadInv
  <2>2. Next => Progresses
    BY <1>1, <1>2, <1>3, <1>4 DEF Next
  <2>. QED
    BY <2>1, <2>2
<1>. QED
  BY <1>1, <1>2, <1>3, <1>4, <1>5 DEF Next

\* What was written is loaded in the same way.
LEMMA ReloadKeeps ==
    ASSUME Reload, (file \in Seq(Symbols))'
    PROVE  LoadInv'
<1>1. /\ file' = out /\ chunk' = 0 /\ ctx' = NewContext
      /\ IF dest = "file"
         THEN /\ bulk' = Min(BulkReads)
              /\ fpos' = 0 /\ buffer' = <<>> /\ stop' = 0 /\ phase' = "read"
         ELSE /\ bulk' = Len(out) + 1
              /\ fpos' = Len(out) /\ buffer' = out /\ stop' = Len(out) /\ phase' = "parse"
  BY DEF Reload
<1>2. IsContext(ctx') /\ ctx'.pos = 0
  BY <1>1, NewContextIs
<1>3. out \in Seq(Symbols) /\ Len(out) \in Nat
  BY <1>1
<1>4. CASE dest = "file"
  <2>1. Min(BulkReads) \in BulkReads
    BY BulkAssumption, MinIs
  <2>2. bulk' \in Nat /\ BaseLen < bulk' /\ BaseLen \in Nat
    BY <1>1, <1>4, <2>1, BulkAssumption, BaseLenAssumption
  <2>3. fpos' = 0 /\ phase' = "read" /\ buffer' \in Seq(Symbols) /\ Len(buffer') = 0
    BY <1>1, <1>4
  <2>. QED
    BY <1>1, <1>2, <1>3, <2>2, <2>3 DEF LoadInv
<1>5. CASE dest # "file"
  BY <1>1, <1>2, <1>3, <1>5 DEF LoadInv
<1>. QED
  BY <1>4, <1>5

\* Neither does a step of the life of a document.
LEMMA DocumentKeeps ==
    ASSUME file \in Seq(Symbols), (file \in Seq(Symbols))', LoadInv, [DocNext]_allVars
    PROVE  LoadInv' /\ [Progresses]_vars
<1>1. CASE Load
  BY <1>1, LoadKeeps DEF Load
<1>2. ASSUME NEW n, NEW human, NEW d, Readable, CommitCall(n, human, d)
      PROVE  LoadInv' /\ Progresses
  BY <1>2 DEF Readable, CommitCall, LoadInv, Progresses
<1>3. CASE WritePiece
  <2>1. UNCHANGED vars
    BY <1>3 DEF WritePiece
  <2>. QED
    BY <2>1 DEF vars, LoadInv
<1>4. CASE Reload
  <2>1. phase = "commit"
    BY <1>4 DEF Reload
  <2>. QED
    BY <1>4, <2>1, ReloadKeeps DEF Progresses
<1>5. CASE UNCHANGED allVars
  BY <1>5 DEF allVars, vars, LoadInv
<1>. QED
  BY <1>1, <1>2, <1>3, <1>4, <1>5 DEF DocNext

\* A text of Files is made of characters of the parser.
LEMMA FileIs ==
    ASSUME NEW f \in Files
    PROVE  f \in Seq(Symbols)
<1>1. f \in Seq(STRING)
  BY FilesAssumption
<1>2. \A i \in 1..Len(f) : f[i] \in Symbols
  <2>. SUFFICES ASSUME NEW i \in 1..Len(f)
                PROVE  f[i] \in Symbols
    OBVIOUS
  <2>1. f[i] \in ToSet(f)
    BY <1>1 DEF ToSet
  <2>. QED
    BY <2>1 DEF Symbols
<1>. QED
  BY <1>1, <1>2

LEMMA InitInv == Init => LoadInv /\ file \in Seq(Symbols)
<1>. SUFFICES ASSUME Init
              PROVE  LoadInv /\ file \in Seq(Symbols)
  OBVIOUS
<1>1. file \in Files /\ chunk = 0 /\ ctx = NewContext /\ (LoadDoc(file) \/ LoadBuf(file))
  BY DEF Init
<1>2. file \in Seq(Symbols)
  BY <1>1, FileIs
<1>. QED
  BY <1>1, <1>2, BeginInv

\* PositionInSync of RoxmlLoad: at every step of a load the position of the
\* context, from which every offset of a node is taken, is that of the next
\* character in the file, whatever the text, the size of the chunks and the
\* part that is read ahead.
THEOREM LoadInSync == Spec => []PositionInSync
<1>. DEFINE Inv == LoadInv /\ file \in Seq(Symbols)
<1>1. Init => Inv
  BY InitInv
<1>2. Inv /\ [Next]_vars => Inv'
  BY LoadKeeps
<1>3. Inv => PositionInSync
  BY DEF LoadInv, PositionInSync
<1>. QED
  BY <1>1, <1>2, <1>3, PTL DEF Spec

LEMMA InitTypes == Init => TypeOK
<1>. SUFFICES ASSUME Init
              PROVE  TypeOK
  OBVIOUS
<1>1. LoadInv /\ file \in Seq(Symbols)
  BY InitInv
<1>2. phase \in {"read", "parse"}
  BY DEF Init, LoadDoc, LoadBuf
<1>. QED
  BY <1>1, <1>2 DEF LoadInv, TypeOK

\* The buffer holds a chunk at most, also when nothing of it is parsed any more.
LEMMA TypesKeep ==
    ASSUME TypeOK, LoadInv, LoadInv', [Next]_vars
    PROVE  TypeOK'
<1>1. /\ file \in Seq(Symbols) /\ fpos \in 0..Len(file) /\ Len(buffer) <= bulk
      /\ phase \in {"read", "parse", "end", "error", "loaded", "invalid", "commit"}
  BY DEF TypeOK
<1>2. CASE ReadChunk
  <2>1. phase' = "parse" /\ file' = file
    BY <1>2 DEF ReadChunk
  <2>. QED
    BY <1>1, <2>1 DEF LoadInv, TypeOK
<1>3. CASE Parse
  <2>1. phase' \in {"parse", "error"} /\ UNCHANGED <<file, bulk, fpos, buffer>>
    BY <1>3 DEF Parse
  <2>. QED
    BY <1>1, <2>1 DEF TypeOK
<1>4. CASE NextChunk
  <2>1. /\ phase = "parse" /\ buffer' = SubSeq(buffer, chunk + 1, Len(buffer))
        /\ UNCHANGED <<file, bulk, fpos>>
    BY <1>4 DEF NextChunk
  <2>2. phase' \in {"read", "end", "error"}
    BY <1>4 DEF NextChunk
  <2>3. buffer \in Seq(Symbols) /\ chunk \in Nat /\ bulk \in Nat
    BY <2>1 DEF LoadInv
  <2>4. Len(buffer') <= bulk
    <3>1. \A i \in chunk + 1..Len(buffer) : buffer[i] \in Symbols
      BY <2>3
    <3>2. Len(buffer') = IF chunk + 1 <= Len(buffer) THEN Len(buffer) - chunk ELSE 0
      BY <2>1, <2>3, <3>1, SubSeqProperties
    <3>. QED
      BY <1>1, <2>3, <3>2
  <2>. QED
    BY <1>1, <2>1, <2>2, <2>4 DEF TypeOK
<1>5. CASE Return
  <2>1. phase' \in {"loaded", "invalid"} /\ UNCHANGED <<file, bulk, fpos, buffer>>
    BY <1>5 DEF Return
  <2>. QED
    BY <1>1, <2>1 DEF TypeOK
<1>6. CASE UNCHANGED vars
  BY <1>6 DEF vars, TypeOK
<1>. QED
  BY <1>2, <1>3, <1>4, <1>5, <1>6 DEF Next

\* TypeOK of RoxmlLoad: whatever the text and the size of the chunks are, no
\* more than the text is read, and no more than a chunk is kept of it.
THEOREM LoadTypes == Spec => []TypeOK
<1>. DEFINE Inv == LoadInv /\ file \in Seq(Symbols)
<1>1. Init => Inv /\ TypeOK
  BY InitInv, InitTypes
<1>2. Inv /\ [Next]_vars => Inv'
  BY LoadKeeps
<1>3. Inv /\ Inv' /\ TypeOK /\ [Next]_vars => TypeOK'
  BY TypesKeep
<1>. QED
  BY <1>1, <1>2, <1>3, PTL DEF Spec

\* LoadProgress of RoxmlLoad: each turn of roxml_parse_line reads a character
\* or fails, and what is carried over leaves room in the next chunk.
THEOREM LoadProgresses == Spec => LoadProgress
<1>. DEFINE Inv == LoadInv /\ file \in Seq(Symbols)
<1>1. Init => Inv
  BY InitInv
<1>2. Inv /\ [Next]_vars => Inv'
  BY LoadKeeps
<1>3. Inv /\ [Next]_vars => [Progresses]_vars
  BY LoadKeeps
<1>4. LoadProgress <=> [][Progresses]_vars
  BY PTL DEF LoadProgress, Progresses
<1>. QED
  BY <1>1, <1>2, <1>3, <1>4, PTL DEF Spec

\* The same in the life of a document, when it is written by roxml_commit_file
\* or roxml_commit_buffer and loaded again: what is written has no character
\* that the parser does not know, which TypeOK of RoxmlLoad says.
THEOREM DocumentInSync ==
    DocSpec /\ [](file \in Seq(Symbols)) => []PositionInSync /\ LoadProgress
<1>1. DocInit => LoadInv
  BY InitInv DEF DocInit
<1>2. /\ file \in Seq(Symbols) /\ (file \in Seq(Symbols))'
      /\ LoadInv /\ [DocNext]_allVars
      => LoadInv' /\ [Progresses]_vars
  BY DocumentKeeps
<1>3. LoadInv => PositionInSync
  BY DEF LoadInv, PositionInSync
<1>4. LoadProgress <=> [][Progresses]_vars
  BY PTL DEF LoadProgress, Progresses
<1>. QED
  BY <1>1, <1>2, <1>3, <1>4, PTL DEF DocSpec

-----------------------------------------------------------------------------
(* The buffer is never overrun, whatever is written and whatever           *)
(* ROXML_BASE_LEN is.                                                      *)

\* The growth covers what is about to be written and one more character.
LEMMA GrowthCovers ==
    ASSUME NEW size \in Nat
    PROVE  Growth(size) \in Nat /\ Growth(size) > size
<1>1. BaseLen \in Nat /\ BaseLen > 0
  BY BaseLenAssumption
<1>. DEFINE q == size \div BaseLen
            r == size % BaseLen
<1>2. /\ q \in Nat /\ r \in Nat
      /\ size = BaseLen * q + r
      /\ r < BaseLen
  BY <1>1
<1>3. Growth(size) = BaseLen * q + BaseLen
  BY <1>1, <1>2 DEF Growth
<1>4. BaseLen * q \in Nat
  BY <1>1, <1>2
<1>. QED
  BY <1>1, <1>2, <1>3, <1>4

OutputInv == offset \in Nat /\ len \in Nat /\ Fits

\* roxml_write_string and roxml_print_spaces stay inside the buffer.
THEOREM OutputFits == OutputSpec => []Fits
<1>1. OutputInit => OutputInv
  BY BaseLenAssumption DEF OutputInit, OutputInv, Fits
<1>2. OutputInv /\ [OutputNext]_outputVars => OutputInv'
  <2>. SUFFICES ASSUME OutputInv, [OutputNext]_outputVars
                PROVE  OutputInv'
    OBVIOUS
  <2>1. ASSUME NEW size \in Nat, WriteString(size)
        PROVE  OutputInv'
    BY <2>1, GrowthCovers DEF WriteString, OutputInv, Fits
  <2>2. ASSUME NEW size \in Nat, PrintSpaces(size)
        PROVE  OutputInv'
    BY <2>2, GrowthCovers DEF PrintSpaces, OutputInv, Fits
  <2>3. CASE UNCHANGED outputVars
    BY <2>3 DEF outputVars, OutputInv, Fits
  <2>. QED
    BY <2>1, <2>2, <2>3 DEF OutputNext
<1>3. OutputInv => Fits
  BY DEF OutputInv
<1>. QED
  BY <1>1, <1>2, <1>3, PTL DEF OutputSpec

-----------------------------------------------------------------------------
(* Escapes: what roxml_escape encodes it decodes, for every string.  The   *)
(* encoded string is read from its end: each character of the string has   *)
(* its place in it, and what stands there decodes to that character only.  *)

\* The numbers up to n have no infinite path, up nor down.
LEMMA Bounded ==
    ASSUME NEW n \in Nat
    PROVE  /\ WellFounded(1..n, {e \in (1..n) \X (1..n) : e[1] > e[2]})
           /\ WellFounded(1..n, {e \in (1..n) \X (1..n) : e[1] < e[2]})
<1>1. ASSUME NEW T \in SUBSET (1..n), T # {}
      PROVE  \E a \in T : \A b \in T : a <= b
  <2>1. T \subseteq Nat
    OBVIOUS
  <2>. QED
    BY <2>1, <1>1, LeastNumber
<1>2. ASSUME NEW T \in SUBSET (1..n), T # {}
      PROVE  \E a \in T : \A b \in T : b <= a
  <2>. DEFINE U == {n - b : b \in T}
  <2>1. U \subseteq Nat /\ U # {}
    <3>1. \A b \in T : n - b \in Nat
      BY <1>2
    <3>. QED
      BY <3>1, <1>2
  <2>. HIDE DEF U
  <2>2. PICK u \in U : \A v \in U : u <= v
    BY <2>1, LeastNumber
  <2>3. PICK a \in T : u = n - a
    BY DEF U
  <2>4. \A b \in T : n - b \in U
    BY DEF U
  <2>. QED
    BY <2>2, <2>3, <2>4
<1>. QED
  BY <1>1, <1>2 DEF WellFounded

\* FlattenSeq joins the sequences from the left.
Joined(q, f, W) ==
    /\ f \in [1..Len(q) -> W]
    /\ f[1] = q[1]
    /\ \A i \in 1..Len(q) : i > 1 => f[i] = f[i - 1] \o q[i]
    /\ FlattenSeq(q) = f[Len(q)]

LEMMA FlattenIs ==
    \A S, q : q \in Seq(Seq(S)) /\ q # <<>> => \E f : Joined(q, f, Seq(S))
<1>0. SUFFICES ASSUME NEW S, NEW q, q \in Seq(Seq(S)), q # <<>>
               PROVE  \E f : Joined(q, f, Seq(S))
  OBVIOUS
<1>. DEFINE n == Len(q)
            D == 1..n
            W == Seq(S)
            R == {e \in D \X D : e[1] > e[2]}
            F == [i \in D |-> [k \in [D -> W] |->
                    IF i = 1 THEN q[i] ELSE k[i - 1] \o q[i]]]
<1>1. n \in Nat /\ n > 0 /\ \A i \in D : q[i] \in W
  BY <1>0, EmptySeq
<1>. HIDE DEF n, W
<1>2. WellFounded(D, R)
  BY <1>1, Bounded
<1>3. \A u, v \in W : u \o v \in W
  BY DEF W
<1>4. Follows(D, W, R, F)
  <2>1. ASSUME NEW i \in D, NEW k \in [D -> W]
        PROVE  (IF i = 1 THEN q[i] ELSE k[i - 1] \o q[i]) \in W
    <3>1. CASE i = 1
      BY <3>1, <1>1
    <3>2. CASE i # 1
      <4>1. i - 1 \in D /\ k[i - 1] \in W /\ q[i] \in W
        BY <1>1, <3>2
      <4>. QED
        BY <4>1, <1>3, <3>2
    <3>. QED
      BY <3>1, <3>2
  <2>2. F \in [D -> [[D -> W] -> W]]
    BY <2>1
  <2>3. ASSUME NEW i \in D, NEW k \in [D -> W], NEW l \in [D -> W],
               \A j \in D : <<i, j>> \in R => k[j] = l[j]
        PROVE  F[i][k] = F[i][l]
    <3>1. i # 1 => i - 1 \in D /\ <<i, i - 1>> \in R
      BY <1>1
    <3>2. i # 1 => k[i - 1] = l[i - 1]
      BY <3>1, <2>3
    <3>. QED
      BY <3>2
  <2>. HIDE DEF F, R, D
  <2>. QED
    BY <2>2, <2>3 DEF Follows
<1>5. PICK f \in [D -> W] : \A i \in D : f[i] = F[i][f]
  <2>1. W # {}
    BY <1>1
  <2>. HIDE DEF F, R, D
  <2>. QED
    BY <1>2, <1>4, <2>1, Recursion
<1>. DEFINE Eq(h) == h = [i \in D |-> IF i = 1 THEN q[i] ELSE h[i - 1] \o q[i]]
            g == CHOOSE h : Eq(h)
<1>6. \A i \in D : f[i] = F[i][f]
  BY <1>5
<1>7. Eq(f)
  <2>1. \A i \in D : f[i] = IF i = 1 THEN q[i] ELSE f[i - 1] \o q[i]
    BY <1>6
  <2>. QED
    BY <2>1, <1>6
<1>8. Eq(g)
  <2>. HIDE DEF Eq
  <2>. QED
    BY <1>7
<1>9. \A i \in D : g[i] = IF i = 1 THEN q[i] ELSE g[i - 1] \o q[i]
  <2>. HIDE DEF g
  <2>. QED
    BY <1>8
<1>10. g[1] = q[1] /\ \A i \in D : i > 1 => g[i] = g[i - 1] \o q[i]
  <2>. HIDE DEF g
  <2>1. 1 \in D
    BY <1>1
  <2>2. g[1] = q[1]
    BY <1>9, <2>1
  <2>3. ASSUME NEW i \in D, i > 1
        PROVE  g[i] = g[i - 1] \o q[i]
    <3>1. i # 1
      BY <2>3
    <3>. HIDE DEF D
    <3>. QED
      BY <1>9, <3>1
  <2>. QED
    BY <2>2, <2>3
<1>11. g \in [D -> W]
  <2>1. ASSUME NEW k \in Nat, k \in D => g[k] \in W
        PROVE  k + 1 \in D => g[k + 1] \in W
    <3>. HIDE DEF g
    <3>1. CASE k = 0
      <4>1. g[1] = q[1] /\ q[1] \in W
        BY <1>10, <1>1
      <4>. QED
        BY <4>1, <3>1
    <3>2. CASE k # 0 /\ k + 1 \in D
      <4>1. k \in D /\ (k + 1) - 1 = k /\ k + 1 > 1
        BY <3>2, <1>1
      <4>2. g[k + 1] = g[k] \o q[k + 1]
        BY <1>10, <3>2, <4>1
      <4>. QED
        BY <4>1, <4>2, <2>1, <1>3, <1>1, <3>2
    <3>. QED
      BY <3>1, <3>2
  <2>. DEFINE T == {k \in Nat : k \in D => g[k] \in W}
  <2>2. 0 \in T
    OBVIOUS
  <2>3. \A k \in Nat : k \in T => k + 1 \in T
    <3>. HIDE DEF g
    <3>. QED
      BY <2>1
  <2>. HIDE DEF T
  <2>4. Nat \subseteq T
    BY <2>2, <2>3, SetInduction
  <2>5. \A i \in D : g[i] \in W
    <3>1. \A k \in Nat : k \in D => g[k] \in W
      BY <2>4 DEF T
    <3>2. \A i \in D : i \in Nat
      BY <1>1
    <3>. HIDE DEF g, D
    <3>. QED
      BY <3>1, <3>2
  <2>6. g = [i \in D |-> g[i]]
    <3>. HIDE DEF g
    <3>. QED
      BY <1>8
  <2>. HIDE DEF g
  <2>. QED
    BY <2>5, <2>6
<1>12. FlattenSeq(q) = g[n]
  BY <1>0, <1>1 DEF FlattenSeq, n
<1>13. Joined(q, g, Seq(S))
  <2>. HIDE DEF g
  <2>. QED
    BY <1>10, <1>11, <1>12 DEF Joined, n, W
<1>. QED
  BY <1>13

Marks == {"<", ">", "\"", "'"}
\* The word of the escape of a mark; the words differ.
Code(c) == Specials[c][2]
Letters == STRING \cup {"&"} \cup {Code(c) : c \in DOMAIN Specials}

\* What stands for a character.
Escaped(c) == IF c \in DOMAIN Specials THEN Specials[c] ELSE <<c>>

LEMMA WordIs ==
    /\ \A c \in DOMAIN Specials : Specials[c] = <<"&", Code(c)>>
    /\ Code("\"") = "quot;" /\ Code("'") = "apos;" /\ Code("<") = "lt;"
    /\ Code(">") = "gt;" /\ Code("&") = "amp;"
    /\ \A c \in DOMAIN Specials : c = "\"" \/ c = "'" \/ c = "<" \/ c = ">" \/ c = "&"
<1>1. DOMAIN Specials = {"\"", "'", "<", ">", "&"}
  BY DEF Specials
<1>2. \A c \in DOMAIN Specials : Specials[c] = <<"&", Code(c)>>
  BY DEF Specials, Code
<1>3. Code("\"") = "quot;"
  BY DEF Specials, Code
<1>4. Code("'") = "apos;"
  BY DEF Specials, Code
<1>5. Code("<") = "lt;"
  BY DEF Specials, Code
<1>6. Code(">") = "gt;"
  BY DEF Specials, Code
<1>7. Code("&") = "amp;"
  BY DEF Specials, Code
<1>. QED
  BY <1>1, <1>2, <1>3, <1>4, <1>5, <1>6, <1>7

LEMMA TwoSymbols ==
    ASSUME NEW c \in DOMAIN Specials
    PROVE  Len(Specials[c]) = 2
<1>1. Specials[c] = <<"&", Code(c)>>
  BY WordIs
<1>2. Len(<<"&", Code(c)>>) = 2
  OBVIOUS
<1>. QED
  BY <1>1, <1>2

LEMMA WordsDiffer ==
    ASSUME NEW c \in DOMAIN Specials
    PROVE  /\ Code(c) \in Letters \ Marks
           /\ \A d \in DOMAIN Specials : Code(d) = Code(c) => d = c
<1>1. Code(c) \in Letters
  BY DEF Letters
<1>3. Code(c) \notin Marks
  BY WordIs DEF Marks
<1>2. ASSUME NEW d \in DOMAIN Specials, Code(d) = Code(c)
      PROVE  d = c
  BY <1>2, WordIs
<1>. QED
  BY <1>1, <1>2, <1>3

LEMMA SpecialsAre == Marks \cup {"&"} = DOMAIN Specials
  BY DEF Marks, Specials

\* An escape starts with & and is told from the others by its word; all else
\* stands for itself.
LEMMA EscapedIs ==
    ASSUME NEW c \in Letters
    PROVE  /\ Escaped(c) \in Seq(Letters \ Marks)
           /\ c \in DOMAIN Specials =>
                 /\ Len(Escaped(c)) = 2
                 /\ Escaped(c)[1] = "&" /\ Escaped(c)[2] = Code(c)
           /\ c \notin DOMAIN Specials =>
                 Len(Escaped(c)) = 1 /\ Escaped(c)[1] = c /\ c # "&"
<1>1. CASE c \in DOMAIN Specials
  <2>1. "&" \in Letters \ Marks
    <3>1. "&" \notin Marks
      BY DEF Marks
    <3>. QED
      BY <3>1 DEF Letters
  <2>2. Escaped(c) = <<"&", Code(c)>> /\ Code(c) \in Letters \ Marks
    BY <1>1, WordIs, WordsDiffer DEF Escaped
  <2>3. Escaped(c) \in Seq(Letters \ Marks)
    BY <2>1, <2>2
  <2>. QED
    BY <1>1, <2>2, <2>3
<1>2. CASE c \notin DOMAIN Specials
  <2>1. c \in Letters \ Marks /\ c # "&"
    BY <1>2, SpecialsAre
  <2>2. Escaped(c) = <<c>>
    BY <1>2 DEF Escaped
  <2>. QED
    BY <1>2, <2>1, <2>2
<1>. QED
  BY <1>1, <1>2

LEMMA PrefixIs ==
    \A b, i, w : b \in Seq(Letters) /\ i \in 1..Len(b) =>
        (IsPrefix(<<"&", w>>, SubSeq(b, i, Len(b)))
            <=> i + 1 <= Len(b) /\ b[i] = "&" /\ b[i + 1] = w)
<1>1. SUFFICES ASSUME NEW b, NEW i, NEW w, b \in Seq(Letters), i \in 1..Len(b)
               PROVE  IsPrefix(<<"&", w>>, SubSeq(b, i, Len(b)))
                         <=> i + 1 <= Len(b) /\ b[i] = "&" /\ b[i + 1] = w
  OBVIOUS
<1>. DEFINE n == Len(b)
            t == SubSeq(b, i, n)
            e == <<"&", w>>
<1>2. n \in Nat /\ i \in Nat /\ 1 <= i /\ i <= n
  BY <1>1
<1>3. t \in Seq(Letters) /\ Len(t) = n - i + 1 /\ \A j \in 1..n - i + 1 : t[j] = b[i + j - 1]
  BY <1>1, <1>2, SubSeqProperties
<1>4. e \in Seq({"&", w}) /\ Len(e) = 2 /\ e[1] = "&" /\ e[2] = w
  OBVIOUS
<1>. HIDE DEF n, t, e
<1>5. \A v \in Seq({"&", w} \cup Letters) : Len(v) = 2 => (v = e <=> v[1] = "&" /\ v[2] = w)
  <2>. SUFFICES ASSUME NEW v \in Seq({"&", w} \cup Letters), Len(v) = 2
                PROVE  v = e <=> v[1] = "&" /\ v[2] = w
    OBVIOUS
  <2>1. e \in Seq({"&", w} \cup Letters)
    BY DEF e
  <2>2. v[1] = e[1] /\ v[2] = e[2] => \A i_1 \in 1..Len(v) : v[i_1] = e[i_1]
    OBVIOUS
  <2>. QED
    BY <1>4, <2>1, <2>2, SeqEqual
<1>6. CASE i + 1 <= n
  <2>. DEFINE u == SubSeq(t, 1, 2)
  <2>1. t[1] = b[i] /\ t[2] = b[i + 1]
    BY <1>2, <1>3, <1>6
  <2>2. u \in Seq(Letters) /\ Len(u) = 2 /\ u[1] = t[1] /\ u[2] = t[2]
    <3>1. 2 <= Len(t)
      BY <1>2, <1>3, <1>6
    <3>. QED
      BY <1>3, <3>1, SubSeqProperties
  <2>3. u = e <=> (u[1] = "&" /\ u[2] = w)
    <3>1. u \in Seq({"&", w} \cup Letters)
      BY <2>2
    <3>. QED
      BY <1>5, <2>2, <3>1
  <2>4. 2 <= Len(t)
    BY <1>2, <1>3, <1>6
  <2>5. SubSeq(e, 1, 2) = e
    <3>. DEFINE v == SubSeq(e, 1, 2)
    <3>1. v \in Seq({"&", w}) /\ Len(v) = 2 /\ v[1] = e[1] /\ v[2] = e[2]
      BY <1>4, SubSeqProperties
    <3>2. v \in Seq({"&", w} \cup Letters)
      BY <3>1
    <3>. QED
      BY <1>4, <1>5, <3>1, <3>2
  <2>6. IsPrefix(e, t) <=> e = u
    BY <1>4, <2>4, <2>5 DEF IsPrefix
  <2>. QED
    BY <1>6, <2>1, <2>2, <2>3, <2>6 DEF e, t, n
<1>7. CASE ~(i + 1 <= n)
  <2>1. ~(2 <= Len(t))
    BY <1>2, <1>3, <1>7
  <2>2. ~IsPrefix(e, t)
    BY <1>4, <2>1 DEF IsPrefix
  <2>. QED
    BY <1>7, <2>2 DEF e, t, n
<1>. QED
  BY <1>6, <1>7

\* Where the elements of two sequences are in the two of them joined.
LEMMA JoinIs ==
    ASSUME NEW S, NEW u \in Seq(S), NEW v \in Seq(S)
    PROVE  /\ u \o v \in Seq(S)
           /\ Len(u \o v) = Len(u) + Len(v)
           /\ \A j \in 1..Len(u) : (u \o v)[j] = u[j]
           /\ \A j \in 1..Len(v) : (u \o v)[Len(u) + j] = v[j]
  BY ConcatProperties

\* P[k] is where what stands for the k-th character ends in e.
Places(s, e, P) ==
    /\ P \in [0..Len(s) -> Nat]
    /\ P[0] = 0 /\ P[Len(s)] = Len(e)
    /\ \A k \in 1..Len(s) :
          /\ P[k] = P[k - 1] + Len(Escaped(s[k])) /\ P[k] <= Len(e)
          /\ \A j \in 1..Len(Escaped(s[k])) : e[P[k - 1] + j] = Escaped(s[k])[j]

LEMMA EncodeIs ==
    \A s : s \in Seq(Letters) =>
        /\ Encode(s) \in Seq(Letters \ Marks)
        /\ \E P : Places(s, Encode(s), P)
<1>0. SUFFICES ASSUME NEW s, s \in Seq(Letters)
               PROVE  /\ Encode(s) \in Seq(Letters \ Marks)
                      /\ \E P : Places(s, Encode(s), P)
  OBVIOUS
<1>. DEFINE n == Len(s)
            q == [i \in 1..n |-> Escaped(s[i])]
            e == Encode(s)
<1>1. n \in Nat /\ \A i \in 1..n : s[i] \in Letters
  BY <1>0
<1>2. q \in Seq(Seq(Letters \ Marks)) /\ Len(q) = n /\ \A i \in 1..n : q[i] = Escaped(s[i])
  <2>1. \A i \in 1..n : Escaped(s[i]) \in Seq(Letters \ Marks)
    BY <1>1, EscapedIs
  <2>. HIDE DEF n
  <2>. QED
    BY <1>1, <2>1
<1>3. e = FlattenSeq(q)
  BY DEF Encode, Escaped
<1>. HIDE DEF n, q, e
<1>4. CASE n = 0
  <2>1. e = q /\ q = <<>>
    BY <1>2, <1>3, <1>4 DEF FlattenSeq
  <2>. DEFINE P == [k \in 0..n |-> 0]
  <2>2. Places(s, e, P)
    BY <1>4, <2>1 DEF Places, n
  <2>. QED
    BY <2>1, <2>2 DEF e
<1>5. CASE n # 0
  <2>1. PICK f : Joined(q, f, Seq(Letters \ Marks))
    <3>1. q # <<>>
      BY <1>2, <1>5
    <3>. QED
      BY <1>2, <3>1, FlattenIs
  <2>2. /\ \A k \in 1..n : f[k] \in Seq(Letters \ Marks)
        /\ f[1] = q[1]
        /\ \A k \in 1..n : k > 1 => f[k] = f[k - 1] \o q[k]
        /\ e = f[n]
    BY <1>2, <1>3, <2>1 DEF Joined
  <2>. DEFINE P == [k \in 0..n |-> IF k = 0 THEN 0 ELSE Len(f[k])]
  <2>3. P \in [0..n -> Nat] /\ P[0] = 0 /\ \A k \in 1..n : P[k] = Len(f[k])
    BY <1>1, <2>2
  <2>. HIDE DEF P
  <2>4. ASSUME NEW k \in 1..n
        PROVE  /\ P[k] = P[k - 1] + Len(q[k])
               /\ \A j \in 1..Len(q[k]) : f[k][P[k - 1] + j] = q[k][j]
               /\ k > 1 => \A j \in 1..P[k - 1] : f[k][j] = f[k - 1][j]
    <3>1. q[k] \in Seq(Letters \ Marks)
      BY <1>2
    <3>2. CASE k = 1
      <4>1. P[k] = Len(q[k]) /\ k - 1 = 0 /\ f[k] = q[k]
        BY <2>2, <2>3, <3>2
      <4>. QED
        BY <2>3, <3>1, <4>1
    <3>3. CASE k > 1
      <4>1. k - 1 \in 1..n
        BY <3>3, <1>1
      <4>2. f[k] = f[k - 1] \o q[k] /\ f[k - 1] \in Seq(Letters \ Marks)
        BY <2>2, <3>3, <4>1
      <4>3. P[k - 1] = Len(f[k - 1]) /\ P[k] = Len(f[k])
        BY <2>3, <4>1
      <4>. DEFINE u == f[k - 1]
                  v == q[k]
      <4>4. u \in Seq(Letters \ Marks) /\ v \in Seq(Letters \ Marks)
        BY <3>1, <4>2
      <4>. HIDE DEF u, v
      <4>5. /\ Len(u \o v) = Len(u) + Len(v)
            /\ \A j \in 1..Len(u) : (u \o v)[j] = u[j]
            /\ \A j \in 1..Len(v) : (u \o v)[Len(u) + j] = v[j]
        BY <4>4, JoinIs
      <4>. QED
        BY <4>2, <4>3, <4>5 DEF u, v
    <3>. QED
      BY <3>2, <3>3
  <2>. DEFINE Begins(m) == \A k \in 1..n : k <= m =>
                              /\ P[k] <= P[m]
                              /\ \A j \in 1..P[k] : f[m][j] = f[k][j]
              T == {m \in Nat : m \in 1..n => Begins(m)}
  <2>5. 0 \in T
    OBVIOUS
  <2>6. ASSUME NEW m \in Nat, m \in T
        PROVE  m + 1 \in T
    <3>. SUFFICES ASSUME m + 1 \in 1..n, NEW k \in 1..n, k <= m + 1
                  PROVE  /\ P[k] <= P[m + 1]
                         /\ \A j \in 1..P[k] : f[m + 1][j] = f[k][j]
      OBVIOUS
    <3>1. CASE k = m + 1
      <4>1. P[k] \in Nat
        BY <2>3, <2>2
      <4>. QED
        BY <3>1, <4>1
    <3>2. CASE k # m + 1
      <4>1. m \in 1..n /\ k <= m /\ m + 1 > 1 /\ (m + 1) - 1 = m
        BY <3>2, <1>1
      <4>2. P[k] <= P[m] /\ \A j \in 1..P[k] : f[m][j] = f[k][j]
        BY <2>6, <4>1
      <4>3. /\ P[m + 1] = P[m] + Len(q[m + 1])
            /\ \A j \in 1..P[m] : f[m + 1][j] = f[m][j]
        BY <2>4, <4>1
      <4>4. P[m] \in Nat /\ P[k] \in Nat /\ P[m + 1] \in Nat /\ Len(q[m + 1]) \in Nat
        <5>1. m \in 0..n /\ k \in 0..n /\ m + 1 \in 0..n /\ m + 1 \in 1..n
          BY <4>1, <1>1
        <5>2. q[m + 1] \in Seq(Letters \ Marks)
          BY <1>2, <5>1
        <5>. QED
          BY <2>3, <5>1, <5>2
      <4>. HIDE DEF T
      <4>. QED
        BY <4>2, <4>3, <4>4
    <3>. QED
      BY <3>1, <3>2
  <2>7. Nat \subseteq T
    <3>. HIDE DEF T
    <3>. QED
      BY <2>5, <2>6, SetInduction
  <2>8. Begins(n)
    BY <1>1, <1>5, <2>7
  <2>. HIDE DEF T
  <2>9. ASSUME NEW k \in 1..n
        PROVE  /\ P[k] = P[k - 1] + Len(q[k]) /\ P[k] <= P[n]
               /\ \A j \in 1..Len(q[k]) : e[P[k - 1] + j] = q[k][j]
    <3>1. P[k] <= P[n] /\ \A j \in 1..P[k] : e[j] = f[k][j]
      BY <2>2, <2>8, <1>1
    <3>2. P[k] = P[k - 1] + Len(q[k]) /\ \A j \in 1..Len(q[k]) : f[k][P[k - 1] + j] = q[k][j]
      BY <2>4
    <3>3. P[k - 1] \in Nat /\ Len(q[k]) \in Nat
      <4>1. k - 1 \in 0..n
        BY <1>1
      <4>. QED
        BY <1>2, <2>3, <4>1
    <3>4. ASSUME NEW j \in 1..Len(q[k])
          PROVE  e[P[k - 1] + j] = q[k][j]
      <4>1. P[k - 1] + j \in 1..P[k]
        BY <3>2, <3>3
      <4>. QED
        BY <3>1, <3>2, <4>1
    <3>. QED
      BY <3>1, <3>2, <3>4
  <2>10. Places(s, e, P)
    <3>1. P[n] = Len(e)
      BY <1>1, <1>5, <2>2, <2>3
    <3>. QED
      BY <1>2, <2>3, <2>9, <3>1 DEF Places, n
  <2>11. e \in Seq(Letters \ Marks)
    BY <1>1, <1>5, <2>2
  <2>. QED
    BY <2>10, <2>11 DEF e
<1>. QED
  BY <1>4, <1>5

\* What decodes at offset i of b.
Found(b, i) == {code \in DOMAIN Specials : IsPrefix(Specials[code], SubSeq(b, i, Len(b)))}

LEMMA FoundIs ==
    ASSUME NEW b, b \in Seq(Letters), NEW i \in 1..Len(b)
    PROVE  Found(b, i) = {code \in DOMAIN Specials :
                             i + 1 <= Len(b) /\ b[i] = "&" /\ b[i + 1] = Code(code)}
<1>1. \A code \in DOMAIN Specials :
         IsPrefix(Specials[code], SubSeq(b, i, Len(b)))
            <=> i + 1 <= Len(b) /\ b[i] = "&" /\ b[i + 1] = Code(code)
  BY WordIs, PrefixIs
<1>. QED
  BY <1>1 DEF Found

\* Decode reads the string from its end.
Decoded(b, d) ==
    /\ Decode(b) = d[1]
    /\ \A i \in 1..Len(b) + 1 :
          d[i] = CASE i > Len(b) -> <<>>
                   [] Found(b, i) # {} -> <<CHOOSE code \in Found(b, i) : TRUE>> \o d[i + 2]
                   [] OTHER -> <<b[i]>> \o d[i + 1]

LEMMA DecodeIs ==
    \A b : b \in Seq(Letters) => \E d : Decoded(b, d)
<1>0. SUFFICES ASSUME NEW b, b \in Seq(Letters)
               PROVE  \E d : Decoded(b, d)
  OBVIOUS
<1>. DEFINE n == Len(b)
            D == 1..n + 1
            W == Seq(Letters \cup DOMAIN Specials)
            R == {x \in D \X D : x[1] < x[2]}
            code(i) == CHOOSE c \in Found(b, i) : TRUE
            At1(i, k) == IF i > n THEN <<>>
                         ELSE IF Found(b, i) # {} THEN <<code(i)>> \o k[i + 2]
                         ELSE <<b[i]>> \o k[i + 1]
            F == [i \in D |-> [k \in [D -> W] |-> At1(i, k)]]
<1>1. n \in Nat /\ \A i \in 1..n : b[i] \in Letters
  BY <1>0
<1>2. ASSUME NEW i \in 1..n
      PROVE  /\ Found(b, i) # {} => i + 2 \in D /\ code(i) \in DOMAIN Specials
             /\ i + 1 \in D
  <2>1. Found(b, i) = {c \in DOMAIN Specials :
                          i + 1 <= Len(b) /\ b[i] = "&" /\ b[i + 1] = Code(c)}
    BY <1>0, FoundIs
  <2>. QED
    BY <1>1, <2>1
<1>12. ASSUME NEW i \in D, i > n
       PROVE  Found(b, i) = {}
  <2>1. Len(SubSeq(b, i, n)) = 0
    <3>1. i = n + 1
      BY <1>1, <1>12
    <3>. QED
      BY <1>0, <1>1, <3>1
  <2>2. \A c \in DOMAIN Specials : Len(Specials[c]) = 2
    BY TwoSymbols
  <2>. QED
    BY <2>1, <2>2 DEF Found, IsPrefix
<1>. HIDE DEF n, W
<1>3. WellFounded(D, R)
  <2>1. n + 1 \in Nat
    BY <1>1
  <2>. QED
    BY <2>1, Bounded
<1>4. /\ \A u, v \in W : u \o v \in W
      /\ \A c \in Letters \cup DOMAIN Specials : <<c>> \in W
      /\ <<>> \in W
  BY DEF W
<1>5. Follows(D, W, R, F)
  <2>1. ASSUME NEW i \in D, NEW k \in [D -> W]
        PROVE  At1(i, k) \in W
    <3>1. CASE i > n
      BY <3>1, <1>4
    <3>2. CASE ~(i > n) /\ Found(b, i) # {}
      <4>1. i \in 1..n
        BY <3>2, <1>1
      <4>2. i + 2 \in D /\ code(i) \in DOMAIN Specials
        BY <4>1, <3>2, <1>2
      <4>3. <<code(i)>> \in W /\ k[i + 2] \in W
        <5>. HIDE DEF D, code
        <5>. QED
          BY <4>2, <1>4
      <4>. HIDE DEF code
      <4>. QED
        BY <3>2, <4>3, <1>4
    <3>3. CASE ~(i > n) /\ Found(b, i) = {}
      <4>1. i \in 1..n
        BY <3>3, <1>1
      <4>2. i + 1 \in D /\ b[i] \in Letters
        BY <4>1, <1>1, <1>2
      <4>3. <<b[i]>> \in W /\ k[i + 1] \in W
        <5>. HIDE DEF D
        <5>. QED
          BY <4>2, <1>4
      <4>. QED
        BY <3>3, <4>3, <1>4
    <3>. QED
      BY <3>1, <3>2, <3>3
  <2>2. F \in [D -> [[D -> W] -> W]]
    <3>. HIDE DEF At1, D
    <3>. QED
      BY <2>1
  <2>3. ASSUME NEW i \in D, NEW k \in [D -> W], NEW l \in [D -> W],
               \A j \in D : <<i, j>> \in R => k[j] = l[j]
        PROVE  F[i][k] = F[i][l]
    <3>1. ~(i > n) => k[i + 1] = l[i + 1] /\ (Found(b, i) # {} => k[i + 2] = l[i + 2])
      <4>. SUFFICES ASSUME ~(i > n)
                    PROVE  k[i + 1] = l[i + 1] /\ (Found(b, i) # {} => k[i + 2] = l[i + 2])
        OBVIOUS
      <4>1. i \in 1..n /\ i \in Nat
        BY <1>1
      <4>2. i + 1 \in D /\ (Found(b, i) # {} => i + 2 \in D)
        BY <4>1, <1>2
      <4>3. <<i, i + 1>> \in R /\ (Found(b, i) # {} => <<i, i + 2>> \in R)
        BY <4>1, <4>2
      <4>. HIDE DEF R, D
      <4>. QED
        BY <2>3, <4>2, <4>3
    <3>2. At1(i, k) = At1(i, l)
      <4>. HIDE DEF code, R, D
      <4>. QED
        BY <3>1
    <3>. HIDE DEF At1, D
    <3>. QED
      BY <3>2
  <2>. HIDE DEF F, R, D, At1
  <2>. QED
    BY <2>2, <2>3 DEF Follows
<1>6. PICK f \in [D -> W] : \A i \in D : f[i] = F[i][f]
  <2>1. W # {}
    BY <1>4
  <2>. HIDE DEF F, R, D
  <2>. QED
    BY <1>3, <1>5, <2>1, Recursion
<1>. DEFINE Eq(d) == d = [i \in D |-> CASE i > n -> <<>>
                             [] Found(b, i) # {} -> <<code(i)>> \o d[i + 2]
                             [] OTHER -> <<b[i]>> \o d[i + 1]]
            g == CHOOSE d : Eq(d)
<1>7. Eq(f)
  <2>1. \A i \in D : f[i] = At1(i, f)
    <3>. HIDE DEF At1, D
    <3>. QED
      BY <1>6
  <2>2. \A i \in D : At1(i, f) = CASE i > n -> <<>>
                             [] Found(b, i) # {} -> <<code(i)>> \o f[i + 2]
                             [] OTHER -> <<b[i]>> \o f[i + 1]
    <3>. SUFFICES ASSUME NEW i \in D
                  PROVE  At1(i, f) = CASE i > n -> <<>>
                             [] Found(b, i) # {} -> <<code(i)>> \o f[i + 2]
                             [] OTHER -> <<b[i]>> \o f[i + 1]
      OBVIOUS
    <3>1. (i > n /\ Found(b, i) = {}) \/ (~(i > n) /\ Found(b, i) # {}) \/ (~(i > n) /\ Found(b, i) = {})
      BY <1>12, <1>1
    <3>. HIDE DEF code, D
    <3>2. CASE i > n /\ Found(b, i) = {}
      BY <3>2
    <3>3. CASE ~(i > n) /\ Found(b, i) # {}
      BY <3>3
    <3>4. CASE ~(i > n) /\ Found(b, i) = {}
      BY <3>4
    <3>. QED
      BY <3>1, <3>2, <3>3, <3>4
  <2>. HIDE DEF At1, D, code
  <2>. QED
    BY <1>6, <2>1, <2>2
<1>8. Eq(g)
  <2>. HIDE DEF Eq
  <2>. QED
    BY <1>7
<1>9. Decode(b) = g[1]
  BY DEF Decode, Found, n
<1>10. \A i \in D : g[i] = CASE i > n -> <<>>
                             [] Found(b, i) # {} -> <<code(i)>> \o g[i + 2]
                             [] OTHER -> <<b[i]>> \o g[i + 1]
  <2>. HIDE DEF g, code
  <2>. QED
    BY <1>8
<1>11. Decoded(b, g)
  <2>. HIDE DEF g
  <2>. QED
    BY <1>9, <1>10 DEF Decoded, n
<1>. QED
  BY <1>11

LEMMA EscapesAre ==
    \A s : s \in Seq(Letters) =>
        Decode(Encode(s)) = s /\ ToSet(Encode(s)) \cap Marks = {}
<1>0. SUFFICES ASSUME NEW s, s \in Seq(Letters)
               PROVE  Decode(Encode(s)) = s /\ ToSet(Encode(s)) \cap Marks = {}
  OBVIOUS
<1>. DEFINE n == Len(s)
            e == Encode(s)
<1>1. n \in Nat /\ \A i \in 1..n : s[i] \in Letters
  BY <1>0
<1>2. e \in Seq(Letters \ Marks)
  BY <1>0, EncodeIs
<1>3. ToSet(e) \cap Marks = {}
  BY <1>2 DEF ToSet
<1>4. PICK P : Places(s, e, P)
  BY <1>0, EncodeIs
<1>5. e \in Seq(Letters)
  <2>. HIDE DEF e
  <2>1. Letters \ Marks \subseteq Letters
    OBVIOUS
  <2>. QED
    BY <1>2, <2>1
<1>6. PICK d : Decoded(e, d)
  BY <1>5, DecodeIs
<1>. HIDE DEF n, e
<1>7. /\ P[0] = 0 /\ P[n] = Len(e) /\ \A k \in 0..n : P[k] \in Nat
      /\ \A k \in 1..n :
            /\ P[k] = P[k - 1] + Len(Escaped(s[k])) /\ P[k] <= Len(e)
            /\ \A j \in 1..Len(Escaped(s[k])) : e[P[k - 1] + j] = Escaped(s[k])[j]
  BY <1>4 DEF Places, n
<1>8. /\ Decode(e) = d[1]
      /\ \A i \in 1..Len(e) + 1 :
            d[i] = CASE i > Len(e) -> <<>>
                     [] Found(e, i) # {} -> <<CHOOSE c \in Found(e, i) : TRUE>> \o d[i + 2]
                     [] OTHER -> <<e[i]>> \o d[i + 1]
  BY <1>6 DEF Decoded
<1>9. Len(e) \in Nat
  BY <1>5
<1>10. d[Len(e) + 1] = <<>>
  <2>1. Found(e, Len(e) + 1) = {}
    <3>1. Len(SubSeq(e, Len(e) + 1, Len(e))) = 0
      BY <1>5, <1>9
    <3>2. \A c \in DOMAIN Specials : Len(Specials[c]) = 2
      BY TwoSymbols
    <3>. QED
      BY <3>1, <3>2 DEF Found, IsPrefix
  <2>2. Len(e) + 1 \in 1..Len(e) + 1 /\ Len(e) + 1 > Len(e)
    BY <1>9
  <2>. QED
    BY <1>8, <2>1, <2>2
<1>11. ASSUME NEW k \in 1..n
       PROVE  d[P[k - 1] + 1] = <<s[k]>> \o d[P[k] + 1]
  <2>. DEFINE i == P[k - 1] + 1
              c == s[k]
  <2>1. /\ P[k] = P[k - 1] + Len(Escaped(c)) /\ P[k] <= Len(e)
        /\ P[k - 1] \in Nat /\ P[k] \in Nat /\ c \in Letters
        /\ \A j \in 1..Len(Escaped(c)) : e[P[k - 1] + j] = Escaped(c)[j]
    <3>1. k - 1 \in 0..n /\ k \in 0..n
      BY <1>1
    <3>. QED
      BY <1>1, <1>7, <3>1
  <2>. HIDE DEF c
  <2>2. CASE c \in DOMAIN Specials
    <3>1. Len(Escaped(c)) = 2 /\ Escaped(c)[1] = "&" /\ Escaped(c)[2] = Code(c)
      BY <2>1, <2>2, EscapedIs
    <3>2. P[k] = P[k - 1] + 2 /\ e[P[k - 1] + 1] = "&" /\ e[P[k - 1] + 2] = Code(c)
      BY <2>1, <3>1
    <3>3. i \in 1..Len(e) /\ i + 1 <= Len(e) /\ i + 2 = P[k] + 1 /\ e[i] = "&" /\ e[i + 1] = Code(c)
      BY <1>9, <2>1, <3>2
    <3>. HIDE DEF i
    <3>4. Found(e, i) = {c}
      <4>1. Found(e, i) = {x \in DOMAIN Specials :
                              i + 1 <= Len(e) /\ e[i] = "&" /\ e[i + 1] = Code(x)}
        BY <1>5, <3>3, FoundIs
      <4>2. \A x \in DOMAIN Specials : Code(c) = Code(x) <=> x = c
        BY <2>2, WordsDiffer
      <4>. QED
        BY <2>2, <3>3, <4>1, <4>2
    <3>5. (CHOOSE x \in Found(e, i) : TRUE) = c
      BY <3>4
    <3>6. i \in 1..Len(e) + 1 /\ ~(i > Len(e))
      BY <1>9, <3>3
    <3>7. Found(e, i) # {}
      BY <3>4
    <3>8. d[i] = <<c>> \o d[i + 2]
      BY <1>8, <3>5, <3>6, <3>7
    <3>. QED
      BY <3>3, <3>8 DEF i, c
  <2>3. CASE c \notin DOMAIN Specials
    <3>1. Len(Escaped(c)) = 1 /\ Escaped(c)[1] = c /\ c # "&"
      BY <2>1, <2>3, EscapedIs
    <3>2. P[k] = P[k - 1] + 1 /\ e[P[k - 1] + 1] = c
      BY <2>1, <3>1
    <3>3. i \in 1..Len(e) /\ i + 1 = P[k] + 1 /\ e[i] = c
      BY <1>9, <2>1, <3>2
    <3>. HIDE DEF i
    <3>4. Found(e, i) = {}
      BY <1>5, <3>1, <3>3, FoundIs
    <3>5. i \in 1..Len(e) + 1 /\ ~(i > Len(e))
      BY <1>9, <3>3
    <3>6. d[i] = <<e[i]>> \o d[i + 1]
      BY <1>8, <3>4, <3>5
    <3>. QED
      BY <3>3, <3>6 DEF i, c
  <2>. QED
    BY <2>2, <2>3
<1>. DEFINE rest(m) == SubSeq(s, n - m + 1, n)
            T == {m \in Nat : m <= n => d[P[n - m] + 1] = rest(m)}
<1>12. 0 \in T
  <2>1. rest(0) = <<>>
    BY <1>0, <1>1 DEF n
  <2>2. n - 0 = n
    BY <1>1
  <2>. QED
    BY <1>7, <1>10, <2>1, <2>2
<1>13. ASSUME NEW m \in Nat, m \in T
       PROVE  m + 1 \in T
  <2>. SUFFICES ASSUME m + 1 <= n
                PROVE  d[P[n - (m + 1)] + 1] = rest(m + 1)
    OBVIOUS
  <2>. DEFINE k == n - m
  <2>1. k \in 1..n /\ k - 1 = n - (m + 1) /\ m <= n
    BY <1>1
  <2>2. d[P[k - 1] + 1] = <<s[k]>> \o d[P[k] + 1]
    BY <1>11, <2>1
  <2>3. d[P[k] + 1] = rest(m)
    BY <1>13, <2>1
  <2>4. <<s[k]>> \o rest(m) = rest(m + 1)
    <3>. DEFINE u == SubSeq(s, k + 1, n)
                v == SubSeq(s, k, n)
                one == <<s[k]>>
    <3>0. k \in Nat /\ 1 <= k /\ k <= n /\ n - m + 1 = k + 1 /\ n - (m + 1) + 1 = k
      BY <2>1, <1>1
    <3>. HIDE DEF k
    <3>1. u \in Seq(Letters) /\ Len(u) = n - k /\ \A j \in 1..n - k : u[j] = s[k + j]
      <4>1. CASE k = n
        <5>1. u = <<>>
          BY <1>0, <1>1, <4>1 DEF n
        <5>. QED
          BY <1>1, <4>1, <5>1
      <4>2. CASE k < n
        <5>. DEFINE a == k + 1
        <5>1. a \in 1..n
          BY <1>1, <3>0, <4>2
        <5>. HIDE DEF a
        <5>2. /\ SubSeq(s, a, n) \in Seq(Letters) /\ Len(SubSeq(s, a, n)) = n - a + 1
              /\ \A j \in 1..n - a + 1 : SubSeq(s, a, n)[j] = s[a + j - 1]
          BY <1>0, <1>1, <5>1, SubSeqProperties DEF n
        <5>3. n - a + 1 = n - k /\ \A j \in 1..n - k : a + j - 1 = k + j
          BY <1>1, <3>0 DEF a
        <5>. QED
          BY <5>2, <5>3 DEF a
      <4>. QED
        BY <3>0, <1>1, <4>1, <4>2
    <3>2. v \in Seq(Letters) /\ Len(v) = n - k + 1 /\ \A j \in 1..n - k + 1 : v[j] = s[k + j - 1]
      BY <1>0, <1>1, <3>0, SubSeqProperties DEF n
    <3>3. one \in Seq(Letters) /\ Len(one) = 1 /\ one[1] = s[k]
      BY <1>1, <3>0
    <3>. DEFINE w == one \o u
    <3>. HIDE DEF u, v, one
    <3>4. /\ w \in Seq(Letters) /\ Len(w) = 1 + (n - k)
          /\ \A j \in 1..1 : w[j] = one[j]
          /\ \A j \in 1..n - k : w[1 + j] = u[j]
      <4>0. u \in Seq(Letters) /\ one \in Seq(Letters)
        BY <3>1, <3>3
      <4>1. /\ w \in Seq(Letters) /\ Len(w) = Len(one) + Len(u)
            /\ \A j \in 1..Len(one) : w[j] = one[j]
            /\ \A j \in 1..Len(u) : w[Len(one) + j] = u[j]
        BY <4>0, JoinIs
      <4>. QED
        BY <3>1, <3>3, <4>1
    <3>. HIDE DEF w
    <3>5. ASSUME NEW j \in 1..Len(w)
          PROVE  w[j] = v[j]
      <4>1. CASE j = 1
        BY <1>1, <3>0, <3>2, <3>3, <3>4, <4>1
      <4>2. CASE j # 1
        <5>1. j - 1 \in 1..n - k /\ j \in 1..n - k + 1 /\ 1 + (j - 1) = j /\ k + (j - 1) = k + j - 1
          BY <1>1, <3>0, <3>4, <4>2
        <5>2. w[j] = u[j - 1]
          BY <3>4, <5>1
        <5>3. u[j - 1] = s[k + j - 1]
          BY <3>1, <5>1
        <5>. QED
          BY <3>2, <5>1, <5>2, <5>3
      <4>. QED
        BY <4>1, <4>2
    <3>6. w = v
      <4>1. Len(w) = Len(v)
        BY <1>1, <3>0, <3>2, <3>4
      <4>. QED
        BY <3>2, <3>4, <3>5, <4>1, SeqEqual
    <3>. QED
      BY <3>0, <3>6 DEF w, u, v, one, k
  <2>. QED
    BY <2>1, <2>2, <2>3, <2>4
<1>14. Nat \subseteq T
  <2>. HIDE DEF T
  <2>. QED
    BY <1>12, <1>13, SetInduction
<1>15. d[P[n - n] + 1] = rest(n)
  BY <1>1, <1>14
<1>16. rest(n) = s
  <2>1. n - n + 1 = 1
    BY <1>1
  <2>2. SubSeq(s, 1, n) = s
    BY <1>0 DEF n
  <2>. QED
    BY <2>1, <2>2
<1>17. n - n = 0 /\ 0 + 1 = 1
  BY <1>1
<1>18. Decode(e) = s
  BY <1>7, <1>8, <1>15, <1>16, <1>17
<1>. QED
  BY <1>3, <1>18 DEF e

\* EscapeInverse of RoxmlDocument: roxml_escape decodes what it has encoded,
\* and leaves no mark in it, whatever the strings and the texts of the
\* documents are.
THEOREM EscapesInvert == DocSpec => []EscapeInverse
<1>1. STRING \subseteq Letters
  BY DEF Letters
<1>2. ASSUME NEW s, s \in Seq(STRING)
      PROVE  s \in Seq(Letters)
  <2>1. Len(s) \in Nat /\ s \in [1..Len(s) -> STRING]
    BY <1>2
  <2>2. \A i \in 1..Len(s) : s[i] \in Letters
    BY <1>1, <2>1
  <2>3. s \in [1..Len(s) -> Letters]
    BY <2>1, <2>2
  <2>. QED
    BY <2>1, <2>3
<1>3. ASSUME NEW s \in Strings \cup {file}, Readable
      PROVE  s \in Seq(Letters)
  <2>1. file \in Seq(STRING)
    BY <1>3, FilesAssumption, DocumentsAssumption DEF Readable
  <2>2. s \in Seq(STRING)
    BY <2>1, DocumentsAssumption
  <2>. QED
    BY <1>2, <2>2
<1>4. EscapeInverse
  BY <1>3, EscapesAre DEF EscapeInverse, Marks
<1>. QED
  BY <1>4, PTL
=============================================================================
