------------------------------ MODULE RoxmlLoad ------------------------------
(***************************************************************************)
(* Loading a document: roxml_load and the parser callbacks                 *)
(* (src/src/roxml_core.c) driven by the loops of src/src/roxml_file.c and  *)
(* src/src/roxml_buff.c.  A file is read by chunks of bulk characters      *)
(* (ROXML_BULK_READ); the callbacks start on all but the last BaseLen of   *)
(* them (ROXML_BASE_LEN), may read on into these, and what they have not   *)
(* read is carried over to the next chunk.  A buffer is one chunk.         *)
(*                                                                         *)
(* A text is a sequence of symbols: a mark, a white space, a name, a word, *)
(* or one of the keywords "[CDATA[" and "xmlns".  Every symbol has length  *)
(* one, in offsets and in chunks.  Offsets count from 0, as in the code.   *)
(*                                                                         *)
(* The context c is roxml_load_ctx_t with the nodes it builds:             *)
(*    heap, src      the nodes: links, and type with offsets               *)
(*    cur            current_node, the element being filled                *)
(*    node, txt, arg, val   the candidates                                 *)
(*    spaces, last   the list of namespace definitions and its last_ns     *)
(*    pos, lvl, empty, state, previous, mode, inside, quoted, nsdef, ns,   *)
(*    name, len, doctype    as in the code (name: curr_name up to len)     *)
(*    ret            what the last callback returned                       *)
(***************************************************************************)
EXTENDS RoxmlHeap, RoxmlDefines, RoxmlParser

CONSTANTS
    Files  \* the texts that are loaded

ASSUME FilesAssumption == \A f \in Files : f \in Seq(STRING)

VARIABLES
    file,    \* the document
    bulk,    \* the size of the chunks it is read by
    fpos,    \* how much of it has been read
    buffer,  \* int_buffer: the current chunk
    stop,    \* chunk_len: where callbacks are no longer started
    chunk,   \* how much of the current chunk has been parsed
    ctx,     \* the context
    phase    \* "read", "parse", "end", "error"; "loaded" or "invalid" once
             \* roxml_load has returned; "commit" in RoxmlDocument

vars == <<file, bulk, fpos, buffer, stop, chunk, ctx, phase>>

-----------------------------------------------------------------------------
(* Text.                                                                   *)

White == {" ", "\n"}

\* chunk[i], with the terminating zero.
At(s, i) == IF i < Len(s) THEN s[i + 1] ELSE ""

\* The first i >= from where chunk[i] is in S or the terminating zero.
Scan(s, from, S) == Min({i \in from..Len(s) : At(s, i) \in S \cup {""}})

Word(s) == FoldLeft(LAMBDA w, symbol : w \o symbol, "", s)

-----------------------------------------------------------------------------
(* Nodes.                                                                  *)

\* What the link functions of RoxmlHeap tell apart in a type.
HeapKind(type) ==
    CASE type \in {"txt", "cdata"} -> "txt"
      [] type \in {"cmt", "pi", "doctype"} -> "misc"
      [] type \in {"nsd", "invalid"} -> "nsd"
      [] OTHER -> type

New(c) == Fresh(c.heap, 1)[1]

\* roxml_create_node.  Only a placeholder for a definition has a word.
CreateAs(c, n, type, pos, word) ==
    [c EXCEPT !.heap[n] = Blank(HeapKind(type)),
              !.src[n] = [type |-> type, pos |-> pos, end |-> pos, word |-> word]]

\* The same, for the candidate f of the context.
Create(c, f, type, pos) ==
    CreateAs([c EXCEPT ![f] = New(c)], New(c), type, pos, "")

SetType(c, n, type) ==
    [c EXCEPT !.src[n].type = type, !.heap[n].kind = HeapKind(type)]

\* roxml_free_node
Free(c, n) == IF n = Null THEN c ELSE [c EXCEPT !.heap = Release(@, {n})]

\* roxml_append_node
Link(c, p, n) == [c EXCEPT !.heap = AppendNode(@, p, n)]

\* roxml_close_node
CloseAt(c, n, end) == [c EXCEPT !.src[n].end = end]

\* An element whose prefix is not declared (so far) has a definition of type
\* ROXML_INVALID for its namespace.
Pending(c) ==
    /\ c.node # Null
    /\ c.heap[c.node].ns # Null
    /\ c.src[c.heap[c.node].ns].type = "invalid"

\* roxml_lookup_nsdef: the first definition of the list with that alias.
LookupNsdef(c, alias) ==
    LET find[k \in Ptr] ==
            IF k = Null THEN Null
            ELSE IF c.heap[k].alias = alias THEN k ELSE find[c.heap[k].next]
    IN find[c.spaces]

\* Put the attribute being read at the end of the list of definitions.
ChainNsdef(c) ==
    IF c.spaces = Null
    THEN [c EXCEPT !.spaces = c.arg, !.last = c.arg]
    ELSE [c EXCEPT !.heap[c.last].next = c.arg, !.last = c.arg]

\* roxml_process_unaliased_ns: xmlns="uri" declares a default namespace,
\* xmlns="" takes it away.
ProcessUnaliased(c) ==
    LET d == SetType([c EXCEPT !.nsdef = FALSE], c.arg, "nsd")
        e == IF Pending(d) THEN Free(d, d.heap[d.node].ns) ELSE d
    IN CASE ~c.nsdef -> c
         [] c.nsdef /\ c.src[c.val].pos = c.src[c.val].end ->
              [e EXCEPT !.heap[c.node].ns = Null, !.heap[c.arg].ns = Null]
         [] OTHER ->
              [e EXCEPT !.heap[c.arg].alias = "", !.heap[c.arg].ns = c.arg,
                        !.heap[c.node].ns = c.arg, !.spaces = c.arg]

\* Mutant: a white text before a tag is forgotten.
BeginNodeForget(c, position, type) ==
    LET text == Link(CloseAt(c, c.txt, position), c.cur, c.txt)
        d == IF c.txt = Null THEN c
             ELSE [(IF c.empty THEN c ELSE text) EXCEPT !.txt = Null]
    IN Create(d, "node", type, position)

\* Mutant: a white text is freed and then linked like any other.
BeginNodeLinked(c, position, type) ==
    LET d == IF c.empty THEN Free(c, c.txt) ELSE c
        e == IF c.txt = Null THEN c
             ELSE [Link(CloseAt(d, c.txt, position), c.cur, c.txt) EXCEPT !.txt = Null]
    IN Create(e, "node", type, position)

\* roxml_process_begin_node, and the type its callers give the candidate: the
\* text before a tag ends; a white one is dropped.
BeginNode(c, position, type) ==
    LET text == Link(CloseAt(c, c.txt, position), c.cur, c.txt)
        d == IF c.txt = Null THEN c
             ELSE [(IF c.empty THEN Free(c, c.txt) ELSE text) EXCEPT !.txt = Null]
    IN Create(d, "node", type, position)

\* The value being read ends, before its closing quote if it has quotes.
EndValue(c) ==
    IF c.inside # "val" THEN c
    ELSE CloseAt([c EXCEPT !.quoted = FALSE], c.val,
                 IF c.quoted THEN c.pos - 1 ELSE c.pos)

-----------------------------------------------------------------------------
(* The callbacks.                                                          *)

\* Read n characters; fail.
Advance(c, n) == [c EXCEPT !.pos = @ + n, !.ret = n]
Error(c) == [c EXCEPT !.ret = -1]

\* _func_load_quoted and _func_load_dquoted pass: the default callback is next.
LoadQuote(c, mode) ==
    CASE c.state \in {"content", "comment", "cdata"} -> c
      [] c.state \notin {"content", "comment", "cdata"} /\ c.mode = "none" ->
            [c EXCEPT !.mode = mode]
      [] c.state \notin {"content", "comment", "cdata"} /\ c.mode = mode ->
            [c EXCEPT !.mode = "none"]
      [] OTHER -> c

LoadOpenNode(c, s) ==
    CASE c.state \in {"cdata", "comment"} -> Advance(c, 1)
      [] c.state \in {"attr", "beg"} ->
            IF c.mode = "none" THEN Error(c) ELSE Advance(c, 1)
      [] OTHER -> Advance([c EXCEPT !.state = "beg", !.previous = "beg"], 1)

\* Mutant: the placeholder is freed, the element keeps its link to it.
AfterTagStale(c, s) ==
    LET d == IF Pending(c) THEN Free(c, c.heap[c.node].ns) ELSE c
        t == Create(d, "txt", "txt", c.pos + 1)
        n == Scan(s, 1, {"<"})
        white == \A i \in 1..n - 1 : At(s, i) \in White
    IN Advance([t EXCEPT !.state = "content", !.previous = "content",
                         !.empty = @ /\ white], n)

\* The content after a tag: a candidate text, read up to the next tag.
AfterTag(c, s) ==
    LET d == IF Pending(c)
             THEN [Free(c, c.heap[c.node].ns) EXCEPT !.heap[c.node].ns = Null] ELSE c
        t == Create(d, "txt", "txt", c.pos + 1)
        n == Scan(s, 1, {"<"})
        white == \A i \in 1..n - 1 : At(s, i) \in White
    IN Advance([t EXCEPT !.state = "content", !.previous = "content",
                         !.empty = @ /\ white], n)

LoadCloseNode(c, s) ==
    LET up == c.heap[c.cur].prnt
        link == [Link(c, c.cur, c.node) EXCEPT !.empty = TRUE]
        close == CloseAt(c, c.cur, c.src[c.node].pos)
    IN CASE c.state = "name" -> AfterTag([link EXCEPT !.cur = c.node], s)
         [] c.state = "attr" /\ c.mode = "none" ->
              AfterTag(ProcessUnaliased(
                  [Link(EndValue(c), c.cur, c.node) EXCEPT
                      !.cur = c.node, !.inside = "arg_beg"]), s)
         [] c.state = "single" /\ c.doctype > 1 ->
              Advance([c EXCEPT !.doctype = @ - 1], 1)
         [] c.state = "single" /\ c.doctype = 1 ->
              AfterTag(ProcessUnaliased(
                  CloseAt([link EXCEPT !.doctype = 0], c.node, c.pos)), s)
         [] c.state = "single" /\ c.doctype = 0 ->
              AfterTag(ProcessUnaliased(link), s)
         [] c.state = "end" ->
              AfterTag([Free(close, c.node) EXCEPT
                           !.empty = TRUE, !.node = Null,
                           !.cur = IF up = Null THEN @ ELSE up], s)
         [] OTHER -> Advance(c, 1)

LoadOpenSpecNode(c, s) ==
    CASE c.state = "beg" /\ At(s, 1) = "-" /\ At(s, 2) = "-" ->
            Advance([BeginNode(c, c.pos - 1, "cmt") EXCEPT !.state = "comment"],
                    Scan(s, 3, {"-"}))
      [] c.state = "beg" /\ At(s, 1) = "[CDATA[" ->
            Advance([BeginNode(c, c.pos - 1, "cdata") EXCEPT !.state = "cdata"], 1)
      [] c.state = "beg" /\ ~(At(s, 1) = "-" /\ At(s, 2) = "-") /\ At(s, 1) # "[CDATA[" ->
            Advance([(IF c.doctype = 0 THEN BeginNode(c, c.pos - 1, "doctype") ELSE c)
                        EXCEPT !.state = "single", !.previous = "single",
                               !.doctype = @ + 1], 1)
      [] OTHER -> Advance(c, 1)

\* Mutant: a single - ends a comment.
LoadCloseCommentOne(c, s) ==
    IF c.state = "comment"
    THEN Advance(CloseAt([c EXCEPT !.state = "single"], c.node, c.pos), 2)
    ELSE Advance(c, 1)

LoadCloseComment(c, s) ==
    IF c.state = "comment" /\ At(s, 1) = "-"
    THEN Advance(CloseAt([c EXCEPT !.state = "single"], c.node, c.pos), 2)
    ELSE Advance(c, 1)

LoadCloseCdata(c, s) ==
    IF c.state = "cdata" /\ At(s, 1) = "]"
    THEN Advance(CloseAt([c EXCEPT !.state = "single", !.src[c.node].pos = @ + 3],
                         c.node, c.pos), 2)
    ELSE Advance(c, 1)

LoadClosePi(c, s) ==
    CASE c.state = "beg" ->
            Advance([BeginNode(c, c.pos - 1, "pi") EXCEPT
                        !.state = "pi", !.previous = "pi"], 1)
      [] c.state = "pi" /\ c.mode = "none" ->
            Advance(CloseAt([c EXCEPT !.state = "single", !.previous = "pi"],
                            c.node, c.pos), 1)
      [] OTHER -> Advance(c, 1)

LoadEndNode(c, s) ==
    CASE c.state = "beg" ->
            LET d == [BeginNode(c, c.pos - 1, "elm") EXCEPT
                         !.lvl = @ - 1, !.state = "end"]
            IN IF d.lvl < 0 THEN Error(d) ELSE Advance(d, 1)
      [] c.state = "name" ->
            Advance([c EXCEPT !.lvl = @ - 1, !.state = "single"], 1)
      [] c.state = "attr" /\ c.mode = "none" ->
            Advance([EndValue(c) EXCEPT !.lvl = @ - 1, !.state = "single",
                                        !.inside = "arg_beg"], 1)
      [] OTHER -> Advance(c, 1)

LoadWhite(c, s) ==
    CASE c.state = "single" -> Advance([c EXCEPT !.state = c.previous], 1)
      [] c.state = "name" ->
            Advance([c EXCEPT !.state = "attr", !.inside = "arg_beg"], 1)
      [] c.state = "attr" /\ c.mode = "none" /\ c.inside = "val" ->
            Advance(ProcessUnaliased([EndValue(c) EXCEPT !.inside = "arg_beg"]), 1)
      [] OTHER -> Advance(c, 1)

\* A prefix has been read.  Its declaration may still come, on the same tag.
LoadColon(c, s) ==
    LET d == LookupNsdef(c, c.name)
        e == IF d = Null THEN CreateAs(c, New(c), "invalid", 0, c.name) ELSE c
    IN CASE c.state = "name" ->
              Advance([e EXCEPT !.heap[c.node].ns = IF d = Null THEN New(c) ELSE d,
                                !.src[c.node].pos = @ + c.len + 2,
                                !.state = "beg", !.ns = TRUE], 1)
         [] c.state = "attr" /\ c.inside = "arg" /\ c.name = "xmlns" ->
              Advance([SetType(c, c.arg, "nsd") EXCEPT
                          !.inside = "arg_beg", !.nsdef = TRUE], 1)
         [] c.state = "attr" /\ c.inside = "arg" /\ c.name # "xmlns" ->
              Advance([c EXCEPT !.inside = "arg_beg", !.ns = TRUE,
                                !.heap[c.arg].ns = d,
                                !.src[c.arg].pos = @ + c.len + 2], 1)
         [] OTHER -> Advance(c, 1)

Named(c, s, n) == [c EXCEPT !.name = Word(SubSeq(s, 1, n)), !.len = n]

\* The name of an element or, after a prefix, the rest of it.
ElementName(c, s) ==
    LET n == Scan(s, 1, White \cup {">", "/", ":"})
        d == IF c.ns THEN c
             ELSE BeginNode([c EXCEPT !.lvl = @ + 1], c.pos - 1, "elm")
    IN Advance(Named([d EXCEPT !.ns = FALSE, !.state = "name"], s, n), n)

\* The alias of a definition; the element may be waiting for it.
Declare(c) ==
    LET d == [ChainNsdef(c) EXCEPT !.heap[c.arg].alias = c.name, !.nsdef = FALSE]
        waiting == d.heap[d.node].ns
    IN IF Pending(d) /\ d.src[waiting].word = c.name
       THEN [Free(d, waiting) EXCEPT !.heap[d.node].ns = d.arg] ELSE d

\* The name of an attribute, what follows its prefix, or an alias.
AttributeName(c, s) ==
    LET n == Scan(s, 1, {"=", ">", ":"})
        new == Create(c, "arg", "att", c.pos - 1)
        d == IF c.nsdef \/ c.ns THEN c ELSE Link(new, new.node, new.arg)
        e == Named([d EXCEPT !.ns = FALSE, !.inside = "arg"], s, n)
    IN Advance(IF c.nsdef THEN Declare(e) ELSE e, n)

\* The first character of a value: its opening quote if it has one.
ValueBegin(c) ==
    LET quoted == c.mode # "none"
        d == Create(c, "val", "txt", IF quoted THEN c.pos + 1 ELSE c.pos)
    IN Advance([Link(d, d.arg, d.val) EXCEPT !.quoted = @ \/ quoted,
                                             !.inside = "val"], 1)

AttributeEqual(c) ==
    LET d == [CloseAt(c, c.arg, c.pos) EXCEPT !.inside = "val_beg"]
    IN Advance(IF c.name = "xmlns" THEN [ChainNsdef(d) EXCEPT !.nsdef = TRUE] ELSE d, 1)

LoadDefault(c, s) ==
    CASE c.state = "single" -> Advance([c EXCEPT !.state = c.previous], 1)
      [] c.state = "beg" -> ElementName(c, s)
      [] c.state = "attr" /\ c.inside = "arg_beg" -> AttributeName(c, s)
      [] c.state = "attr" /\ c.inside = "val_beg" -> ValueBegin(c)
      [] c.state = "attr" /\ c.inside = "arg" /\ At(s, 0) = "=" -> AttributeEqual(c)
      [] OTHER -> Advance(c, 1)

LoadCall(func, c, s) ==
    CASE func = "white" -> LoadWhite(c, s)
      [] func = "open_node" -> LoadOpenNode(c, s)
      [] func = "close_node" -> LoadCloseNode(c, s)
      [] func = "end_node" -> LoadEndNode(c, s)
      [] func = "quoted" -> LoadQuote(c, "quote")
      [] func = "dquoted" -> LoadQuote(c, "dquote")
      [] func = "open_spec_node" -> LoadOpenSpecNode(c, s)
      [] func = "close_cdata" -> LoadCloseCdata(c, s)
      [] func = "close_comment" -> LoadCloseComment(c, s)
      [] func = "close_pi" -> LoadClosePi(c, s)
      [] func = "colon" -> LoadColon(c, s)
      [] func = "default" -> LoadDefault(c, s)

Items == <<
    <<" ", "white">>, <<"<", "open_node">>, <<">", "close_node">>,
    <<"/", "end_node">>, <<"'", "quoted">>, <<"\"", "dquoted">>,
    <<"\n", "white">>, <<"!", "open_spec_node">>, <<"]", "close_cdata">>,
    <<"-", "close_comment">>, <<"?", "close_pi">>, <<":", "colon">>,
    <<"", "default">> >>

Symbols == {item[1] : item \in ToSet(Items)} \cup UNION {ToSet(f) : f \in Files}

\* The characters a text may have (the code has 128).
ASSUME SymbolsAssumption == IsFiniteSet(Symbols)

LoadParser == Parser(Symbols, Items)

-----------------------------------------------------------------------------
(* roxml_load.                                                             *)

NewContext ==
    LET r == Min(Addr)
    IN [heap |-> [a \in Addr |-> Blank(IF a = r THEN "elm" ELSE "unused")],
        src |-> [a \in Addr |-> [type |-> IF a = r THEN "elm" ELSE "unused",
                                 pos |-> 0, end |-> 0, word |-> ""]],
        cur |-> r, node |-> Null, txt |-> Null, arg |-> Null, val |-> Null,
        spaces |-> Null, last |-> Null, pos |-> 0, lvl |-> 0, empty |-> TRUE,
        state |-> "none", previous |-> "none", mode |-> "none",
        inside |-> "arg_beg", quoted |-> FALSE, nsdef |-> FALSE, ns |-> FALSE,
        name |-> "", len |-> 0, doctype |-> 0, ret |-> 0]

Root == Min(Addr)

\* roxml_load_doc: nothing is read yet.
LoadDoc(f) ==
    /\ bulk \in BulkReads
    /\ fpos = 0 /\ buffer = <<>> /\ stop = 0 /\ phase = "read"

\* roxml_load_buf: the text is the only chunk.
LoadBuf(f) ==
    /\ bulk = Len(f) + 1
    /\ fpos = Len(f) /\ buffer = f /\ stop = Len(f) /\ phase = "parse"

Init ==
    /\ file \in Files
    /\ chunk = 0
    /\ ctx = NewContext
    /\ LoadDoc(file) \/ LoadBuf(file)

\* Mutant: a whole chunk is read after what was carried over.
ReadChunkWhole ==
    LET b == buffer \o SubSeq(file, fpos + 1, Min({fpos + bulk, Len(file)}))
    IN /\ phase = "read"
       /\ buffer' = b
       /\ fpos' = fpos + Len(b) - Len(buffer)
       /\ stop' = IF Len(b) >= bulk THEN Len(b) - BaseLen ELSE Len(b)
       /\ phase' = "parse"
       /\ UNCHANGED <<file, bulk, chunk, ctx>>

\* Fill the buffer after what was carried over.
ReadChunk ==
    LET n == Min({bulk - Len(buffer), Len(file) - fpos})
        b == buffer \o SubSeq(file, fpos + 1, fpos + n)
    IN /\ phase = "read"
       /\ buffer' = b
       /\ fpos' = fpos + n
       /\ stop' = IF Len(b) = bulk THEN Len(b) - BaseLen ELSE Len(b)
       /\ phase' = "parse"
       /\ UNCHANGED <<file, bulk, chunk, ctx>>

\* The callbacks of the next character: roxml_parse_line.
Parse ==
    LET s == SubSeq(buffer, chunk + 1, Len(buffer))
        c == Turn(LoadParser, s[1], LoadCall, ctx, s)
    IN /\ phase = "parse" /\ chunk < stop
       /\ ctx' = c
       /\ chunk' = IF c.ret < 0 THEN chunk ELSE chunk + c.ret
       /\ phase' = IF c.ret < 0 THEN "error" ELSE phase
       /\ UNCHANGED <<file, bulk, fpos, buffer, stop>>

\* Mutant: what was read ahead is carried over too.
NextChunkStop ==
    /\ phase = "parse" /\ chunk >= stop
    /\ buffer' = SubSeq(buffer, stop + 1, Len(buffer))
    /\ chunk' = 0
    /\ phase' = IF Len(buffer) = bulk THEN "read"
                ELSE IF ctx.lvl = 0 THEN "end" ELSE "error"
    /\ UNCHANGED <<file, bulk, fpos, stop, ctx>>

\* Carry over the rest of the chunk; the last one was shorter than bulk.
NextChunk ==
    /\ phase = "parse" /\ chunk >= stop
    /\ buffer' = SubSeq(buffer, chunk + 1, Len(buffer))
    /\ chunk' = 0
    /\ phase' = CASE chunk > Len(buffer) -> "error"
                  [] chunk <= Len(buffer) /\ Len(buffer) = bulk -> "read"
                  [] OTHER -> IF ctx.lvl = 0 THEN "end" ELSE "error"
    /\ UNCHANGED <<file, bulk, fpos, stop, ctx>>

\* The text after the last tag, then the document or, after an error, nothing.
Return ==
    LET text == Link(CloseAt(ctx, ctx.txt, ctx.pos), ctx.cur, ctx.txt)
        c == CASE ctx.txt = Null -> ctx
               [] ctx.txt # Null /\ ctx.empty -> Free(ctx, ctx.txt)
               [] OTHER -> text
    IN /\ phase \in {"end", "error"}
       /\ phase' = IF phase = "end" THEN "loaded" ELSE "invalid"
       /\ ctx' = IF phase = "end" THEN c
                 ELSE [c EXCEPT !.heap = Close(c.heap, Root)]
       /\ UNCHANGED <<file, bulk, fpos, buffer, stop, chunk>>

Next == ReadChunk \/ Parse \/ NextChunk \/ Return

Spec == Init /\ [][Next]_vars

-----------------------------------------------------------------------------
(* Properties.                                                             *)

\* The types of the variables; the text has no character that the parser does
\* not know, what has been written included.
TypeOK ==
    /\ file \in Seq(Symbols)
    /\ phase \in {"read", "parse", "end", "error", "loaded", "invalid", "commit"}
    /\ fpos \in 0..Len(file)
    /\ Len(buffer) <= bulk

\* No callback writes to a node that another has freed: a white text, the tag
\* that closes an element, the placeholder for a definition of a namespace.
\* The context holds many pointers to them, current_node, the candidates and
\* the list of definitions (roxml_core.c).
FreedUntouched ==
    \A a \in Addr \ Live(ctx.heap) : ctx.heap[a] = Blank(ctx.heap[a].kind)

\* The offsets stored in the nodes are offsets in the file: the position of
\* the context is that of the next character, whatever was read ahead and
\* carried over.
PositionInSync ==
    phase = "parse" => ctx.pos = fpos - Len(buffer) + chunk

\* Every load returns: each turn of roxml_parse_line reads a character or
\* fails, and what is carried over never fills the next chunk.
LoadProgress ==
    [][phase = "parse" =>
          CASE phase' = "parse" -> chunk' > chunk
            [] phase' = "read" -> Len(buffer') < bulk
            [] OTHER -> TRUE]_vars

=============================================================================
