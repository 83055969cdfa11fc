----------------------------- MODULE RoxmlCommit -----------------------------
(***************************************************************************)
(* Writing a tree down (src/src/roxml_commit.c): the sequence of the       *)
(* writes that roxml_commit_nodes makes for a node.  A piece is either     *)
(*    [op |-> "spaces", lvl |-> l]      roxml_print_spaces, or             *)
(*    [op |-> "string", str |-> s]      roxml_write_string.                *)
(* t is the source of the document and c has its nodes.                    *)
(***************************************************************************)
EXTENDS RoxmlContent

Spaces(lvl) == <<[op |-> "spaces", lvl |-> lvl]>>
Str(s) == <<[op |-> "string", str |-> s]>>

\* The prefix a node is written with: roxml_get_name of its namespace.
NsPrefix(t, c, n) ==
    IF c.heap[n].ns = Null \/ NameOf(t, c, c.heap[n].ns) = <<>> THEN <<>>
    ELSE NameOf(t, c, c.heap[n].ns) \o <<":">>

\* roxml_write_elm_name_open
ElmOpen(t, c, n) == Str(<<"<">> \o NsPrefix(t, c, n) \o NameOf(t, c, n))

\* roxml_write_elm_name_close
ElmClose(t, c, n) ==
    Str(IF c.heap[n].chld = Null THEN <<"/", ">">>
        ELSE <<"<", "/">> \o NsPrefix(t, c, n) \o NameOf(t, c, n) \o <<">">>)

\* One turn of roxml_write_elm_attr.  An attribute in the default namespace,
\* and the definition of one, is written with a colon and no prefix.
ElmAttr(t, c, a) ==
    LET def == c.src[a].type = "nsd"
        name == NameOf(t, c, a)
    IN Str(<<" ">> \o (IF def THEN <<"xmlns">> ELSE <<>>)
           \o (IF def /\ name # <<>> THEN <<":">> ELSE <<>>)
           \o (IF c.heap[a].ns = Null THEN <<>>
               ELSE NameOf(t, c, c.heap[a].ns) \o <<":">>)
           \o name \o <<"=", "\"">> \o ContentOf(t, c, a) \o <<"\"">>)

\* roxml_write_other_node
OtherNode(t, c, n) ==
    LET type == c.src[n].type
        name == NameOf(t, c, n)
        value == (IF name = <<>> THEN <<>> ELSE name \o <<" ">>) \o ContentOf(t, c, n)
    IN Str(CASE type = "cmt" -> <<"<", "!", "-", "-">> \o value \o <<"-", "-", ">">>
             [] type = "doctype" -> <<"<">> \o value \o <<">">>
             [] type = "pi" -> <<"<", "?">> \o value \o <<"?", ">">>
             [] type = "cdata" -> <<"<", "!", "[CDATA[">> \o value \o <<"]", "]", ">">>
             [] OTHER -> value)

\* Mutant: a child is laid out whatever stands before it.
NodePiecesLoose(t, c, n, human) ==
    LET nodes == Live(c.heap)
        write[m \in nodes, h \in BOOLEAN, lvl \in 0..Cardinality(nodes)] ==
            LET kids == Children(c.heap, m)
            IN (IF h THEN Spaces(lvl) ELSE <<>>) \o
               IF c.src[m].type # "elm" THEN OtherNode(t, c, m)
               ELSE ElmOpen(t, c, m)
                    \o FlattenSeq([i \in 1..Len(Attributes(c.heap, m)) |->
                                     ElmAttr(t, c, Attributes(c.heap, m)[i])])
                    \o (IF kids = <<>> THEN <<>> ELSE Str(<<">">>))
                    \o FlattenSeq([i \in 1..Len(kids) |->
                          write[kids[i], h /\ ~IsText(c, kids[i]), lvl + 1]])
                    \o (IF h /\ kids # <<>> THEN Spaces(lvl) ELSE <<>>)
                    \o ElmClose(t, c, m)
    IN write[n, human, 0]

\* roxml_write_node.  In human format each node is on a line of its own, but
\* next to a text, where a white space would change the content.
NodePieces(t, c, n, human) ==
    LET nodes == Live(c.heap)
        write[m \in nodes, h \in BOOLEAN, lvl \in 0..Cardinality(nodes)] ==
            LET kids == Children(c.heap, m)
                beside(i) == {kids[i], kids[IF i = 1 THEN 1 ELSE i - 1]}
                keep(i) == h /\ \A k \in beside(i) : ~IsText(c, k)
            IN (IF h THEN Spaces(lvl) ELSE <<>>) \o
               IF c.src[m].type # "elm" THEN OtherNode(t, c, m)
               ELSE ElmOpen(t, c, m)
                    \o FlattenSeq([i \in 1..Len(Attributes(c.heap, m)) |->
                                     ElmAttr(t, c, Attributes(c.heap, m)[i])])
                    \o (IF kids = <<>> THEN <<>> ELSE Str(<<">">>))
                    \o FlattenSeq([i \in 1..Len(kids) |->
                                     write[kids[i], keep(i), lvl + 1]])
                    \o (IF h /\ kids # <<>> /\ ~IsText(c, Last(kids))
                        THEN Spaces(lvl) ELSE <<>>)
                    \o ElmClose(t, c, m)
    IN write[n, human, 0]

\* The nodes roxml_commit_nodes writes: all those of the document when it is
\* asked for the document or one of its children, else the node alone.
Committed(c, n) ==
    LET up == c.heap[n].prnt
    IN CASE up = Null -> Children(c.heap, n)
         [] up # Null /\ c.heap[up].prnt = Null -> Children(c.heap, up)
         [] OTHER -> <<n>>

\* Mutant: only the nodes after the first are laid out.
PiecesAfterFirst(t, c, n, human) ==
    FlattenSeq([i \in 1..Len(Committed(c, n)) |->
                  NodePieces(t, c, Committed(c, n)[i], human /\ i > 1)])

Pieces(t, c, n, human) ==
    FlattenSeq([i \in 1..Len(Committed(c, n)) |->
                  NodePieces(t, c, Committed(c, n)[i], human)])

-----------------------------------------------------------------------------
(* The characters of a piece, after those written so far.                  *)

\* A line break before the spaces, but at the very beginning.  In a file the
\* beginning is told by a counter of the calls, in a buffer by the offset.
PieceText(piece, first) ==
    IF piece.op = "string" THEN piece.str
    ELSE (IF first THEN <<>> ELSE <<"\n">>) \o [i \in 1..piece.lvl |-> " "]

=============================================================================
