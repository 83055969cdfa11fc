---------------------------- MODULE RoxmlDocument ----------------------------
(***************************************************************************)
(* The life of a document: it is loaded (RoxmlLoad), read by the getters   *)
(* (RoxmlContent), written down by roxml_commit_file or                    *)
(* roxml_commit_buffer (RoxmlCommit, RoxmlOutput), one piece after the     *)
(* other, and what was written is loaded again.                            *)
(***************************************************************************)
EXTENDS RoxmlCommit, RoxmlOutput

CONSTANTS
    Documents, \* the texts of Files that are well-formed: only they are written
    DefaultNs, \* whether documents with a default namespace are written too
    Strings    \* contents an application gives to roxml_escape

ASSUME DocumentsAssumption ==
    /\ Documents \subseteq Files
    /\ \A s \in Strings : s \in Seq(STRING)

VARIABLES
    round,    \* the number of times a document has been loaded
    dest,     \* "file" or "buffer": where the document is written
    todo,     \* the pieces still to write
    printed,  \* roxml_print_spaces has been called, for a file
    out,      \* what has been written
    expect    \* what it means: the committed part of the document

commitVars == <<dest, todo, printed, out, expect, offset, len>>

allVars == <<vars, round, commitVars>>

DocInit ==
    /\ Init
    /\ OutputInit
    /\ round = 1 /\ dest = "none" /\ todo = <<>> /\ printed = FALSE
    /\ out = <<>> /\ expect = <<>>

\* roxml_load_doc or roxml_load_buf, at work.
Load == Next /\ UNCHANGED <<round, commitVars>>

\* A part of the document that declares the prefixes it uses: another cannot
\* be loaded again on its own.
SelfContained(n) ==
    \A m \in Below(ctx.heap, n) :
        \A a \in {m} \cup ToSet(Attributes(ctx.heap, m)) :
            ctx.heap[a].ns # Null =>
                /\ ctx.heap[ctx.heap[a].ns].prnt \in Below(ctx.heap, n)
                /\ DefaultNs \/ ctx.heap[ctx.heap[a].ns].alias # ""

\* A well-formed document that has been loaded from a buffer or by one chunk.
Readable ==
    phase = "loaded" /\ round = 1 /\ bulk > Len(file) /\ file \in Documents

\* roxml_commit_changes of node n, in human format or not.
CommitCall(n, human, d) ==
    /\ n \in Live(ctx.heap) /\ ctx.heap[n].kind = "elm" /\ SelfContained(n)
    /\ todo' = Pieces(file, ctx, n, human)
    /\ dest' = d /\ printed' = FALSE /\ out' = <<>>
    /\ offset' = 0 /\ len' = BaseLen
    /\ expect' = [View(file, ctx, Root) EXCEPT
                    !.kids = [i \in 1..Len(Committed(ctx, n)) |->
                                View(file, ctx, Committed(ctx, n)[i])]]
    /\ phase' = "commit"
    /\ UNCHANGED <<file, bulk, fpos, buffer, stop, chunk, ctx, round>>

\* Write the next piece.
WritePiece ==
    LET piece == Head(todo)
        first == IF dest = "file" THEN ~printed ELSE offset = 0
    IN /\ phase = "commit" /\ todo # <<>>
       /\ out' = out \o PieceText(piece, first)
       /\ todo' = Tail(todo)
       /\ IF dest = "file"
          THEN /\ printed' = (printed \/ piece.op = "spaces")
               /\ UNCHANGED outputVars
          ELSE /\ UNCHANGED printed
               /\ IF piece.op = "spaces" THEN PrintSpaces(piece.lvl)
                  ELSE WriteString(Len(piece.str))
       /\ UNCHANGED <<vars, round, dest, expect>>

\* The commit returns, the document is closed, and what was written is loaded
\* from where it was written.
Reload ==
    /\ phase = "commit" /\ todo = <<>>
    /\ round' = 2
    /\ file' = out
    /\ chunk' = 0
    /\ ctx' = NewContext
    /\ IF dest = "file"
       THEN /\ bulk' = Min(BulkReads)
            /\ fpos' = 0 /\ buffer' = <<>> /\ stop' = 0 /\ phase' = "read"
       ELSE /\ bulk' = Len(out) + 1
            /\ fpos' = Len(out) /\ buffer' = out /\ stop' = Len(out) /\ phase' = "parse"
    /\ UNCHANGED commitVars

DocNext ==
    \/ Load
    \/ /\ Readable
       /\ \E n \in Addr, human \in BOOLEAN, d \in {"file", "buffer"} :
             CommitCall(n, human, d)
    \/ WritePiece
    \/ Reload

DocSpec == DocInit /\ [][DocNext]_allVars

-----------------------------------------------------------------------------
(* Properties.                                                             *)

Returned == phase \in {"loaded", "invalid"}

Tree == {Root} \cup TreeFrom(ctx.heap, ctx.heap[Root].chld)

\* Of each of Files, roxml_load leaves nothing behind but the document and
\* candidates of tags: the one being read when it stops or fails, and those of
\* malformed tags like <p:/>.  Texts are linked or freed, and after an error
\* all that was linked has been freed.
OnlyTagsLeft ==
    Returned =>
        \A n \in Live(ctx.heap) :
            \/ phase = "loaded" /\ n \in Tree
            \/ \E tag \in Live(ctx.heap) \ Tree :
                  /\ ctx.heap[tag].prnt = Null
                  /\ ctx.src[tag].type \notin {"txt", "att", "nsd"}
                  /\ n \in TreeFrom(ctx.heap, tag)

\* The nodes of each of Files that is accepted are a tree: roxml_close, the
\* getters and the edit functions can follow any link.
LoadedTree ==
    phase = "loaded" =>
        \A n \in Live(ctx.heap) :
            /\ \A m \in ToSet(Children(ctx.heap, n)) \cup ToSet(Attributes(ctx.heap, n)) :
                  ctx.heap[m].prnt = n
            /\ ctx.heap[n].ns \in Live(ctx.heap) \cup {Null}
            /\ ctx.src[n].end <= Len(file)
            /\ IsText(ctx, n) => ctx.src[n].pos <= ctx.src[n].end

\* What was written is accepted and means what was committed: names, contents,
\* attributes, namespaces and order, in human format or not.
RoundTrip ==
    round = 2 =>
        /\ phase # "invalid"
        /\ phase = "loaded" => View(file, ctx, Root) = expect

\* A file gets the same characters as a buffer: what tells roxml_print_spaces
\* that it is at the beginning agrees, a count of its calls for a file, the
\* offset for a buffer.
SameBreaks ==
    phase = "commit" /\ dest = "file" /\ todo # <<>> /\ Head(todo).op = "spaces"
        => (printed <=> out # <<>>)

\* What roxml_escape encodes it decodes to the same string, one that has
\* escapes of its own included, and an encoded string has no mark that the
\* parser or a quoted value would stop at.
EscapeInverse ==
    Readable =>
        \A s \in Strings \cup {file} :
            /\ Decode(Encode(s)) = s
            /\ ToSet(Encode(s)) \cap {"<", ">", "\"", "'"} = {}

=============================================================================
