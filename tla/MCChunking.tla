----------------------------- MODULE MCChunking -----------------------------
(* Chunking on documents of up to MaxDocPages pages and MaxBlocks blocks.   *)
EXTENDS Chunking

CONSTANTS MaxDocPages, MaxBlocks

\* A word, a short paragraph with a tag, a cited and a long one.
Blocks == {<<"a">>, <<Markup, "b", "c">>, <<"d", Citation>>,
           <<"e", "f", "g", "h", "i", "j", "k">>}

\* The blocks bs on n pages: page p ends with block ends[p].
Paged(bs, n) ==
    LET ends == {f \in [0..n -> 0..Len(bs)] :
                   /\ f[0] = 0 /\ f[n] = Len(bs)
                   /\ \A p \in 1..n : f[p - 1] <= f[p]}
    IN  {[p \in 1..n |-> SubSeq(bs, f[p - 1] + 1, f[p])] : f \in ends}

MCWords == UNION {ToSet(b) : b \in Blocks}

\* A page that says the same two words over and over.  A blank line makes the
\* last chunk longer than the chunk before, which has all of its words:
\* contained drops it.
Refrain == <<<<"a">>, <<"b">>, <<"a">>, <<"b">>, <<"a">>, <<"b">>, <<"a", "b">>>>

MCDocuments ==
    UNION {Paged(bs, n) : bs \in BoundedSeq(Blocks, MaxBlocks),
                          n \in 1..MaxDocPages}
        \union {<<Refrain>>}
=============================================================================
