--------------------------- MODULE MCStaticBatch ---------------------------
EXTENDS StaticBatch, SequencesExt

\* A model over the tokens 0, 1 and 2 (EOT): what it gives depends on every
\* token of the context and on its position; it is greedy after contexts of
\* odd length and undecided between two tokens after the others.
MCTarget(context) ==
    LET weight(x) == IF x = Blank THEN 5 ELSE (x[1] + 1) * (x[2] + 2)
        hash == FoldSeq(LAMBDA x, sum : weight(x) + sum, Len(context), context)
    IN  {hash % 3} \cup IF Len(context) % 2 = 1 THEN {} ELSE {(hash \div 3) % 3}

MCPrompts == UNION { [1 .. n -> {0, 1}] : n \in 1 .. 3 }
=============================================================================
