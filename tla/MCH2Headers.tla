------------------------------ MODULE MCH2Headers ------------------------------
(***************************************************************************)
(* TLC's instance of H2Headers.                                            *)
(***************************************************************************)
EXTENDS H2Headers

TwoFields == {"path", "cookie"}

Reps ==
  {[kind |-> k, field |-> f, index |-> 0] : k \in {"literal", "plain"}, f \in Fields}
    \cup {[kind |-> "indexed", field |-> "path", index |-> i] : i \in 1..TableSize}

Of(kind) == {rep \in Reps : rep.kind = kind}

\* One or two representations, or two literals and a reference to one of them.
ShortBlocks ==
  {<<a>> : a \in Reps} \cup {<<a, b>> : a, b \in Reps}
    \cup {<<a, b, c>> : a, b \in Of("literal"), c \in Of("indexed")}
=============================================================================
