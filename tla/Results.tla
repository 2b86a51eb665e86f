------------------------------- MODULE Results -------------------------------
(* Result<T, E> as the code returns it, for the pure algorithms. *)
EXTENDS Integers, Sequences, FiniteSets, FiniteSetsExt

Ok(v) == [ok |-> TRUE, value |-> v]
Err(name) == [ok |-> FALSE, error |-> name]

\* `?` over a sequence of results: the first error, or all the values.
Collect(results) ==
  LET failed == {i \in DOMAIN results : ~results[i].ok}
  IN  IF failed = {} THEN Ok([i \in DOMAIN results |-> results[i].value])
                     ELSE results[Min(failed)]
=============================================================================
