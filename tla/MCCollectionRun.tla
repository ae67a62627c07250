--------------------------- MODULE MCCollectionRun ---------------------------
(* One run with every kind of options, and a second, short one.            *)
EXTENDS CollectionRun, TLC

CONSTANTS r1, r2, k1, k2

Options(k, items, b, requested, rows) ==
    [collection |-> k, items |-> items, bail |-> b, requested |-> requested,
     rows |-> rows]

(* Two iterations, by the limit and by the file, of the collection of the  *)
(* second run; one iteration, by default and by the file, and a file that  *)
(* is too long, of another.                                                *)
MCAsked ==
    r1 :> { Options(k1, 2, FALSE, 3, 0), Options(k1, 2, TRUE, 0, 2),
            Options(k2, 2, TRUE, 0, 0), Options(k2, 2, FALSE, 3, 1),
            Options(k2, 2, TRUE, 0, 3) }
    @@ r2 :> { Options(k1, 1, FALSE, 1, 0) }

Symmetric == Permutations(Cancels)
=============================================================================
