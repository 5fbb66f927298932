------------------------ MODULE MCRepositoryContext ------------------------
(* A small instance of RepositoryContext for TLC: files that are empty, fit,
   or are oversized, a listing shorter than the repository, and guides on
   both sides of the context's budget. *)
EXTENDS RepositoryContext

SmallFiles == [kind : {"contract", "source"}, bytes : {0, 2, 3, 5}]
              \cup [kind : {"test", "generated", "excluded", "outside"}, bytes : {2}]
=============================================================================
