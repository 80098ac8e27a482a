-------------------------- MODULE MCTransactionRun --------------------------
(***************************************************************************)
(* Plans with two packages to fetch, between them in all three lists, and  *)
(* one to remove, one package without a checksum, and five sets of options.*)
(* A package that is in several plans shares its cached file.              *)
(***************************************************************************)
EXTENDS TransactionRun

P(n, v, md5) ==
  [name |-> n, version |-> v, location |-> "main", md5 |-> md5, suggests |-> {"s"}]

A == P("a", 1, TRUE)
B1 == P("b", 1, TRUE)
B2 == P("b", 2, TRUE)
C == P("c", 1, FALSE)

MCPkg == {A, B1, B2, C}

MCPlans ==
  {AddInstall(AddRemove(AddUpgrade(EmptyTrxn, B1, B2), C), A),
   AddReinstall(AddInstall(EmptyTrxn, A), B1, B1),
   AddUpgrade(AddInstall(EmptyTrxn, C), B1, B2)}

Plain ==
  [retry |-> 1, no_md5 |-> FALSE, prompt |-> FALSE, no_prompt |-> FALSE,
   download_only |-> FALSE, simulate |-> FALSE, print_uris |-> FALSE,
   dist_upgrade |-> FALSE]

MCConfs ==
  {Plain,
   [Plain EXCEPT !.retry = 2, !.no_prompt = TRUE, !.dist_upgrade = TRUE],
   [Plain EXCEPT !.no_md5 = TRUE],
   [Plain EXCEPT !.download_only = TRUE, !.retry = 2],
   [Plain EXCEPT !.simulate = TRUE, !.prompt = TRUE]}

\* An update lists b in version 2; --autoclean finds that list, or none.
MCListings == {{}, {A, B2, C}}
=============================================================================
