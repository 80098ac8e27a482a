--------------------------- MODULE MCPackageData ----------------------------
(***************************************************************************)
(* A distribution mirror that signs its checksums and compresses most of   *)
(* its files, keeping some of them plain as well, and a small repository   *)
(* of plain files that has neither patches, signature nor change log.      *)
(***************************************************************************)
EXTENDS PackageData

Distribution ==
  {Gz("packages"), Plain("packages"), Gz("patches"), Gz("checksums"),
   Plain("checksums"), Gz("signature"), Plain("signature"), Gz("changelog")}

Small == {Plain("packages"), Plain("checksums")}

MCOffers == <<Distribution, Small>>

\* A failing HEAD and a kill together defeat the head caches: see MCCutList.
MCFaultSets == {{"get", "kill"}, {"get", "head"}}

MCCutOffers == <<Small>>

CutFaultSets == {{"head", "kill"}}
=============================================================================
