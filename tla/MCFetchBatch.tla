---------------------------- MODULE MCFetchBatch ----------------------------
(* FetchBatch for TLC: c1 <- c2, which adds a file.                          *)
EXTENDS FetchBatch, TLC

CONSTANTS c1, c2, f1, f2

MCCommits == {c1, c2}
MCBlobs   == {f1, f2}
MCParents == (c1 :> {}) @@ (c2 :> {c1})
MCFiles   == (c1 :> {f1}) @@ (c2 :> {f1, f2})
MCBoth    == {"bundle", "packchain"}
=============================================================================
