------------------------------ MODULE MCListing ------------------------------
(***************************************************************************)
(* Instances of Listing for TLC: the bucket's possible entries.            *)
(***************************************************************************)
EXTENDS Listing

\* Objects, directories and a directory marker, interleaved in key order.
MixedKind == <<"file", "prefix", "file", "marker", "prefix">>

\* A directory of directories.
DirKind == <<"file", "prefix", "prefix">>

PagesOfOneOrTwo == {1, 2}
PagesOfOne == {1}
Version1 == {1}
BothVersions == {1, 2}
=============================================================================
