---------------------------- MODULE MCBlobStore ----------------------------
(***************************************************************************)
(* Two workers, two bytes and contents of one and of two bytes, of which   *)
(* one is a prefix of the other, so that a write the disk cuts short makes *)
(* the blob that someone else may be saving in full.                       *)
(***************************************************************************)
EXTENDS BlobStore, TLC

CONSTANTS p1, p2, x, y

MCChunk == {<<x>>, <<x, y>>}
Symmetry == Permutations(Proc)

=============================================================================
