--------------------------- MODULE MCUploadCache ---------------------------
(* Instances of UploadCache: four inodes, one more than three racing       *)
(* putters can hold beside the published one, so that no put waits for an  *)
(* inode.                                                                  *)
EXTENDS UploadCache, Integers

ASSUME EnoughInodes == Cardinality(Inodes) > Cardinality(Putters)
=============================================================================
