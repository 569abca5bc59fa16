----------------------------- MODULE MCBlobPut -----------------------------
(* Instances of BlobPut: two uploads that share a .part, and files longer  *)
(* than the content, so that a stale tail can be left behind.              *)
EXTENDS BlobPut

ASSUME LongerFiles == MaxSize > Size
=============================================================================
