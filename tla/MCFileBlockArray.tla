-------------------------- MODULE MCFileBlockArray --------------------------
(* A file of a few blocks of a few bytes, on disk or in memory.             *)
EXTENDS FileBlockArray
=============================================================================
