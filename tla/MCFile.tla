------------------------------- MODULE MCFile -------------------------------
EXTENDS File
=============================================================================
