-------------------------- MODULE MCUploadProtocol --------------------------
(***************************************************************************)
(* Instances of UploadProtocol for TLC.                                    *)
(***************************************************************************)
EXTENDS UploadProtocol, TLC

CONSTANTS t1, t2

TwoTasks == {t1, t2}

\* No chunk, one that is not full, two full ones, two and a piece, and more than
\* a file can have.
SomeSizes == {0, 1, 4, 5, 9}
=============================================================================
