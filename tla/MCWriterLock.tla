---------------------------- MODULE MCWriterLock ----------------------------
(***************************************************************************)
(* Two processes, one of them with two threads.                            *)
(***************************************************************************)
EXTENDS WriterLock, TLC

CONSTANTS p1, p2, t1, t2, t3, s1, s2, s3

MCThread    == {t1, t2, t3}
MCProcess   == {p1, p2}
MCProcessOf == t1 :> p1 @@ t2 :> p1 @@ t3 :> p2
MCStamp     == {s1, s2, s3}
=============================================================================
