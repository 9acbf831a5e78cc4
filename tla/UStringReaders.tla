---------------------------- MODULE UStringReaders ----------------------------
(***************************************************************************)
(* The methods that only read a text put together: the walks from match to *)
(* match, and the reading by code points.  A text is all they share and    *)
(* neither changes it, so a behaviour is of the one kind or of the other.  *)
(***************************************************************************)
EXTENDS UTextWalk, UStringPoints

readerVars == <<vars, pointVars>>

\* A program that has no URegexp: one that matches nothing does as well.
WalkParked == Init /\ subject = << >> /\ ~Found(pattern[0])

ReadersInit ==
    \/ Init /\ PointsParked
    \/ WalkParked /\ PointsInit

ReadersNext ==
    \/ text = NoText /\ Next /\ UNCHANGED pointVars
    \/ text # NoText /\ PointsNext /\ UNCHANGED vars

\* A C loop that has begun runs on.
ReadersSpec ==
    /\ ReadersInit /\ [][ReadersNext]_readerVars
    /\ WF_readerVars(Step /\ UNCHANGED pointVars)
    /\ WF_readerVars(Unescape /\ UNCHANGED vars)
=============================================================================
