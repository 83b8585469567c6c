---------------------------- MODULE MCWorkWindows ----------------------------
(***************************************************************************)
(* Two windows that compete for resources over three seconds, one of which *)
(* is halved.  Ids are shared between the kinds of resource, as the rowids *)
(* of different tables are.                                                *)
(***************************************************************************)
EXTENDS WorkWindows

At(s, f) == [sec |-> s, frac |-> f]

MCInstants == { At(0, 0), At(1, 0), At(1, 5), At(2, 0), At(3, 0) }

\* Person 1 loses the qualification at the end of the horizon.
MCQualifications ==
    { [person |-> 1, kind |-> "calibration", from |-> At(0, 0), to |-> At(3, 0)],
      [person |-> 2, kind |-> "calibration", from |-> At(0, 0), to |-> At(9, 0)] }

\* Tool 2's calibration is due before the last instant; tool 3 is disabled.
MCToolActive == [t \in Tool |-> t # 3]
MCCalibrationDue == [t \in Tool |-> IF t = 2 THEN At(2, 0) ELSE At(9, 0)]

=============================================================================
