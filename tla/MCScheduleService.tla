-------------------------- MODULE MCScheduleService --------------------------
(* Constants of the model checking runs of ScheduleService. *)
EXTENDS ScheduleService, TLC

CONSTANTS t1, t2, q1

TwoTicks == {t1, t2}
OneRequest == {q1}
NoLimit == {Null}
OneOrNoLimit == {1, Null}
Never == {Null}
SoonOrNever == {1, Null}
Interchangeable == Permutations(TwoTicks)
=============================================================================
