---------------------- MODULE MCSchedulingStateMachine ----------------------
(* SchedulingStateMachine for TLC: three tasks that lock one or two          *)
(* addresses in every way.                                                  *)
EXTENDS SchedulingStateMachine

CONSTANTS a1, a2

MCUsages == [t \in Task |->
    {f \in [Addr -> Usage] : \E a \in Addr : f[a] # "Unused"}]
=============================================================================
