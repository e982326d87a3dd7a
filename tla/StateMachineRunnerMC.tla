------------------------ MODULE StateMachineRunnerMC ------------------------
(***************************************************************************)
(* Instances of StateMachineRunner for TLC.                                *)
(***************************************************************************)
EXTENDS StateMachineRunner, TLC

CONSTANTS first, second, last, e, f

Transition(regexs, duration, time_out, synchro, next) ==
  [regexs |-> regexs, duration |-> duration, time_out |-> time_out,
   synchro |-> synchro, next |-> next]

\* The first state waits for two events in any order, or for a while; the second
\* returns to the first on a synchronisation, gives up after a while, and ends the
\* machine on the other event.
MCTransitions ==
  first :> << Transition(<< {e}, {f} >>, Never, Never, FALSE, second),
              Transition(<< >>, 1, Never, FALSE, second) >> @@
  second :> << Transition(<< {e} >>, Never, 1, TRUE, first),
               Transition(<< {f} >>, Never, Never, FALSE, last) >> @@
  last :> << >>
=============================================================================
