-------------------------- MODULE MCServiceLifecycle --------------------------
(* Three Steampipe processes that run one command each, one at a time: what *)
(* one leaves behind meets the next two.  Where the commands overlap, two   *)
(* are enough: the third one stays out.                                     *)
EXTENDS ServiceLifecycle, TLC

MCSymmetry == Permutations(Processes)
MCOverlapOfTwo == overlapped => \E p \in Processes : pc[p] = "idle"

\* What a process that has ended knew is never read again.
MCOver == {p \in Processes : pc[p] \in {"done", "failed", "crashed"}}
MCView ==
  <<dbVars, managerVars, connected, counting, pc, overlapped, survived, crashed,
    cut \ MCOver, uncounted \ MCOver,
    [p \in Processes \ MCOver |-> <<command[p], dbState[p], already[p], stopError[p]>>]>>
=============================================================================
