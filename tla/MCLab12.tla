------------------------------- MODULE MCLab12 -------------------------------
(* Lab12Driver for TLC: the quanta and the work slice of lab12.cpp. *)
EXTENDS Lab12Driver

\* DEFAULT_QUANTUM, kRoundRobinQuantumMs and kExtendedQuantumMs; kCpuWorkMs.
MCQuanta == {300, 333, 2000}
MCWorkSlices == {720}
=============================================================================
