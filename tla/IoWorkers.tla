----------------------------- MODULE IoWorkers ------------------------------
(***************************************************************************)
(* The IO worker threads: a fixed number of them, started once             *)
(* (IocpManager::StartIoThreads).                                          *)
(***************************************************************************)
EXTENDS FiniteSets

CONSTANT Workers

ASSUME WorkersAssumption == IsFiniteSet(Workers)
=============================================================================
