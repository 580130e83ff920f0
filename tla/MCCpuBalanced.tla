----------------------------- MODULE MCCpuBalanced ----------------------------
(* CpuBalanced on small traces.                                            *)
EXTENDS CpuBalanced

CONSTANT
  ThreadComms   (* The names of threads other than the idle ones.          *)

(* swapper/N: renaming the CPUs renames their idle tasks with them.        *)
SwapperOfCpu == [c \in Cpus |-> <<"swapper", c>>]

AllComms == ThreadComms \cup {<<"swapper", c>> : c \in Cpus}

Symmetry == Permutations(Cpus) \cup Permutations(ThreadComms)
===============================================================================
