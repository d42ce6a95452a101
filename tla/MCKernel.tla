------------------------------ MODULE MCKernel -----------------------------
(* The kernel with its own threads and sizes.                              *)
EXTENDS Kernel

MCEntries == <<"thread_a", "thread_b", "thread_c", "thread_d">>
MCWork == [thread_a |-> 64, thread_b |-> 128, thread_c |-> 0, thread_d |-> 0]
=============================================================================
