------------------------------ MODULE MCExecutor ------------------------------
(* An instance of Executor for TLC.                                        *)
EXTENDS Executor

Graph(cyclic, tasks_) == [cyclic |-> cyclic, logical_tasks |-> 2, tasks |-> tasks_]
SomeGraphs   == {Graph(FALSE, 1), Graph(TRUE, 1)}
SomeConfigs  == {<<2, TRUE>>, <<1, FALSE>>}
SomeMemory   == {<<<<"allocate_memory", 7, 64, 0>>, <<"lock_memory", 7>>,
                   <<"release_memory", 7>>>>}
=============================================================================
