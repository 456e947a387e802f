------------------------------ MODULE MCMemory ------------------------------
(***************************************************************************)
(* Workloads for Memory.                                                   *)
(***************************************************************************)
EXTENDS Memory

Load(calls) ==
  [calls |-> calls, frames |-> 6, heap |-> HEAP_BASE, grow |-> 1, area |-> 2, len |-> 2,
   tables |-> 2, mappers |-> Tasks]

MCLoads ==
  { [Load({"mmap", "munmap", "fixed", "mprotect", "exec"}) EXCEPT !.area = 3],
    [Load({"mmap", "munmap", "brk", "fork", "exec", "exit"}) EXCEPT !.frames = 6, !.heap = 5, !.grow = 2, !.area = 1],
    Load({"mmap", "munmap", "fork", "exec", "exit"}),
    [Load({"mmap", "munmap", "fixed", "mprotect none", "fork", "exec", "exit"}) EXCEPT !.frames = 5],
    [Load({"munmap", "memfd", "truncate", "shared", "fork", "exec", "exit"}) EXCEPT !.len = 1],
    [Load({"mmap", "munmap", "fixed", "memfd", "truncate", "shared"}) EXCEPT !.frames = 5],
    [Load({"mmap", "munmap", "clone", "memfd", "truncate", "exit"}) EXCEPT !.frames = 4, !.mappers = {1}],
    [Load({"fork", "spawn", "memfd", "truncate", "exit"})
       EXCEPT !.frames = 12, !.tables = 3, !.area = 1] }

ThreadLoads == {Load({"mmap", "clone"})}
=============================================================================
