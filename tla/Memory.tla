------------------------------- MODULE Memory -------------------------------
(***************************************************************************)
(* The memory of the processes: what process.c, task.c and the loader take  *)
(* from the kernel heap and map into page tables, and what they give back.  *)
(* Every handler runs with interrupts off and is one step; any live process *)
(* may be the one on the CPU and any the one with the focus.                *)
(*                                                                          *)
(* Heap, page tables, loader and the bookkeeping of allocations are         *)
(* composed here; which task runs next is the matter of module Process.     *)
(***************************************************************************)
EXTENDS Elf, FiniteSets, TLC

CONSTANTS TOYOS_MAX_PROCESSES,
          TOYOS_MAX_PROGRAM_ALLOCATIONS,
          TOYOS_PROGRAM_VIRTUAL_ADDRESS,
          TOYOS_PROGRAM_VIRTUAL_STACK_ADDRESS_END,
          TOYOS_USER_PROGRAM_STACK_SIZE,
          ProcessSize, TaskSize, \* sizeof(struct process), sizeof(struct task)
          DirectorySize,         \* a page directory with its tables
          ArgumentSize,          \* sizeof(command_argument.argument)
          PointerSize,           \* sizeof(char *)
          InfoSize,              \* the array of struct process_info
          TOYOS_MAX_PATH,
          Size,                  \* the sizes that programs ask for
          File,                  \* the files of the disk
          Shell,                 \* 0:/shell.elf
          NoProcess,             \* a free slot
          MaxArguments,          \* the words of the longest command
          MaxLost                \* bound: no call is followed once more blocks are lost

\* A request of size 0 gets an address that is not allocated: see the README.
ASSUME SizeAssumption == \A n \in Size \cup {ProcessSize, TaskSize, DirectorySize, InfoSize,
                                             ElfFileSize, ArgumentSize, PointerSize,
                                             TOYOS_USER_PROGRAM_STACK_SIZE, TOYOS_MAX_PATH} :
                           n \in Nat \ {0}

(* The segments of an executable, bss included, lie inside the blocks that  *)
(* hold its file: the linker puts symbol tables behind them.                *)
ASSUME FileAssumption ==
  /\ Shell \in File
  /\ \A f \in File : f.exists => /\ f.size > 0
                                 /\ \A i \in 1 .. Len(f.phdrs) :
                                      f.phdrs[i].offset + f.phdrs[i].memsz
                                        <= total_blocks(f.size) * BlockSize

VARIABLES table,      \* the block table of the kernel heap
          processes,  \* processes[] with the task and the page tables of each
          undefined   \* the kernel went through a null pointer

vars == <<table, processes, undefined>>

Slot == 0 .. TOYOS_MAX_PROCESSES - 1
Index == 1 .. TOYOS_MAX_PROGRAM_ALLOCATIONS
NoAllocation == [ptr |-> NULL, size |-> 0]

Live == {s \in Slot : processes[s] # NoProcess}

USER == {"IS_PRESENT", "ACCESS_FROM_ALL"}
USER_WRITES == USER \cup {"IS_WRITEABLE"}
-----------------------------------------------------------------------------
(* Allocations of a program.  p is the record of a process, and the answers *)
(* are the heap and the process afterwards.                                 *)

process_find_free_allocation_index(p) == {i \in Index : p.allocations[i].ptr = NULL}

process_malloc(t, p, size) ==
  LET a    == kzalloc(t, size)
      free == process_find_free_allocation_index(p)
      map  == paging_map_to(p.dir, a.ptr, a.ptr, paging_align_address(a.ptr + size), USER_WRITES)
  IN  IF a.ptr = NULL THEN [t |-> t, p |-> p, ptr |-> NULL]
      ELSE IF free = {} THEN [t |-> kfree(a.t, a.ptr), p |-> p, ptr |-> NULL]
      ELSE IF ~map.ok THEN [t |-> kfree(a.t, a.ptr), p |-> [p EXCEPT !.dir = map.dir], ptr |-> NULL]
      ELSE LET i == CHOOSE i \in free : \A j \in free : i <= j
           IN  [t |-> a.t, ptr |-> a.ptr,
                p |-> [p EXCEPT !.dir = map.dir,
                                !.allocations[i] = [ptr |-> a.ptr, size |-> size]]]

process_get_allocation_by_addr(p, addr) == {i \in Index : p.allocations[i].ptr = addr}

process_allocation_unjoin(p, ptr) ==
  [p EXCEPT !.allocations = [i \in Index |-> IF @[i].ptr = ptr THEN NoAllocation ELSE @[i]]]

\* Mutant: the address is not looked up among the process's own.
process_free_any(t, p, ptr) == [t |-> kfree(t, ptr), p |-> process_allocation_unjoin(p, ptr)]

(* The first record of the address.  NULL is the address of every record    *)
(* that is not in use: no page is unmapped, and the heap is asked to free   *)
(* NULL.                                                                    *)
process_free(t, p, ptr) ==
  LET mine == process_get_allocation_by_addr(p, ptr)
  IN  IF mine = {} THEN [t |-> t, p |-> p]
      ELSE LET i   == CHOOSE i \in mine : \A j \in mine : i <= j
               map == paging_map_to(p.dir, ptr, ptr,
                                    paging_align_address(ptr + p.allocations[i].size), {})
           IN  IF ~map.ok THEN [t |-> t, p |-> [p EXCEPT !.dir = map.dir]]
               ELSE [t |-> kfree(t, ptr),
                     p |-> process_allocation_unjoin([p EXCEPT !.dir = map.dir], ptr)]

process_terminate_allocations(t, p) ==
  LET after[i \in 0 .. TOYOS_MAX_PROGRAM_ALLOCATIONS] ==
        IF i = 0 THEN [t |-> t, p |-> p]
        ELSE process_free(after[i - 1].t, after[i - 1].p, after[i - 1].p.allocations[i].ptr)
  IN  after[TOYOS_MAX_PROGRAM_ALLOCATIONS].t
-----------------------------------------------------------------------------
\* Loading.  An answer has the outcome and the heap, and the process on success.

\* The data of a flat binary; p.filetype tells which member of the union is in use.
process_load_binary(t, file) ==
  LET m == kzalloc(t, file.size)
  IN  IF ~file.exists THEN [res |-> "EIO", t |-> t]
      ELSE IF m.ptr = NULL THEN [res |-> "ENOMEM", t |-> t]
      ELSE [res |-> "OK", t |-> m.t, filetype |-> "BINARY", elf |-> NULL,
            e |-> [NoElf EXCEPT !.memory = m.ptr]]

process_load_elf(t, file) == [filetype |-> "ELF"] @@ elf_load(t, file)

\* A file that is not ELF, as l answers, is loaded again as a flat binary.
OrBinary(l, file) == IF l.res = "EINFORMAT" THEN process_load_binary(l.t, file) ELSE l

process_load_data(t, file) == OrBinary(process_load_elf(t, file), file)

process_map_binary(p) ==
  paging_map_to(p.dir, TOYOS_PROGRAM_VIRTUAL_ADDRESS, p.e.memory,
                paging_align_address(p.e.memory + p.file.size), USER_WRITES)

\* Mutant: the end of the segment is counted from the start of its page.
process_map_segment_short(p, dir, phdr) ==
  LET phys == elf_phdr_phys_address(p.e, phdr)
  IN  paging_map_to(dir, paging_align_to_lower_page(phdr.vaddr), paging_align_to_lower_page(phys),
                    paging_align_to_lower_page(phys + phdr.memsz),
                    IF phdr.write THEN USER_WRITES ELSE USER)

process_map_segment(p, dir, phdr) ==
  LET phys == elf_phdr_phys_address(p.e, phdr)
  IN  paging_map_to(dir, paging_align_to_lower_page(phdr.vaddr), paging_align_to_lower_page(phys),
                    paging_align_address(phys + phdr.memsz),
                    IF phdr.write THEN USER_WRITES ELSE USER)

\* Every header, also of a segment that is not PT_LOAD; up to the first that fails.
process_map_elf(p) ==
  LET after[i \in 0 .. Len(p.file.phdrs)] ==
        IF i = 0 THEN Done(p.dir)
        ELSE IF after[i - 1].ok THEN process_map_segment(p, after[i - 1].dir, p.file.phdrs[i])
        ELSE after[i - 1]
  IN  after[Len(p.file.phdrs)]

process_map_memory(p) ==
  LET image == IF p.filetype = "ELF" THEN process_map_elf(p) ELSE process_map_binary(p)
  IN  IF ~image.ok THEN image
      ELSE paging_map_to(image.dir, TOYOS_PROGRAM_VIRTUAL_STACK_ADDRESS_END, p.stack,
                         paging_align_address(p.stack + TOYOS_USER_PROGRAM_STACK_SIZE),
                         USER_WRITES)

\* task_init, for the task at k
WithDirectory(k) ==
  LET d == kzalloc(k.t, DirectorySize)
  IN  [ok |-> k.ptr # NULL /\ d.ptr # NULL, t |-> d.t, task |-> k.ptr, directory |-> d.ptr,
       dir |-> paging_new_4gb(USER)]

(* task_new and task_init: the task and its page tables.  Without memory    *)
(* for the tables task_init writes through a null pointer, and without      *)
(* memory for the task process_load_for_slot goes on with an error code as  *)
(* the task's address.                                                      *)
task_new(t) == WithDirectory(kzalloc(t, TaskSize))

paging_free_4gb(t, p) == kfree(t, p.directory)
task_free(t, p) == kfree(paging_free_4gb(t, p), p.task)

(* process_load_for_slot, one operator for each of its steps: the process   *)
(* at a, the data d of its file, the stack at s, the task k.  On failure    *)
(* the process and the stack are freed, whether they were allocated or not; *)
(* the data of the file is not.                                             *)
LoadFails(res, t, a, stack) == [res |-> res, t |-> kfree(kfree(t, a.ptr), stack)]

Mapped(p, t, a, map) ==
  IF map.ok THEN [res |-> "OK", t |-> t, p |-> [p EXCEPT !.dir = map.dir]]
  ELSE LoadFails("EINVARG", task_free(t, p), a, p.stack)

WithTask(file, a, d, s, k) ==
  LET p == [file |-> file, struct |-> a.ptr, filetype |-> d.filetype, elf |-> d.elf, e |-> d.e,
            stack |-> s.ptr, task |-> k.task, directory |-> k.directory, dir |-> k.dir,
            allocations |-> [i \in Index |-> NoAllocation]]
  IN  IF ~k.ok THEN [res |-> "undefined", t |-> k.t] ELSE Mapped(p, k.t, a, process_map_memory(p))

WithStack(file, a, d, s) ==
  IF s.ptr = NULL THEN LoadFails("ENOMEM", d.t, a, NULL)
  ELSE WithTask(file, a, d, s, task_new(s.t))

WithData(file, a, d) ==
  IF d.res = "undefined" THEN d
  ELSE IF d.res # "OK" THEN LoadFails(d.res, d.t, a, NULL)
  ELSE WithStack(file, a, d, kzalloc(d.t, TOYOS_USER_PROGRAM_STACK_SIZE))

WithProcess(t, file, a) ==
  IF a.ptr = NULL THEN LoadFails("ENOMEM", t, a, NULL)
  ELSE WithData(file, a, process_load_data(a.t, file))

process_load_for_slot(t, file) == WithProcess(t, file, kzalloc(t, ProcessSize))

process_free_program_data(t, p) ==
  IF p.filetype = "BINARY" THEN kfree(t, p.e.memory) ELSE elf_close(t, p.elf, p.e)

\* Mutant: the stack is forgotten.
process_terminate_no_stack(t, p) ==
  task_free(process_free_program_data(process_terminate_allocations(t, p), p), p)

\* The heap after p is gone.  The struct process itself stays allocated.
process_terminate(t, p) ==
  task_free(kfree(process_free_program_data(process_terminate_allocations(t, p), p), p.stack), p)

\* An array of argc pointers, then a copy of each argument; what was allocated stays on failure.
process_inject_arguments(t, p, argc) ==
  LET after[i \in 0 .. argc] ==
        IF i = 0 THEN process_malloc(t, p, argc * PointerSize)
        ELSE IF after[i - 1].ptr = NULL THEN after[i - 1]
        ELSE process_malloc(after[i - 1].t, after[i - 1].p, ArgumentSize)
  IN  IF argc = 0 THEN [t |-> t, p |-> p] ELSE after[argc]

\* The allocations of the child: one of the same size for each of the parent's, where memory lasts.
CopyAllocations(t, child, parent) ==
  LET after[i \in 0 .. TOYOS_MAX_PROGRAM_ALLOCATIONS] ==
        IF i = 0 THEN [t |-> t, p |-> child]
        ELSE IF parent.allocations[i].ptr = NULL THEN after[i - 1]
        ELSE LET m == process_malloc(after[i - 1].t, after[i - 1].p, parent.allocations[i].size)
             IN  [t |-> m.t, p |-> m.p]
  IN  after[TOYOS_MAX_PROGRAM_ALLOCATIONS]

\* Mutant: the page of the temporary buffer stays mapped.
copy_string_from_task_mapped(t, p) ==
  LET tmp == kzalloc(t, TOYOS_MAX_PATH)
      map == paging_map(p.dir, tmp.ptr, tmp.ptr, USER_WRITES)
  IN  IF tmp.ptr = NULL THEN [ok |-> FALSE, t |-> t, p |-> p]
      ELSE [ok |-> map.ok, t |-> kfree(tmp.t, tmp.ptr), p |-> [p EXCEPT !.dir = map.dir]]

(* The temporary buffer is mapped into the task for the copy, then the old  *)
(* entry is put back and the buffer freed.                                  *)
copy_string_from_task(t, p) ==
  LET tmp == kzalloc(t, TOYOS_MAX_PATH)
      old == paging_get(p.dir, tmp.ptr)
      map == paging_map(p.dir, tmp.ptr, tmp.ptr, USER_WRITES)
      set == paging_set(map.dir, tmp.ptr, old)
  IN  IF tmp.ptr = NULL THEN [ok |-> FALSE, t |-> t, p |-> p]
      ELSE [ok |-> set.ok, t |-> kfree(tmp.t, tmp.ptr), p |-> [p EXCEPT !.dir = set.dir]]
-----------------------------------------------------------------------------
\* What a process has on the heap.
Run(what, ptr, size) == [what |-> what, ptr |-> ptr, size |-> size]
UserRuns(p) ==
  {Run("image", p.e.memory, p.file.size), Run("stack", p.stack, TOYOS_USER_PROGRAM_STACK_SIZE)}
    \cup {Run(i, p.allocations[i].ptr, p.allocations[i].size)
          : i \in {j \in Index : p.allocations[j].ptr # NULL}}
KernelRuns(p) ==
  {Run("struct", p.struct, ProcessSize), Run("task", p.task, TaskSize),
   Run("directory", p.directory, DirectorySize)}
    \cup (IF p.filetype = "ELF" THEN {Run("elf", p.elf, ElfFileSize)} ELSE {})

Blocks(r) == LET b == heap_address_to_block(r.ptr) IN b .. b + total_blocks(r.size) - 1
BlocksOf(runs) == UNION {Blocks(r) : r \in runs}
Held(p) == BlocksOf(UserRuns(p) \cup KernelRuns(p))

\* The blocks that are allocated to no live process.
Lost == {i \in Block : table[i] # FREE} \ UNION {Held(processes[s]) : s \in Live}

-----------------------------------------------------------------------------
(* The handlers.  s is the slot of the process on the CPU.                  *)

\* Only process s and the heap change.
Update(s, r) == /\ table' = r.t
                /\ processes' = [processes EXCEPT ![s] = r.p]
                /\ UNCHANGED undefined

sys_command4_malloc(s, size) == Update(s, process_malloc(table, processes[s], size))

sys_command5_free(s, ptr) == Update(s, process_free(table, processes[s], ptr))

sys_command11_get_processes(s) == Update(s, process_malloc(table, processes[s], InfoSize))

sys_command1_print(s) == Update(s, copy_string_from_task(table, processes[s]))

process_get_free_slot == {i \in Slot : processes[i] = NoProcess /\ \A j \in 0 .. i - 1 : j \in Live}

\* The new process l.p of a load that succeeded goes into its slot; all are the processes so far.
Install(l, all) ==
  \/ /\ l.res = "OK"
     /\ table' = l.t
     /\ \E i \in process_get_free_slot : processes' = [all EXCEPT ![i] = l.p]
     /\ UNCHANGED undefined
  \/ /\ l.res = "undefined"
     /\ undefined' = TRUE
     /\ UNCHANGED <<table, processes>>
  \/ /\ l.res \notin {"OK", "undefined"}
     /\ table' = l.t
     /\ processes' = all
     /\ UNCHANGED undefined

\* process_load: without a free slot nothing is tried.
process_load(t, file) ==
  IF process_get_free_slot = {} THEN [res |-> "EISTKN", t |-> t]
  ELSE process_load_for_slot(t, file)

(* The file name is copied first.  The path it is appended to is not        *)
(* initialised: any file, or none, may be the one that is loaded.           *)
sys_command6_process_load_start(s, file) ==
  LET c == copy_string_from_task(table, processes[s])
  IN  Install(IF c.ok THEN process_load(c.t, file) ELSE [res |-> "ENOMEM", t |-> c.t],
              [processes EXCEPT ![s] = c.p])

\* When the arguments cannot be injected the new process stays all the same.
WithArguments(l, argc) ==
  IF l.res = "OK" THEN [res |-> "OK"] @@ process_inject_arguments(l.t, l.p, argc) ELSE l

sys_command9_invoke_system_command(file, argc) ==
  Install(WithArguments(process_load(table, file), argc), processes)

\* process_fork: f has the focus, its file and its allocations are copied.
WithCopies(l, parent) ==
  IF l.res = "OK" THEN [res |-> "OK"] @@ CopyAllocations(l.t, l.p, parent) ELSE l

sys_command14_fork(f) ==
  Install(WithCopies(process_load(table, processes[f].file), processes[f]), processes)

Terminate(s) == /\ table' = process_terminate(table, processes[s])
                /\ processes' = [processes EXCEPT ![s] = NoProcess]
                /\ UNCHANGED undefined

\* Also an exception of the process s.
sys_command7_process_exit(s) == Terminate(s)

sys_command15_kill(pid) == pid # 0 /\ Terminate(pid)

\* The panic of a kernel without processes, whatever follows a null pointer, and the bound.
Followed == ~undefined /\ Live # {} /\ Cardinality(Lost) <= MaxLost
Stopped == ~Followed /\ UNCHANGED vars

\* The addresses that a program knows: its own and those it was told of.
Pointers == {NULL} \cup UNION {{processes[s].allocations[i].ptr : i \in Index} : s \in Live}

Call(s) == \/ \E size \in Size : sys_command4_malloc(s, size)
           \/ \E ptr \in Pointers : sys_command5_free(s, ptr)
           \/ sys_command1_print(s)
           \/ \E file \in File : sys_command6_process_load_start(s, file)
           \/ \E file \in File, argc \in 1 .. MaxArguments :
                sys_command9_invoke_system_command(file, argc)
           \/ sys_command11_get_processes(s)
           \/ sys_command7_process_exit(s)
           \/ sys_command14_fork(s)
           \/ sys_command15_kill(s)

\* maink loads the shell into slot 0.
Booted(l) == /\ l.res = "OK"
             /\ table = l.t
             /\ processes = [s \in Slot |-> IF s = 0 THEN l.p ELSE NoProcess]
             /\ undefined = FALSE

Init == \E t \in kheap_init : Booted(process_load_for_slot(t, Shell))

Next == (Followed /\ \E s \in Live : Call(s)) \/ Stopped

Spec == Init /\ [][Next]_vars
-----------------------------------------------------------------------------
TypeOK ==
  /\ table \in [Below \cup Block -> SUBSET BlockFlag]
  /\ undefined \in BOOLEAN
  /\ \A s \in Live : LET p == processes[s] IN
       /\ p.file \in File
       /\ {p.struct, p.e.memory, p.stack, p.task, p.directory} \subseteq Address \ {NULL}
       /\ \A i \in Entries, j \in Entries : /\ p.dir[i][j].phys \in Address
                                            /\ paging_is_aligned(p.dir[i][j].phys)
                                            /\ p.dir[i][j].flags \subseteq Flag

(* Whatever a live process has on the heap is allocated to it, in whole and *)
(* to nobody else.  This takes every free in the right place and none too   *)
(* many, those of NULL included, which processes with unused records make   *)
(* in numbers when they end.                                                *)
HeldIsAllocated ==
  /\ TypeOK
  /\ \A s \in Live : LET runs == UserRuns(processes[s]) \cup KernelRuns(processes[s]) IN
       /\ \A r \in runs : \A i \in Blocks(r) :
            table[i] = TakenFlags(heap_address_to_block(r.ptr), total_blocks(r.size), i)
       /\ \A r, q \in runs : r # q => Blocks(r) \cap Blocks(q) = {}
  /\ \A s, u \in Live : s # u => Held(processes[s]) \cap Held(processes[u]) = {}

(* A page that a process may write is a page of its own image, stack or     *)
(* allocations: never one that was freed or belongs to the kernel or to     *)
(* another process.                                                         *)
WritablePagesOwned ==
  \A s \in Live : LET own == BlocksOf(UserRuns(processes[s])) IN
    \A i \in Entries, j \in Entries : LET e == processes[s].dir[i][j] IN
      "IS_WRITEABLE" \in e.flags => heap_address_to_block(e.phys) \in own

\* Address virt of the process leads to phys, and it may write there when write.
Reaches(p, virt, phys, write) ==
  /\ paging_get_physical_address(p.dir, virt) = phys
  /\ (IF write THEN USER_WRITES ELSE USER)
       \subseteq paging_get(p.dir, paging_align_to_lower_page(virt)).flags

(* Every byte of the stack, of the allocations and of the image is where    *)
(* the program expects it.                                                  *)
ImageStackAndHeapMapped ==
  \A s \in Live : LET p == processes[s] IN
    /\ \A o \in 0 .. TOYOS_USER_PROGRAM_STACK_SIZE - 1 :
         Reaches(p, TOYOS_PROGRAM_VIRTUAL_STACK_ADDRESS_END + o, p.stack + o, TRUE)
    /\ \A i \in Index : \A o \in 0 .. p.allocations[i].size - 1 :
         Reaches(p, p.allocations[i].ptr + o, p.allocations[i].ptr + o, TRUE)
    /\ p.filetype = "BINARY" =>
         \A o \in 0 .. p.file.size - 1 :
           Reaches(p, TOYOS_PROGRAM_VIRTUAL_ADDRESS + o, p.e.memory + o, TRUE)
    /\ p.filetype = "ELF" =>
         \A k \in 1 .. Len(p.file.phdrs) : LET h == p.file.phdrs[k] IN
           \A o \in 0 .. h.memsz - 1 : Reaches(p, h.vaddr + o, p.e.memory + h.offset + o, h.write)

(* The bounds that the loader notes of an image are those of its loadable   *)
(* segments, whatever their order.                                          *)
BoundsOfImage ==
  \A s \in Live : LET p == processes[s]
                      loads == {p.file.phdrs[k] : k \in 1 .. Len(p.file.phdrs)}
                      L == {h \in loads : h.type = PT_LOAD}
                  IN  p.filetype = "ELF" /\ L # {} =>
                        /\ \E h \in L : /\ p.e.vbase = h.vaddr /\ p.e.pbase = p.e.memory + h.offset
                                        /\ \A g \in L : h.vaddr <= g.vaddr
                        /\ \E h \in L : /\ p.e.vend = h.vaddr + h.filesz
                                        /\ p.e.pend = p.e.memory + h.offset + h.filesz
                                        /\ \A g \in L : g.vaddr + g.filesz <= p.e.vend

(* The kernel returns to a program through its task and its page tables,    *)
(* which it reads when the program's own directory is loaded already        *)
(* (paging_switch, task_return).  They are visible there, whatever the      *)
(* program has freed: process_free leaves pages that are not present.       *)
KernelSeesTask ==
  \A s \in Live : LET p == processes[s] IN
    \A r \in {q \in KernelRuns(p) : q.what \in {"task", "directory"}} :
      \A o \in 0 .. r.size - 1 : Reaches(p, r.ptr + o, r.ptr + o, FALSE)

(* The memory of every process is in place: its own bytes where it expects  *)
(* them, the bounds of its image, and what the kernel needs under its page  *)
(* tables.                                                                  *)
OwnMemoryMapped == ImageStackAndHeapMapped /\ BoundsOfImage /\ KernelSeesTask

\* A program is not loaded, or its file is loaded twice.
LoadLoses ==
  /\ \E s \in Live : \/ \E file \in File : \/ sys_command6_process_load_start(s, file)
                                           \/ \E argc \in 1 .. MaxArguments :
                                                sys_command9_invoke_system_command(file, argc)
                     \/ sys_command14_fork(s)
  /\ Live' = Live \/ \E s \in Live' \ Live : processes'[s].filetype = "BINARY"

(* Memory is lost in two ways only: a process that ends leaves its struct   *)
(* process behind and nothing else, and a load that fails or that falls     *)
(* back to a flat binary leaves what the ELF loader had allocated.          *)
OnlyTheseLose ==
  [][\/ Lost' = Lost
     \/ \E s \in Live \ Live' :
          Lost' = Lost \cup Blocks(Run("struct", processes[s].struct, ProcessSize))
     \/ LoadLoses /\ Lost \subseteq Lost']_vars
=============================================================================
