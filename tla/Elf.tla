--------------------------------- MODULE Elf --------------------------------
(***************************************************************************)
(* The ELF loader of src/src/loader/formats/elfloader.c.  A file is a record *)
(* of what the loader looks at: whether it exists, its size, the identity   *)
(* bytes and the program headers.                                           *)
(***************************************************************************)
EXTENDS KernelHeap, Sequences

CONSTANT ElfFileSize      \* sizeof(struct elf_file)

ELFCLASSNONE == 0
ELFCLASS32 == 1
ELFDATANONE == 0
ELFDATA2LSB == 1
PT_LOAD == 1

elf_valid_signature(file) == file.signature
elf_valid_class(file) == file.class \in {ELFCLASSNONE, ELFCLASS32}
elf_valid_encoding(file) == file.data \in {ELFDATANONE, ELFDATA2LSB}
elf_has_program_header(file) == file.phoff # 0

elf_validate_loaded(file) ==
  /\ elf_valid_signature(file) /\ elf_valid_class(file)
  /\ elf_valid_encoding(file) /\ elf_has_program_header(file)

\* The lowest and highest addresses so far; 0 stands for none yet.
elf_process_phdr_pt_load(e, phdr) ==
  LET low  == e.vbase >= phdr.vaddr \/ e.vbase = 0
      end  == phdr.vaddr + phdr.filesz
      high == e.vend <= end \/ e.vend = 0
  IN  [vbase |-> IF low THEN phdr.vaddr ELSE e.vbase,
       pbase |-> IF low THEN e.memory + phdr.offset ELSE e.pbase,
       vend  |-> IF high THEN end ELSE e.vend,
       pend  |-> IF high THEN e.memory + phdr.offset + phdr.filesz ELSE e.pend,
       memory |-> e.memory]

elf_process_pheader(e, phdr) ==
  IF phdr.type = PT_LOAD THEN elf_process_phdr_pt_load(e, phdr) ELSE e

elf_process_pheaders(e, phdrs) ==
  LET after[i \in 0 .. Len(phdrs)] ==
        IF i = 0 THEN e ELSE elf_process_pheader(after[i - 1], phdrs[i])
  IN  after[Len(phdrs)]

NoElf == [vbase |-> 0, pbase |-> 0, vend |-> 0, pend |-> 0, memory |-> NULL]

elf_phdr_phys_address(e, phdr) == e.memory + phdr.offset

\* The file has been read to m, its struct elf_file is at s.
Validated(file, s, m) ==
  LET e == [NoElf EXCEPT !.memory = m.ptr]
  IN  IF s.ptr = NULL \/ m.ptr = NULL THEN [res |-> "undefined", t |-> s.t]
      ELSE IF ~elf_validate_loaded(file) THEN [res |-> "EINFORMAT", t |-> m.t]
      ELSE [res |-> "OK", t |-> m.t, elf |-> s.ptr, e |-> elf_process_pheaders(e, file.phdrs)]

LoadFile(file, s) ==
  IF ~file.exists THEN [res |-> "EIO", t |-> s.t]
  ELSE Validated(file, s, kzalloc(s.t, file.size))

(* The outcome, the heap, the address of the elf_file and its contents.     *)
(* What was allocated before a failure is not given back.  Neither of the   *)
(* two allocations is checked: without memory the loader writes through a   *)
(* null pointer, and what follows is undefined.                             *)
elf_load(t, file) == LoadFile(file, kzalloc(t, ElfFileSize))

elf_close(t, elf, e) == kfree(kfree(t, e.memory), elf)
=============================================================================
