------------------------------ MODULE MCMemory ------------------------------
(***************************************************************************)
(* Module Memory with pages of four bytes, two slots, and the files of a    *)
(* small disk.                                                              *)
(***************************************************************************)
EXTENDS Memory

Page(n) == n * PAGING_PAGE_SIZE

Segment(type, vaddr, offset, filesz, memsz, write) ==
  [type |-> type, vaddr |-> vaddr, offset |-> offset, filesz |-> filesz, memsz |-> memsz,
   write |-> write]

Executable(phdrs) ==
  [exists |-> TRUE, signature |-> TRUE, class |-> ELFCLASS32, data |-> ELFDATA2LSB, phoff |-> 1,
   size |-> Page(1) + 3, phdrs |-> phdrs]

\* Data with a bss in the second page of the file, text in the first, and a header that loads nothing.
program == Executable(<<Segment(PT_LOAD, Page(5), Page(1), 1, 3, TRUE),
                        Segment(PT_LOAD, Page(4), 0, 4, 4, FALSE),
                        Segment(7, 0, 0, 0, 0, TRUE)>>)

\* Linked at address 0.
misplaced == Executable(<<Segment(PT_LOAD, 0, 0, 4, 4, FALSE)>>)

flat == [Executable(<<>>) EXCEPT !.signature = FALSE]

missing == [Executable(<<>>) EXCEPT !.exists = FALSE]

MCFile == {program, misplaced, flat, missing}
=============================================================================
