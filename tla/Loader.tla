------------------------------- MODULE Loader -------------------------------
(***************************************************************************)
(* The two ELF loaders: tools/elfloader.c fills the memory of the          *)
(* simulator, sim/elfloader.c (called by elfread of sim/sim_main.cpp) the  *)
(* two images the hardware simulation starts from.                         *)
(*                                                                         *)
(* A file has a kind and program headers; its bytes are numbered, so that  *)
(* the contents of a memory tell where in the file they came from.  Memory *)
(* nobody wrote holds CLEAR in the simulator (memset) and any value in the *)
(* images (malloc): HEAP.                                                  *)
(***************************************************************************)
EXTENDS Integers, Sequences

CONSTANTS MemSize,   \* bytes of each of the two memories
          FileSize   \* bytes of a file

ASSUME LoaderAssumption == MemSize \in Nat /\ FileSize \in Nat

Address == 0 .. 2 * MemSize - 1
CLEAR == -1
HEAP  == -2

\* The kinds of file: ELF for 32 bits, with the wrong class, with only one of the
\* two bytes of the magic number the loaders look at, something else, or none.
Kinds == {"elf32", "elf64", "half", "other", "missing"}
Segment(t, v, m, o) == [p_type |-> t, p_vaddr |-> v, p_memsz |-> m, p_offset |-> o]

\* fread(ptr, p_memsz, 1, fp) after fseek: the whole segment or nothing; a
\* segment of no bytes counts as nothing.
freads(s) == s.p_memsz > 0 /\ s.p_offset + s.p_memsz <= FileSize

\* Both loaders copy p_memsz bytes of the file, whatever p_filesz says.
Copied(mem, s) ==
  [a \in Address |-> IF a \in s.p_vaddr .. s.p_vaddr + s.p_memsz - 1
                     THEN s.p_offset + (a - s.p_vaddr) ELSE mem[a]]

\* A load ends with "okay", with "fail" (the loader returns 0 and its caller
\* exits with 1) or with "range" (exit(-1)).
Then(r, status)  == IF r.status = "okay" THEN [r EXCEPT !.status = status] ELSE r
Copy(r, s)       == IF r.status = "okay" THEN [r EXCEPT !.mem = Copied(@, s)] ELSE r

\* The simulator reads the segment, then writes it: srv32_write_mem refuses what
\* is not inside its one memory.
IssSegment(s, r) ==
  CASE s.p_type # "load" -> r
    [] s.p_type = "load" /\ ~freads(s) -> Then(r, "fail")
    [] s.p_type = "load" /\ freads(s) /\ s.p_vaddr + s.p_memsz > 2 * MemSize -> Then(r, "range")
    [] OTHER -> Copy(r, s)

\* Mutant: a segment that fills a memory to its end is refused.
SimSegment_short(s, r) ==
  LET end    == s.p_vaddr + s.p_memsz
      inside == end < MemSize \/ (s.p_vaddr >= MemSize /\ end < 2 * MemSize)
  IN  CASE s.p_type # "load" -> r
        [] s.p_type = "load" /\ ~inside -> Then(r, "range")
        [] s.p_type = "load" /\ inside /\ ~freads(s) -> Then(r, "fail")
        [] OTHER -> Copy(r, s)

\* The images: the segment must lie inside one of them, and is read in place.
SimSegment(s, r) ==
  LET end    == s.p_vaddr + s.p_memsz
      inside == end <= MemSize \/ (s.p_vaddr >= MemSize /\ end <= 2 * MemSize)
  IN  CASE s.p_type # "load" -> r
        [] s.p_type = "load" /\ ~inside -> Then(r, "range")
        [] s.p_type = "load" /\ inside /\ ~freads(s) -> Then(r, "fail")
        [] OTHER -> Copy(r, s)

Loaded(f, segment(_, _), initial) ==
  LET nothing == [status |-> "okay", mem |-> [a \in Address |-> initial]]
      after[n \in 0 .. Len(f.phdr)] ==
        IF n = 0 THEN nothing ELSE segment(f.phdr[n], after[n - 1])
  IN  CASE f.kind \in {"elf64", "other", "missing"} -> Then(nothing, "fail")
        [] f.phdr = << >> -> Then(nothing, "fail")      \* fread of no headers
        [] OTHER -> after[Len(f.phdr)]

IssLoad(f) == Loaded(f, IssSegment, CLEAR)
SimLoad(f) == Loaded(f, SimSegment, HEAP)

-----------------------------------------------------------------------------
\* The byte a file puts at an address: that of the last segment that covers it.
Covering(f, a) == {i \in DOMAIN f.phdr : /\ f.phdr[i].p_type = "load"
                                         /\ a \in f.phdr[i].p_vaddr
                                                    .. f.phdr[i].p_vaddr + f.phdr[i].p_memsz - 1}
ByteAt(f, a, default) ==
  IF Covering(f, a) = {} THEN default
  ELSE LET i == CHOOSE i \in Covering(f, a) : \A j \in Covering(f, a) : j <= i
       IN  f.phdr[i].p_offset + a - f.phdr[i].p_vaddr
=============================================================================
