----------------------------- MODULE Containers -----------------------------
(***************************************************************************)
(* The executable around the blob: an ELF64 file whose .bun section is the *)
(* last one the loader maps (elf.py), or a thin Mach-O with a __BUN        *)
(* segment (macho.py).  load_container tells them apart, read_blob takes   *)
(* the blob out and write_blob puts one of another size in its place.      *)
(*                                                                         *)
(* A file says where things are (headers) and, apart from it, where they   *)
(* lie (bodies): a rewrite that shifts one and not the other shows.        *)
(***************************************************************************)
EXTENDS BunBlob

PageArm64 == 16384
PageX86 == 4096

-----------------------------------------------------------------------------
(* ELF.  sections are headers [name, alloc, addr, off, size]; loads the    *)
(* PT_LOAD headers [vaddr, off, filesz, memsz]; bodies maps an offset of   *)
(* the file to the section whose bytes lie there, and table is where the   *)
(* section headers lie; shoff is where the file header says they are.      *)
Elf(file) == file.magic = "elf64"
Bun(file) == SelectInSeq(file.sections, LAMBDA s : s.name = ".bun")
BunSection(file) == file.sections[Bun(file)]

Maps(load, addr) == load.vaddr <= addr /\ addr < load.vaddr + load.memsz

(* from_bytes: the layouts that growing .bun in place would break.         *)
ElfLayoutError(file) ==
  \/ Bun(file) = 0
  \/ \E i \in DOMAIN file.sections :
       file.sections[i].off > BunSection(file).off /\ file.sections[i].alloc
  \/ \A i \in DOMAIN file.loads : ~Maps(file.loads[i], BunSection(file).addr)
  \/ \E i, j \in DOMAIN file.loads :
       /\ Maps(file.loads[i], BunSection(file).addr)
       /\ file.loads[j].vaddr > file.loads[i].vaddr

(* Faulty: .bun moves with what lies behind it.                            *)
MovedFrom(off, bun, delta) == IF off >= bun.off THEN off + delta ELSE off

(* What lies behind .bun moves by the difference of its sizes, and the     *)
(* segment that maps it grows by that.                                     *)
Moved(off, bun, delta) == IF off > bun.off THEN off + delta ELSE off
Shifted(part, bun, delta) == [part EXCEPT !.off = Moved(@, bun, delta)]
Grown(load, delta) == [load EXCEPT !.filesz = @ + delta, !.memsz = @ + delta]

WriteElf(file, image) ==
  LET bun == BunSection(file)
      delta == 8 + image.size - bun.size
  IN [file EXCEPT
        !.sections = [i \in DOMAIN @ |-> IF i = Bun(file) THEN [bun EXCEPT !.size = 8 + image.size]
                                         ELSE Shifted(@[i], bun, delta)],
        !.loads = [i \in DOMAIN @ |-> IF Maps(@[i], bun.addr) THEN Grown(@[i], delta)
                                      ELSE Shifted(@[i], bun, delta)],
        !.shoff = @ + delta,
        !.table = Moved(@, bun, delta),
        !.bodies = [o \in {Moved(o, bun, delta) : o \in DOMAIN @} |->
                      @[CHOOSE b \in DOMAIN @ : Moved(b, bun, delta) = o]],
        !.header = [bytes |-> 8, len |-> image.size],
        !.image = image]

-----------------------------------------------------------------------------
(* Mach-O.  The section carries a length of 4 bytes before Bun 1.3.4 and   *)
(* of 8 since.  Read as 8 bytes, a 4-byte length has the first characters  *)
(* of the blob in its upper half: no section is as long as that.           *)
DetectHeaderSize(file) ==
  IF file.header.bytes = 8 /\ 8 + file.header.len <= file.section THEN 8 ELSE 4

MachoLayoutError(file) == file.magic = "fat" \/ ~file.hasBun

PageOf(file) == IF file.arm64 THEN PageArm64 ELSE PageX86
RoundUp(n, page) == ((n + page - 1) \div page) * page

(* The signature goes, the segment grows by whole pages when the section   *)
(* does, and the ad-hoc signature of codesign covers the result.           *)
WriteMacho(file, image) ==
  LET content == DetectHeaderSize(file) + image.size
      diff == content - file.section
  IN [file EXCEPT !.segment = IF diff > 0 THEN @ + RoundUp(diff, PageOf(file)) ELSE @,
                  !.section = content,
                  !.header = [bytes |-> DetectHeaderSize(file), len |-> image.size],
                  !.signs = image,
                  !.image = image]

-----------------------------------------------------------------------------
(* What an executable is like that Bun wrote.  Sections lie where their    *)
(* headers say, what is behind .bun is behind all of it, .bun is inside    *)
(* the segment that maps its address, and its address is a page's.         *)
SoundElf(file) ==
  LET bun == BunSection(file)
  IN /\ DOMAIN file = {"magic", "sections", "loads", "shoff", "table", "bodies", "header", "image"}
     /\ IsSequence(file.sections) /\ Bun(file) # 0
     /\ \A i \in DOMAIN file.sections :
          LET s == file.sections[i]
          IN /\ DOMAIN s = {"name", "alloc", "addr", "off", "size"}
             /\ s.off \in DOMAIN file.bodies /\ file.bodies[s.off] = s.name
     /\ bun.addr \in Nat /\ bun.addr % 128 = 0 /\ bun.off \in Nat
     /\ bun.size \in Nat /\ 8 + file.image.size <= bun.size
     /\ \A o \in DOMAIN file.bodies \cup {file.table}
                   \cup {file.loads[i].off : i \in DOMAIN file.loads} :
          o \in Nat /\ (o > bun.off => o >= bun.off + bun.size)
     /\ file.shoff = file.table /\ file.table > bun.off
     /\ IsSequence(file.loads)
     /\ \A i \in DOMAIN file.loads :
          LET l == file.loads[i]
          IN /\ DOMAIN l = {"vaddr", "off", "filesz", "memsz"}
             /\ l.vaddr \in Nat /\ l.filesz \in Nat /\ l.memsz \in Nat
             /\ Maps(l, bun.addr) =>
                  /\ l.filesz <= l.memsz /\ bun.addr + bun.size <= l.vaddr + l.filesz
                  /\ bun.off - l.off = bun.addr - l.vaddr

SoundMacho(file) ==
  /\ DOMAIN file = {"magic", "hasBun", "arm64", "section", "segment", "header", "signs", "image"}
  /\ file.header.bytes \in {4, 8}
  /\ file.section \in Nat /\ file.segment \in Nat
  /\ file.header.bytes + file.image.size <= file.section /\ file.section <= file.segment

SoundFile(file) ==
  /\ file.header.len = file.image.size /\ SoundImage(file.image)
  /\ IF Elf(file) THEN SoundElf(file) ELSE SoundMacho(file)

-----------------------------------------------------------------------------
UnknownContainer(file) == file.magic \notin {"elf64", "fat", "macho"}

CannotLoad(file) ==
  \/ UnknownContainer(file)
  \/ Elf(file) /\ ElfLayoutError(file)
  \/ ~Elf(file) /\ ~UnknownContainer(file) /\ MachoLayoutError(file)

(* The bytes the length before the blob delimits.                          *)
ReadBlob(file) ==
  IF file.header.len = file.image.size THEN file.image ELSE [file.image EXCEPT !.size = 0]

WriteBlob(file, image) ==
  IF Elf(file) THEN WriteElf(file, image) ELSE WriteMacho(file, image)

(* parse_blob's own refusals: too small, or no trailer where it should be. *)
BunFormatError(image) == image.size < SizeofOffsets + SizeofTrailer
=============================================================================
