-------------------------------- MODULE ElfImage -------------------------------
(***************************************************************************)
(* From an input file to what the board or the emulator finds in memory:   *)
(* parse_elf_to_flat and flatten_input of commands.rs, then the three ways *)
(* an image is built: build_ddr_image (helper.rs) for --net-load,          *)
(* --mem-out and --emulate, and the wire format of run_elf2serial.         *)
(*                                                                         *)
(* Addresses are byte addresses.  Nothing here wraps: an ELF whose         *)
(* addresses reach 2^32 is outside this model.                             *)
(***************************************************************************)
EXTENDS Integers, Sequences, FiniteSets, FiniteSetsExt

CONSTANTS
  MaxSegmentGap,  \* MAX_SEGMENT_GAP, 4 MiB in the code
  Byte            \* what a byte may hold; 0 is the filler

ASSUME ElfImageAssumption ==
  /\ MaxSegmentGap \in Nat
  /\ 0 \in Byte

HEADER_BYTES == 32   \* HEAP_HEADER_WORDS * 8

Segment == [addr : Nat, bytes : Seq(Byte)]

(* What the code asks of a file: whether it has the ELF magic, its bytes   *)
(* if it has not, its segments, entry and _start symbols if it has.        *)
InputFile == [magic : BOOLEAN, bytes : Seq(Byte), segments : Seq(Segment),
              e_entry : Nat, start_symbols : Seq(Nat)]

NoOverride == -1

-----------------------------------------------------------------------------
(* The segments that have bytes in the file, by position.                  *)
Loadable(file) == {n \in 1..Len(file.segments) : file.segments[n].bytes # << >>}

(* sort_by_key is stable: segments at the same address keep their order.   *)
Precedes(file, m, n) ==
  LET s == file.segments[m]
      t == file.segments[n]
  IN  s.addr < t.addr \/ (s.addr = t.addr /\ m < n)

Rank(file, n) == Cardinality({m \in Loadable(file) : Precedes(file, m, n)})

ByAddress(file) ==
  [i \in 1..Cardinality(Loadable(file)) |->
     file.segments[CHOOSE n \in Loadable(file) : Rank(file, n) = i - 1]]

SegmentEnd(s) == s.addr + Len(s.bytes)
Covers(s, a) == a \in s.addr..(SegmentEnd(s) - 1)
Gap(s, t) == IF t.addr > SegmentEnd(s) THEN t.addr - SegmentEnd(s) ELSE 0

Adjoins(s, t) == Gap(s, t) <= MaxSegmentGap

(* The segments below the first gap that is too wide.                      *)
Cluster(file) ==
  LET sorted == ByAddress(file)
      joined == {n \in 1..Len(sorted) : \A i \in 2..n : Adjoins(sorted[i - 1], sorted[i])}
  IN  SubSeq(sorted, 1, Max(joined))

Base(file) == Cluster(file)[1].addr

(* The segments are copied in order of address into a buffer of zeros, a   *)
(* later one over an earlier one.                                          *)
FlatBytes(file) ==
  LET cluster == Cluster(file)
      base == cluster[1].addr
      end == Max({SegmentEnd(cluster[k]) : k \in DOMAIN cluster})
      ByteAt(a) ==
        LET covering == {k \in DOMAIN cluster : Covers(cluster[k], a)}
            last == cluster[Max(covering)]
        IN  IF covering = {} THEN 0 ELSE last.bytes[a - last.addr + 1]
  IN  [i \in 1..(end - base) |-> ByteAt(base + i - 1)]

ElfEntry(file) ==
  IF file.e_entry # 0 THEN file.e_entry
  ELSE IF file.start_symbols # << >> THEN file.start_symbols[1]
  ELSE Base(file)

(* Mutated form: the heap header is forgotten.                             *)
UnshiftedEntry(file) == ElfEntry(file) - Base(file)

(* saturating_sub: an entry below the base becomes the first byte.         *)
BoardEntry(file) ==
  HEADER_BYTES + IF ElfEntry(file) > Base(file) THEN ElfEntry(file) - Base(file) ELSE 0

CanFlatten(file) == file.magic => Loadable(file) # {}

Entry(file, override) ==
  IF override # NoOverride THEN override
  ELSE IF file.magic THEN BoardEntry(file) ELSE HEADER_BYTES

Payload(file) == IF file.magic THEN FlatBytes(file) ELSE file.bytes

-----------------------------------------------------------------------------
RoundUp(n, to) == ((n + to - 1) \div to) * to
PadTo(bytes, n) == bytes \o [i \in 1..(n - Len(bytes)) |-> 0]
PadWords(bytes) == PadTo(bytes, RoundUp(Len(bytes), 4))

(* build_ddr_image: an image is what follows the heap header and the       *)
(* heap_start in its first word.                                           *)
DdrImage(bytes) ==
  LET heap_start == RoundUp(HEADER_BYTES + Len(PadWords(bytes)), 8)
  IN  [heap_start |-> heap_start, bytes |-> PadTo(bytes, heap_start - HEADER_BYTES)]

(* Mutated form: heap_start is the end of the program, not aligned.        *)
WireHeapUnaligned(bytes) == HEADER_BYTES + Len(PadWords(bytes))

WireHeapStart(bytes) == RoundUp(HEADER_BYTES + Len(PadWords(bytes)), 8)

(* run_elf2serial: words are sent least significant byte first, in the     *)
(* order they have in memory; the image ends with the program.             *)
WireImage(bytes) ==
  [heap_start |-> WireHeapStart(bytes), bytes |-> PadWords(bytes)]

NetImage(file) == DdrImage(PadWords(Payload(file)))
RomImage(file) == DdrImage(PadWords(Payload(file)))
EmulatedImage(file) == DdrImage(Payload(file))
SerialImage(file) == WireImage(Payload(file))

-----------------------------------------------------------------------------
(* For the properties: the bytes an ELF file has at an address.            *)
Segments(file) == {file.segments[n] : n \in Loadable(file)}
Overlap(s, t) == s.addr < SegmentEnd(t) /\ t.addr < SegmentEnd(s)
NoOverlap(file) ==
  \A i, j \in 1..Len(file.segments) :
    i # j => ~Overlap(file.segments[i], file.segments[j])

(* No more than MaxSegmentGap addresses in a row below this one belong to  *)
(* no segment.                                                             *)
Reachable(file, a) ==
  LET segments == Segments(file)
      used(b) == \E s \in segments : Covers(s, b)
      lowest == Min({s.addr : s \in segments})
  IN  ~\E b \in lowest..(a - MaxSegmentGap - 1) :
         \A c \in b..(b + MaxSegmentGap) : ~used(c)

MemoryAt(image, a) ==
  IF a \in HEADER_BYTES..(HEADER_BYTES + Len(image.bytes) - 1)
  THEN image.bytes[a - HEADER_BYTES + 1] ELSE 0
================================================================================
