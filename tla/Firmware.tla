------------------------------ MODULE Firmware ------------------------------
(***************************************************************************)
(* The host tools around firmware files: decrypt-block.c, which decrypts   *)
(* what it reads in pieces, dissect_fw.c, which cuts a file into parts,    *)
(* and pack-fir.c, which puts one together.                                *)
(***************************************************************************)
EXTENDS Integers, Sequences, SequencesExt, FiniteSets

CONSTANTS
  Word,           (* unsigned int is modulo this: 2^32                     *)
  Size1, Size2,   (* of CRYPT1 and CRYPT2: 512 and 513                     *)
  Multiplier,     (* 0xFF803FE1                                            *)
  ByteSize        (* the values of a byte: 256                             *)

FirmwareAssumption ==
  /\ {Word, Size1, Size2, Multiplier, ByteSize} \subseteq Nat \ {0}
  /\ Size2 = Size1 + 1
  /\ Multiplier * Size2 - Word * Size1 \in 0..Size1 - 1

-----------------------------------------------------------------------------
(* A byte is a set of things xor-ed together.                              *)
Xor(a, b) == (a \ b) \cup (b \ a)

CRYPT1(i) == {<<"CRYPT1", i>>}
CRYPT2(i) == {<<"CRYPT2", i>>}

(* The upper half of the product with the multiplier, as highbits >> 9 and *)
(* highbits & ~0x1ff, stands for the division by 513.                      *)
getoffsets(base) ==
  LET highbits == (base * Multiplier) \div Word
  IN << base % Size1, (base - (highbits \div Size1 + (highbits - (highbits % Size1)))) % Word >>

Around(offset, size) == IF offset + 1 >= size THEN 0 ELSE offset + 1

decrypt_from(buf, offsets) ==
  FoldLeft(LAMBDA st, b : [out |-> Append(st.out, Xor(b, Xor(CRYPT1(st.o1), Xor(CRYPT2(st.o2), {<<"0x37", 0>>})))),
                           o1  |-> Around(st.o1, Size1), o2 |-> Around(st.o2, Size2)],
           [out |-> <<>>, o1 |-> offsets[1], o2 |-> offsets[2]], buf).out

decrypt_block(buf, base) == decrypt_from(buf, getoffsets(base))

(* main of decrypt-block: whatever read returns is decrypted on its own.   *)
decrypt_reads(reads, base) ==
  FoldLeft(LAMBDA st, buf : [out    |-> st.out \o decrypt_block(buf, st.offset),
                             offset |-> (st.offset + Len(buf)) % Word],
           [out |-> <<>>, offset |-> base], reads).out

(* However the input arrives, the output is that of one block; decrypting  *)
(* it again gives the input; and the offsets are the remainders.           *)
ReadsDontMatter(reads, base) ==
  LET whole == FlattenSeq(reads)
  IN base + Len(whole) <= Word =>
       /\ decrypt_reads(reads, base) = decrypt_block(whole, base)
       /\ decrypt_block(decrypt_reads(reads, base), base) = whole
       /\ getoffsets(base) = <<base % Size1, base % Size2>>

-----------------------------------------------------------------------------
(* dissect_fw: header, flasher, head and body of the data.  Its getoffsets *)
(* keeps 8 bits for CRYPT1, where that of decrypt-block keeps 9.           *)
DissectOffsets(base) == << base % (Size1 \div 2), getoffsets(base)[2] >>

dissect(data, hdr_size, data_offset, head_size, data_len) ==
  << SubSeq(data, 1, hdr_size),
     decrypt_from(SubSeq(data, hdr_size + 1, data_offset), DissectOffsets(data_len)),
     SubSeq(data, data_offset + 1, data_offset + head_size),
     SubSeq(data, data_offset + head_size + 1, Len(data)) >>

(* Nothing is lost, and only the flasher is changed.                       *)
PartsAreWhole(data, hdr_size, data_offset, head_size, data_len) ==
  LET parts == dissect(data, hdr_size, data_offset, head_size, data_len)
  IN hdr_size <= data_offset /\ data_offset + head_size <= Len(data) =>
       parts[1] \o decrypt_from(parts[2], DissectOffsets(data_len)) \o parts[3] \o parts[4] = data

-----------------------------------------------------------------------------
(* pack-fir.  A file that is missing is "missing", another its bytes.      *)

MainHead == 48     (* sizes of s_main_head, s_pack_head and s_file_rec     *)
PackHead == 24
FileRec  == 40

Sum(bytes) == FoldLeft(LAMBDA t, b : t + b, 0, bytes)

(* f_cksum of a word: the sum of its bytes.                                *)
WordSum(w) == Sum([i \in 1..4 |-> (w \div ByteSize ^ (i - 1)) % ByteSize])
RecSum(rec) == WordSum(rec.offset) + WordSum(rec.length) + rec.name
CK(x) == (-1 - x) % ByteSize ^ 4

(* f_add: an empty file does not count either.                             *)
Added(files) == SelectSeq(files, LAMBDA f : f # "missing" /\ f # <<>>)
Bytes(f) == IF f = "missing" THEN <<>> ELSE f

packOffset(n) == n * FileRec + PackHead

(* The records, one after the other.  Names are their checksums.           *)
Records(files) ==
  [j \in DOMAIN Added(files) |->
     [offset |-> packOffset(Len(Added(files))) + Sum([k \in 1..j - 1 |-> Len(Added(files)[k])]),
      length |-> Len(Added(files)[j]), name |-> j]]

pack(loader, files) ==
  LET rec    == Records(files)
      packed == FlattenSeq(Added(files))
      recs   == Sum([j \in DOMAIN rec |-> RecSum(rec[j])])
      fields == WordSum(Len(rec)) + WordSum(PackHead) + WordSum(packOffset(Len(rec)))
                + WordSum(Len(rec) * FileRec) + WordSum(Len(packed))
      pcksum == CK(Sum(packed) + recs + fields)
      second == MainHead + Len(Bytes(loader))
      head   == WordSum(MainHead) + WordSum(second)
  IN [secondOffset |-> second, loader |-> Bytes(loader), rec |-> rec, packed |-> packed,
      packOffset |-> packOffset(Len(rec)), pcksum |-> pcksum,
      cksum |-> CK(Sum(Bytes(loader)) + Sum(packed) + head + fields + WordSum(pcksum) + recs)]

(* The bytes of the whole file that belong to the pack and follow the table*)
(* are numbered from the pack's head: what a record says is found there.   *)
PackReads(loader, files) ==
  LET p     == pack(loader, files)
      at(o) == p.packed[o - (PackHead + Len(p.rec) * FileRec) + 1]
  IN /\ p.secondOffset = MainHead + Len(p.loader)
     /\ Len(p.rec) = Len(Added(files))
     /\ \A j \in DOMAIN p.rec :
          Added(files)[j] = [k \in 1..p.rec[j].length |-> at(p.rec[j].offset + k - 1)]
     /\ \A i, j \in DOMAIN p.rec : i < j => p.rec[i].offset + p.rec[i].length <= p.rec[j].offset
=============================================================================
