------------------------------ MODULE BitBuffer ------------------------------
(***************************************************************************)
(* The bit cursor under every codec (sw/core/src/bitbuffer.c).  A buffer   *)
(* is a function from byte indices to bytes; a field is written and read   *)
(* MSB first, in a head fragment up to the next byte boundary, whole       *)
(* bytes, and a tail fragment, as the code does it.  Values are kept below *)
(* 2^31: a 32-bit field is handled as two of 16 bits.  `start' is always 0 *)
(* in this program and is left out.  An assert that fails sets `aborted'.  *)
(***************************************************************************)
EXTENDS Naturals, Sequences, FiniteSetsExt, SequencesExt

Bit == {0, 1}

(* MSB-first bits of a value, and the value of bits.                       *)
ToBits(v, n) == [i \in 1 .. n |-> (v \div 2^(n - i)) % 2]
ToNat(bits) == FoldLeft(LAMBDA a, b : 2 * a + b, 0, bits)

(* The first n bits of a buffer, as the air sees them.                     *)
BitsOf(buffer, n) ==
  [i \in 1 .. n |-> (buffer[(i - 1) \div 8] \div 2^(7 - ((i - 1) % 8))) % 2]

(* A buffer of len bytes that begins with the given bits; the rest is 0.   *)
BytesOf(bits, len) ==
  [k \in 0 .. len - 1 |->
     ToNat([j \in 1 .. 8 |-> IF 8 * k + j <= Len(bits) THEN bits[8 * k + j] ELSE 0])]

Chunk(at, shift, take) == [at |-> at, shift |-> shift, take |-> take]

(* How n bits at pos are cut: take bits of byte at, shift from its low end. *)
Chunks(pos, n) ==
  LET lead == pos % 8
      take == IF lead = 0 THEN 0 ELSE Min({8 - lead, n})
      first == (pos + take) \div 8
      whole == (n - take) \div 8
      rest == (n - take) % 8
  IN  (IF take = 0 THEN <<>> ELSE <<Chunk(pos \div 8, 8 - lead - take, take)>>)
        \o [i \in 1 .. whole |-> Chunk(first + i - 1, 0, 8)]
        \o (IF rest = 0 THEN <<>> ELSE <<Chunk(first + whole, 8 - rest, rest)>>)

(* The bits of a byte that a chunk covers.                                 *)
Field(byte, c) == (byte \div 2^c.shift) % 2^c.take

bb_read_at(buffer, pos, n) ==
  FoldLeft(LAMBDA v, c : v * 2^c.take + Field(buffer[c.at], c), 0, Chunks(pos, n))

(* Mutant: the bits that were there are not cleared.                       *)
PatchByteOr(old, c, bits) ==
  old - Field(old, c) * 2^c.shift + Max({bits, Field(old, c)}) * 2^c.shift

(* One byte with the bits of a chunk replaced and its neighbours kept.     *)
PatchByte(old, c, bits) ==
  old - Field(old, c) * 2^c.shift + bits * 2^c.shift

bb_write_at(buffer, pos, v, n) ==
  FoldLeft(LAMBDA w, c :
             [left |-> w.left - c.take,
              buffer |-> [w.buffer EXCEPT ![c.at] =
                            PatchByte(@, c, (v \div 2^(w.left - c.take)) % 2^c.take)]],
           [left |-> n, buffer |-> buffer], Chunks(pos, n)).buffer

Cursor(buffer, cap, end, autoexpand) ==
  [buffer |-> buffer, cap_bits |-> cap, pos |-> 0, end |-> end,
   autoexpand |-> autoexpand, aborted |-> FALSE]

bb_init(buffer, len) == Cursor(buffer, len, len, FALSE)
bb_init_autoexpand(buffer, cap) == Cursor(buffer, cap, 0, TRUE)
bb_remaining(bb) == bb.end - bb.pos

bb_put_bits(bb, v, n) ==
  LET need == bb.pos + n
      fits == need <= (IF bb.autoexpand THEN bb.cap_bits ELSE bb.end)
  IN  IF bb.aborted \/ v >= 2^n \/ ~fits
      THEN [bb EXCEPT !.aborted = TRUE]
      ELSE [bb EXCEPT !.buffer = bb_write_at(@, bb.pos, v, n),
                      !.pos = need,
                      !.end = Max({@, need})]

(* The value, and the cursor behind it: an underrun yields 0 and leaves    *)
(* the cursor where it was.                                                *)
bb_get_bits(bb, n) ==
  IF bb.pos + n > bb.end
  THEN [bb |-> bb, v |-> 0]
  ELSE [bb |-> [bb EXCEPT !.pos = @ + n], v |-> bb_read_at(bb.buffer, bb.pos, n)]
=============================================================================
