------------------------------ MODULE Streebog ------------------------------
(***************************************************************************)
(* The GOST R 34.11-2012 hash that certsig verifies signatures with        *)
(* (gost34112012): New, Write, Sum, Reset, MarshalBinary and               *)
(* UnmarshalBinary of one Hash.  The compression function g is a free term: *)
(* a chaining value is the initial value and the list of what g was applied *)
(* to, so two digests are equal exactly when g ran on the same inputs in    *)
(* the same order.  Everything around g is computed: the buffer, the bit    *)
(* counter, the checksum with its carries and the padding.                  *)
(***************************************************************************)
EXTENDS Integers, Sequences, SequencesExt

CONSTANTS BlockSize,     \* bytes in a block (64)
          ByteBits,      \* bits in a byte (8)
          Written,       \* byte values that are written
          MaxChunk,      \* bound: bytes of one Write
          MaxMessage     \* bound: bytes between two Resets

Byte == 2^ByteBits

VARIABLES hash,          \* the Hash
          since,         \* the bytes written since New or Reset
          saved          \* the last result of MarshalBinary, and its bytes

hashVars == <<hash, since, saved>>

Zeroes == [i \in 1..BlockSize |-> 0]

Hash(size) ==
  [size |-> size, n |-> 0, buf |-> <<>>, chk |-> Zeroes, hsh |-> [iv |-> size, g |-> <<>>]]

g(n, hsh, data) == [hsh EXCEPT !.g = Append(@, [n |-> n, data |-> data])]

\* A number as a block, least significant byte first (PutUint64).
LittleEndian(k) == [i \in 1..BlockSize |-> (k \div Byte^(i - 1)) % Byte]

\* Mutant: the carry of one byte is not added to the next.
add512bitNoCarry(chk, data) == [i \in 1..BlockSize |-> (chk[i] + data[i]) % Byte]

\* Byte by byte with a carry; the carry out of the block is dropped.
add512bit(chk, data) ==
  LET ss[i \in 0..BlockSize] ==
        IF i = 0 THEN 0 ELSE chk[i] + data[i] + (ss[i - 1] \div Byte)
  IN  [i \in 1..BlockSize |-> ss[i] % Byte]

\* One turn of the loop in Write.
Compress(h) ==
  LET tmp == SubSeq(h.buf, 1, BlockSize)
  IN  [h EXCEPT !.hsh = g(h.n, @, tmp),
                !.chk = add512bit(@, tmp),
                !.n = @ + BlockSize * ByteBits,
                !.buf = SubSeq(@, BlockSize + 1, Len(@))]

\* Write appends and compresses as long as there is a block.
Absorb(h, data) ==
  LET turns == (Len(h.buf) + Len(data)) \div BlockSize
      after[i \in 0..turns] ==
        IF i = 0 THEN [h EXCEPT !.buf = @ \o data] ELSE Compress(after[i - 1])
  IN  after[turns]

\* Sum: the rest of the buffer and a 1, then the length, then the checksum.
Sum(h) ==
  LET buf == [i \in 1..BlockSize |->
                CASE i <= Len(h.buf) -> h.buf[i]
                  [] i = Len(h.buf) + 1 -> 1
                  [] OTHER -> 0]
      tmp == LittleEndian(h.n + Len(h.buf) * ByteBits)
      hsh == g(0, g(0, g(h.n, h.hsh, buf), tmp), add512bit(h.chk, buf))
  IN  [value |-> hsh, half |-> h.size = 32]

-----------------------------------------------------------------------------
(* MarshalBinary and UnmarshalBinary *)

MarshalBinary(h) ==
  [name |-> TRUE, short |-> FALSE, size |-> h.size, n |-> h.n, hsh |-> h.hsh, chk |-> h.chk,
   buf |-> h.buf]

\* Ways in which a saved state can be no state at all.
Damages == {"none", "short", "name", "size", "buffer"}

Damage(data, how) ==
  CASE how = "none"   -> data
    [] how = "short"  -> [data EXCEPT !.short = TRUE]
    [] how = "name"   -> [data EXCEPT !.name = FALSE]
    [] how = "size"   -> [data EXCEPT !.size = 48]
    [] how = "buffer" -> [data EXCEPT !.buf = Zeroes]

Restorable(data) ==
  ~data.short /\ data.name /\ Len(data.buf) < BlockSize /\ data.size \in {32, 64}

UnmarshalBinary(h, data) ==
  IF ~Restorable(data) THEN h
  ELSE [size |-> data.size, n |-> data.n, hsh |-> data.hsh, chk |-> data.chk, buf |-> data.buf]

-----------------------------------------------------------------------------
(* The owner of the Hash *)

NothingSaved == [data |-> MarshalBinary(Hash(64)), bytes |-> <<>>]

New(size) ==
  /\ hash = Hash(size)
  /\ since = <<>>
  /\ saved = NothingSaved

HashInit == \E size \in {32, 64} : New(size)

Write(data) ==
  /\ Len(since) + Len(data) <= MaxMessage
  /\ hash' = Absorb(hash, data)
  /\ since' = since \o data
  /\ UNCHANGED saved

\* Mutant: Reset keeps the buffer.
ResetKeepsBuffer ==
  /\ hash' = [Hash(hash.size) EXCEPT !.buf = hash.buf]
  /\ since' = <<>>
  /\ UNCHANGED saved

Reset ==
  /\ hash' = Hash(hash.size)
  /\ since' = <<>>
  /\ UNCHANGED saved

Save ==
  /\ saved' = [data |-> MarshalBinary(hash), bytes |-> since]
  /\ UNCHANGED <<hash, since>>

Restore(how) ==
  /\ hash' = UnmarshalBinary(hash, Damage(saved.data, how))
  /\ since' = IF how = "none" THEN saved.bytes ELSE since
  /\ UNCHANGED saved

HashNext ==
  \/ \E data \in BoundedSeq(Written, MaxChunk) : Write(data)
  \/ Reset
  \/ Save
  \/ \E how \in Damages : Restore(how)

HashSpec == HashInit /\ [][HashNext]_hashVars

-----------------------------------------------------------------------------
(* What RFC 6986 makes of a whole message *)

Number(block) == SumFunction([i \in DOMAIN block |-> block[i] * Byte^(i - 1)])

Blocks(message) == Len(message) \div BlockSize

Block(message, i) == SubSeq(message, (i - 1) * BlockSize + 1, i * BlockSize)

Padded(message) ==
  SubSeq(message, Blocks(message) * BlockSize + 1, Len(message)) \o <<1>> \o
    [i \in 1..(BlockSize - 1 - (Len(message) % BlockSize)) |-> 0]

Checksum(message) ==
  (Number(Padded(message)) + SumFunction([i \in 1..Blocks(message) |-> Number(Block(message, i))]))
    % Byte^BlockSize

Reference(size, message) ==
  LET input(n, data) == [n |-> n, data |-> data]
      full == [i \in 1..Blocks(message) |->
                 input((i - 1) * BlockSize * ByteBits, Block(message, i))]
      last == <<input(Blocks(message) * BlockSize * ByteBits, Padded(message)),
                input(0, LittleEndian(Len(message) * ByteBits)),
                input(0, LittleEndian(Checksum(message)))>>
  IN  [value |-> [iv |-> size, g |-> full \o last], half |-> size = 32]

\* The digest is that of the bytes written since the last Reset, all of them
\* and nothing else, however they were cut into Writes and whichever states
\* were saved and restored in between; a saved state that is refused changes
\* nothing.
StreamedIsWhole == Sum(hash) = Reference(hash.size, since)
=============================================================================
