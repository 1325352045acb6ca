---------------------------- MODULE OutputBuffer ----------------------------
(***************************************************************************)
(* The output buffer of the programs in tools/ that write rows: a String   *)
(* that is written to the file when an item could fill it.  A buffer is a  *)
(* record of what the file has received (written), of what is still held   *)
(* (held) and of the room the String has, the byte that ends it included   *)
(* (size); append() of the library makes room for what does not fit.       *)
(***************************************************************************)
EXTENDS Integers, Sequences

CONSTANTS
  Bytes,        \* what is written
  BufferSize    \* output_buffer->size once it is extended, one or more

Buffer == [written : Seq(Bytes), held : Seq(Bytes), size : Nat \ {0}]

EmptyBuffer == [written |-> <<>>, held |-> <<>>, size |-> BufferSize]

\* append() and append_cstr(), which extend() a String that is too small
AppendTo(buffer, bytes) ==
  LET needed == Len(buffer.held) + Len(bytes) + 1
  IN  [written |-> buffer.written,
       held    |-> buffer.held \o bytes,
       size    |-> IF needed > buffer.size THEN needed ELSE buffer.size]

\* write_output_file()
Write(buffer) ==
  [written |-> buffer.written \o buffer.held, held |-> <<>>, size |-> buffer.size]

\* Mutant: no room is left for the separator and the end of the String.
NearlyFullAtEnd(buffer, item) == Len(buffer.held) + Len(item) >= buffer.size

NearlyFull(buffer, item) == Len(buffer.held) + Len(item) + 2 >= buffer.size

\* Room is looked for an item, and not for the tail put behind it.
PutItem(buffer, item, tail) ==
  AppendTo(IF NearlyFull(buffer, item) THEN Write(buffer) ELSE buffer,
           item \o tail)

\* PutItem as a function, whose argument TLC evaluates once.
Put[p \in Buffer \X Seq(Bytes) \X Seq(Bytes)] == PutItem(p[1], p[2], p[3])

\* One piece, an item with its tail, after the other.
PutAll(buffer, pieces) ==
  LET upTo[n \in 0..Len(pieces)] ==
        IF n = 0 THEN buffer
        ELSE Put[<<upTo[n - 1], pieces[n][1], pieces[n][2]>>]
  IN  upTo[Len(pieces)]
=============================================================================
