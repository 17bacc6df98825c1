------------------------------- MODULE Chunks --------------------------------
(***************************************************************************)
(* The two loops of cache_entry_read that cut a range out of the chunk     *)
(* list of an entry: caching/httpcache.c.  They run under entry->lock, so  *)
(* that the list does not change under them; module HttpCache reads the    *)
(* same range from the bytes of the list as one sequence, with Slice.      *)
(***************************************************************************)
EXTENDS Proxy

CONSTANT MaxChunks  \* bound: chunks of a list

ASSUME ChunksAssumption == MaxChunks \in Nat

\* The lists that cache_entry_append_chunk can have built from chunks of the
\* given sizes; a byte is its position in the response.
ChunksOf(sizes) ==
  [i \in DOMAIN sizes |->
    [k \in 1 .. sizes[i] |->
      FoldLeft(LAMBDA a, b : a + b, 0, SubSeq(sizes, 1, i - 1)) + k]]

\* recv hands over at least one byte.
ChunkLists == {ChunksOf(sizes) : sizes \in SeqOf(1 .. BUFFER_SIZE, MaxChunks)}

-----------------------------------------------------------------------------
\* The first loop: left[i] is chunk_offset when the loop comes to chunk i.  It
\* stops at the chunk that holds the byte at offset, or behind the last one.
SeekChunk(c, offset) ==
  LET left[i \in 1 .. Len(c) + 1] ==
        IF i = 1 THEN offset ELSE left[i - 1] - Len(c[i - 1])
      stop == Min({i \in 1 .. Len(c) + 1 : i <= Len(c) => left[i] < Len(c[i])})
  IN [chunk |-> stop, offset |-> left[stop]]

\* Fault: chunk_offset is not reset.
CopyChunks_keeps(c, from, size) ==
  LET copied[i \in 1 .. Len(c) + 1] ==
        IF i <= from.chunk THEN <<>>
        ELSE LET available == Len(c[i - 1]) - from.offset
                 rest == size - Len(copied[i - 1])
                 to_read == IF rest < available THEN rest ELSE available
             IN copied[i - 1] \o
                  SubSeq(c[i - 1], from.offset + 1, from.offset + to_read)
  IN copied[Len(c) + 1]

\* The second loop, from there on: copied[i] is what it has read before chunk
\* i.  With size bytes read the loop ends, that is, nothing more is copied.
CopyChunks(c, from, size) ==
  LET copied[i \in 1 .. Len(c) + 1] ==
        IF i <= from.chunk THEN <<>>
        ELSE LET chunk_offset == IF i - 1 = from.chunk THEN from.offset ELSE 0
                 available == Len(c[i - 1]) - chunk_offset
                 rest == size - Len(copied[i - 1])
                 to_read == IF rest < available THEN rest ELSE available
             IN copied[i - 1] \o
                  SubSeq(c[i - 1], chunk_offset + 1, chunk_offset + to_read)
  IN copied[Len(c) + 1]

-----------------------------------------------------------------------------
\* Wherever the chunk boundaries fall, a reader's next cache_entry_read gets
\* the bytes that follow the ones it has sent, none of them lost or repeated at
\* a boundary, and nothing at the very end.
ReadWalksChunks ==
  \A t \in Thread : At(t, "read") =>
    \A c \in ChunkLists :
      CopyChunks(c, SeekChunk(c, Len(sent[t])), BUFFER_SIZE)
        = Slice(FlattenSeq(c), Len(sent[t]), BUFFER_SIZE)
=============================================================================
