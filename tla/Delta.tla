-------------------------------- MODULE Delta --------------------------------
(***************************************************************************)
(* The difference of two files (rustsync.rs and the frames of sync.rs): the *)
(* signature of the old file, a window rolled over the new one that finds   *)
(* blocks of the old, the frames that carry the result, and how a frame     *)
(* changes the output it is applied to.  A file is a sequence of bytes; two *)
(* blocks have one checksum and digest exactly when they are equal.         *)
(***************************************************************************)
EXTENDS Naturals, Sequences, SequencesExt

CONSTANTS
  Window,   \* length of the blocks of a signature
  Chunk,    \* most bytes of one literal, and of one read of a whole file
  Block     \* block of the filesystem, in bytes

ASSUME DeltaAssumption == {Window, Chunk, Block} \subseteq Nat \ {0}

Least(a, b) == IF a < b THEN a ELSE b
Slice(s, from, n) == SubSeq(s, from + 1, Least(from + n, Len(s)))

(* signature: where each block of s starts, the last one if several are     *)
(* equal.  The last block is short, and empty if s ends with a whole one.   *)
Signature(s) ==
  LET at(i) == Slice(s, i * Window, Window)
      starts == 0..(Len(s) \div Window)
  IN [b \in {at(i) : i \in starts} |->
        Window * CHOOSE i \in starts : at(i) = b /\ \A j \in starts : at(j) = b => j <= i]

CopyOf(offset, n) == [op |-> "copy", offset |-> offset, len |-> n, bytes |-> <<>>]
BytesOf(b) == [op |-> "bytes", offset |-> 0, len |-> 0, bytes |-> b]

Room(r, p) == Least(Window, Len(r) - p)
Pending(r, p, k) == IF k = 0 THEN <<>> ELSE <<BytesOf(Slice(r, p - k, k))>>

(* compare_stream: at w = <<p, n, k>> the window starts at p and holds n    *)
(* bytes; the k bytes before it match nothing and are pending.  At the end  *)
(* of the file the window shrinks until it is empty.                        *)
Places(r) == {w \in (0..Len(r)) \X (0..Window) \X (0..Chunk) :
                w[3] <= w[1] /\ w[1] + w[2] <= Len(r)}
Scan(sig, r) ==
  LET scan[w \in Places(r)] ==
        LET p == w[1]
            n == w[2]
            k == w[3]
            b == Slice(r, p, n)
            rest == IF p + n < Len(r) THEN n ELSE n - 1
        IN IF b \in DOMAIN sig
           THEN Pending(r, p, k) \o <<CopyOf(sig[b], Window)>>
                \o (IF n = 0 THEN <<>> ELSE scan[<<p + n, Room(r, p + n), 0>>])
           ELSE IF n = 0 THEN Pending(r, p, k)
           ELSE IF k + 1 >= Chunk
                THEN Pending(r, p + 1, k + 1) \o scan[<<p + 1, rest, 0>>]
                ELSE scan[<<p + 1, rest, k + 1>>]
  IN scan
Compare(sig, r) == Scan(sig, r)[<<0, Room(r, 0), 0>>]

(* Mutant: the length a copy already has is forgotten.                      *)
ContinuesFirst(f, g) == f.op = "copy" /\ g.op = "copy" /\ f.offset + g.len = g.offset

Continues(f, g) == f.op = "copy" /\ g.op = "copy" /\ f.offset + f.len = g.offset

(* stream_diff_frames: copies that continue one another travel as one.      *)
Join(fs, f) ==
  IF fs # <<>> /\ Continues(Last(fs), f)
  THEN Append(Front(fs), CopyOf(Last(fs).offset, Last(fs).len + f.len))
  ELSE Append(fs, f)
Joined(fs) ==
  LET joined[n \in 0..Len(fs)] == IF n = 0 THEN <<>> ELSE Join(joined[n - 1], fs[n])
  IN joined[Len(fs)]
Frames(sig, r) == Joined(Compare(sig, r))

-----------------------------------------------------------------------------
(* An output: the file, how far it is made, the bytes the verifier has      *)
(* seen, and the blocks it has of its own (a clone starts with none).       *)

Touched(from, n) == IF n = 0 THEN {} ELSE (from \div Block)..((from + n - 1) \div Block)

Fresh == [data |-> <<>>, pos |-> 0, seen |-> <<>>, owned |-> {}, clone |-> FALSE]
CloneOf(s) == [Fresh EXCEPT !.data = s, !.clone = TRUE]

(* apply_diff_bytes, and the write of a FileBytes frame *)
Write(o, b) ==
  [o EXCEPT !.data = Slice(o.data, 0, o.pos) \o b
                     \o SubSeq(o.data, o.pos + Len(b) + 1, Len(o.data)),
            !.pos = @ + Len(b),
            !.seen = @ \o b,
            !.owned = @ \cup Touched(o.pos, Len(b))]

InPlace(o, f) == f.op = "copy" /\ o.clone /\ f.offset = o.pos

(* apply_diff_copy, copy_and_hash, hash_file_range: a copy that a clone     *)
(* already has in place is only read; a copy ends with its source.          *)
Apply(o, f, source) ==
  IF InPlace(o, f)
  THEN LET b == Slice(o.data, f.offset, f.len)
       IN [o EXCEPT !.pos = @ + Len(b), !.seen = @ \o b]
  ELSE Write(o, IF f.op = "copy" THEN Slice(source, f.offset, f.len) ELSE f.bytes)

(* DiffEnd *)
Truncate(o) == [o EXCEPT !.data = Slice(@, 0, o.pos)]
=============================================================================
