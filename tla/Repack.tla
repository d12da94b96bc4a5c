------------------------------- MODULE Repack -------------------------------
(***************************************************************************)
(* tools/model/repack_q4b.py: the tool that rewrites an .sp-model file     *)
(* with 4-bit block-scaled weights.  Two parts: q4b_pack, the arithmetic   *)
(* of one row, and main, which lays the tensors out behind a table that    *)
(* the loader searches by the hash of the name.                            *)
(*                                                                         *)
(* A tensor is a name, a dtype and a size in bytes.  Hash is the xxh64 of  *)
(* a name: any injection, in no order that the file's own order follows.   *)
(* Offsets are from the start of the data section, which is where main     *)
(* counts them from.                                                       *)
(***************************************************************************)
EXTENDS Integers, Sequences, FiniteSets, SequencesExt

CONSTANTS
    Weight,         \* the Q8 weights of the source, each with its .scale sibling
    TiedHead,       \* the one of them that is the tied head (KEEP_Q8)
    Align,          \* ALIGN: payloads start at a multiple of this
    Rows,           \* rows of a weight
    MaxAbs,         \* the values of a row are -MaxAbs..MaxAbs
    Block,          \* columns per scale (32)
    Cols,           \* columns of a weight
    Grid            \* what the f16 scale is a multiple of, in sevenths of a unit

VARIABLES
    ents,           \* the source's table, in file order
    todo,           \* what is still to be emitted
    data,           \* the output's payloads: [name, from, size]
    end,            \* fo.tell(), from the start of the data section
    out,            \* out_ents, as emitted
    file,           \* what is on disk: the header, and the table's entries
    vals            \* a row of weights

rkvars == <<ents, todo, data, end, out, file, vals>>

Scale(w) == <<w, "scale">>
BScale(w) == <<w, "bscale">>
Plain(w) == <<w, "data">>

-----------------------------------------------------------------------------
(* q4b_pack                                                                *)

Abs(x) == IF x < 0 THEN -x ELSE x
NBlk == (Cols + Block - 1) \div Block
InBlock(b) == {c \in 1..Cols : (c - 1) \div Block = b}
MaxIn(row, b) == CHOOSE m \in 0..MaxAbs :
    /\ \E c \in InBlock(b) : Abs(row[c]) = m
    /\ \A c \in InBlock(b) : Abs(row[c]) <= m

\* x / y to the nearest integer, halves to the even one (np.rint; y > 0)
Rint(x, y) ==
    LET q == x \div y
        r == x % y
    IN  IF 2 * r > y \/ (2 * r = y /\ q % 2 = 1) THEN q + 1 ELSE q

Clip(k) == IF k > 7 THEN 7 ELSE IF k < -7 THEN -7 ELSE k

\* Faulty: the scale as it was before the file rounded it.
ExactScale(row, b) == MaxIn(row, b)

\* The stored scale of a block, in sevenths: maxabs/7 through f16.
StoredScale(row, b) == Grid * Rint(MaxIn(row, b), Grid)

\* The scale the codes are taken against: the one that is stored.
CodeScale(row, b) == StoredScale(row, b)

Code(row, c) ==
    LET s == CodeScale(row, (c - 1) \div Block) IN
    IF s > 0 THEN Clip(Rint(7 * row[c], s)) ELSE 0

\* Two nibbles to a byte, each in two's complement, the even column low; a row of odd
\* length is padded with a zero nibble.
Nibble(row, c) == IF c > Cols THEN 0 ELSE Code(row, c) % 16
Packed(row) == [i \in 1..((Cols + 1) \div 2) |-> Nibble(row, 2*i - 1) + 16 * Nibble(row, 2*i)]

\* How the engine reads the value back, times seven: code * block scale.
Signed(n) == IF n > 7 THEN n - 16 ELSE n
Unpacked7(row, c) ==
    LET byte == Packed(row)[(c + 1) \div 2] IN
    Signed(IF c % 2 = 1 THEN byte % 16 ELSE byte \div 16) * StoredScale(row, (c - 1) \div Block)

-----------------------------------------------------------------------------
(* The source and the plan                                                 *)

Tensors == {Plain(w) : w \in Weight} \cup {Scale(w) : w \in Weight}

\* The Q8 weights that become Q4B, and the row scales that are superseded with them.
Conv == {Plain(w) : w \in Weight \ {TiedHead}}
Drop == {Scale(t[1]) : t \in Conv}

Written == (Tensors \ Drop) \cup {BScale(t[1]) : t \in Conv}

\* xxh64: some numbering of the names, zero being no name's.
Hash == CHOOSE h \in [Written -> 1..Cardinality(Written)] :
            \A s, t \in Written : h[s] = h[t] => s = t

\* The bytes of a payload of the output.
Bytes(t) ==
    CASE t[2] = "scale" -> 4 * Rows
      [] t[2] = "bscale" -> 2 * Rows * NBlk
      [] t \in Conv -> Rows * ((Cols + 1) \div 2)
      [] OTHER -> Rows * Cols

Zero == [name |-> "zero", off |-> 0, hash |-> 0]

\* The header and the table are zeros while the payloads are written.
RepackInit ==
    /\ ents \in SetToSeqs(Tensors)
    /\ vals = [c \in 1..Cols |-> 0]
    /\ todo = SelectSeq(ents, LAMBDA t : t \notin Drop)
    /\ data = {} /\ end = 0 /\ out = <<>>
    /\ file = [header |-> FALSE, table |-> <<>>]

\* emit, first half: zeros up to the next multiple of ALIGN.
AfterGap(pos) == pos + ((-pos) % Align)

\* One call of emit: the payload, and an entry that says where it is.
Emitted(t, before) ==
    LET off == AfterGap(before.end) IN
    [data |-> before.data \cup {[name |-> t, from |-> off, size |-> Bytes(t)]},
     end |-> off + Bytes(t),
     out |-> Append(before.out, [name |-> t, off |-> off, hash |-> Hash[t]])]

\* A tensor that is kept is copied through; one that is converted becomes its codes and,
\* behind them, its block scales.
EmitNext ==
    /\ todo # <<>>
    /\ LET t == Head(todo)
           one == Emitted(t, [data |-> data, end |-> end, out |-> out])
           all == IF t \in Conv THEN Emitted(BScale(t[1]), one) ELSE one
       IN  /\ data' = all.data /\ end' = all.end /\ out' = all.out
           /\ IF t \in Conv THEN vals' \in [1..Cols -> -MaxAbs..MaxAbs] ELSE vals' = vals
    /\ todo' = Tail(todo)
    /\ UNCHANGED <<ents, file>>

\* The header with its count, offsets, size and checksum is written before the table.
WriteHeader ==
    /\ todo = <<>> /\ ~file.header
    /\ file' = [header |-> TRUE, table |-> [i \in 1..Len(ents) |-> Zero]]
    /\ UNCHANGED <<ents, todo, data, end, out, vals>>

\* out_ents.sort(key=hash)
Table == SortSeq(out, LAMBDA x, y : x.hash < y.hash)

\* The entries are written one after another.
WriteEntry(i) ==
    /\ file.header /\ i <= Len(out)
    /\ file.table[i] = Zero /\ \A j \in 1..(i - 1) : file.table[j] # Zero
    /\ file' = [file EXCEPT !.table[i] = Table[i]]
    /\ UNCHANGED <<ents, todo, data, end, out, vals>>

RepackNext == EmitNext \/ WriteHeader \/ \E i \in 1..Len(ents) : WriteEntry(i)

RepackSpec == RepackInit /\ [][RepackNext]_rkvars

-----------------------------------------------------------------------------
\* The loader's search (sp_model_find_tensor): the index of the entry with the name's
\* hash between lo and hi, or 0.
FindIn(table, h) ==
    LET find[r \in (1..Len(table) + 1) \X (0..Len(table))] ==
            LET mid == (r[1] + r[2]) \div 2 IN
            IF r[1] > r[2] THEN 0
            ELSE IF table[mid].hash = h THEN mid
            ELSE IF table[mid].hash < h THEN find[<<mid + 1, r[2]>>]
            ELSE find[<<r[1], mid - 1>>]
    IN  find[<<1, Len(table)>>]

\* What the loader finds is right, and in a finished file it finds everything: the search
\* never leads to another tensor's bytes, in a file cut short at any entry of the table
\* either, and once the last entry is there it reaches every tensor, whatever the order
\* of the source's table.
Findable ==
    file.header =>
        \A t \in Written :
            LET i == FindIn(file.table, Hash[t]) IN
            /\ i # 0 => [name |-> t, from |-> file.table[i].off, size |-> Bytes(t)] \in data
            /\ (\A j \in DOMAIN file.table : file.table[j] # Zero) => i # 0

\* The payloads lie apart, each at a multiple of ALIGN.
Apart ==
    \A x, y \in data :
        /\ x.from % Align = 0 /\ x.from + x.size <= end
        /\ x # y => x.from + x.size <= y.from \/ y.from + y.size <= x.from

\* Four bits are enough for half a step: what the engine reads back from a packed row is
\* off by at most half the stored scale, and by no more than what the f16 rounding took
\* from the block's largest value where the code is clipped.
HalfAStep ==
    \A c \in 1..Cols :
        LET s == StoredScale(vals, (c - 1) \div Block)
            err == Abs(7 * vals[c] - Unpacked7(vals, c))
        IN  2 * err <= s \/ err <= 7 * (MaxIn(vals, (c - 1) \div Block) - s)
=============================================================================
