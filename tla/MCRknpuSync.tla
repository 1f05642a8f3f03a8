---------------------------- MODULE MCRknpuSync ----------------------------
(* Scatterlists of up to three entries of up to three bytes, one behind    *)
(* the other or with a gap of one byte before each, in words of 10 and 16. *)
EXTENDS RknpuSync

Lengths == UNION {[1 .. n -> 1 .. 3] : n \in 1 .. 3}

Place(lengths, gap) ==
    LET start[k \in 1 .. Len(lengths)] ==
            IF k = 1 THEN 0 ELSE start[k - 1] + lengths[k - 1]
    IN  [k \in 1 .. Len(lengths) |->
            [length |-> lengths[k], addr |-> 4 + start[k] + (k - 1) * gap, start |-> start[k]]]

SmallArgs == 0 .. 12

SmallTables == {Place(lengths, gap) : lengths \in Lengths, gap \in {0, 1}}
=============================================================================
