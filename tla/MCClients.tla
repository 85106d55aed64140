------------------------------ MODULE MCClients ------------------------------
(* Two threads that share three indexes, with keys of three bits.          *)
EXTENDS Benchmark

MCThread == {0, 1}
MCKey == 0 .. 5
MCHashAp(x, s) == (x * 7 + s * 5) % 16
MCMurmurHash3(key) == [j \in 0 .. 3 |-> (key * (2 * j + 3) + 5 * j) % 16]
MCPredef == [i \in 0 .. 2 |-> 3 + 2 * i]
MCDraw(seed, i) == (seed * 3 + i) % 16

Keys(r, diff) == [keys |-> r .. r + diff - 1, data |-> BloomGenerate({}, r, diff)]
MCChoice(insert, remove, inserts) ==
    [insert |-> Keys(insert[1], insert[2]), query |-> Keys(2, 2), remove |-> Keys(remove, 1),
     inserts |-> inserts]

MCChoices ==
    {MCChoice(<<2, 2>>, 2, FALSE), MCChoice(<<1, 2>>, 2, FALSE), MCChoice(<<3, 1>>, 3, FALSE),
     MCChoice(<<2, 1>>, 2, TRUE)}
=============================================================================
