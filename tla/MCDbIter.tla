------------------------------ MODULE MCDbIter ------------------------------
EXTENDS DbIter

Put(k) == [key |-> k, type |-> keyTypeVal]
Del(k) == [key |-> k, type |-> keyTypeDel]

A == <<1>>
AB == <<1, 2>>
B == <<2>>
D == <<3>>

Keys4 == {A, AB, B, D}

SomeHistories ==
    {<<Put(AB), Put(D), Put(A), Del(AB), Put(D), Put(AB)>>,
     <<Put(A), Put(AB), Del(D), Put(B), Del(A), Put(D)>>}

SomeLayouts == {<<0, 0, 0, 0>>, <<6, 6, 6, 6>>, <<2, 3, 4, 5>>, <<0, 4, 4, 4>>}

SomeSlices ==
    {[start |-> <<>>, limit |-> <<>>],
     [start |-> <<>>, limit |-> <<B>>], [start |-> <<AB>>, limit |-> <<D>>]}

SomeCuts == {AB, D}

SomeWrites == {Del(AB)}

\* A hash of eight bits that tells some keys apart and not others.
ByteHash(k) == (37 * k[1] + 90 * Len(k)) % 256

=============================================================================
