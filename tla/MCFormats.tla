------------------------------ MODULE MCFormats -----------------------------
(***************************************************************************)
(* Formats for TLC.                                                        *)
(***************************************************************************)
EXTENDS Formats

Put(k) == [type |-> keyTypeVal, key |-> k]
Del(k) == [type |-> keyTypeDel, key |-> k]

\* Four to nine cells.
SmallBatches == {<<Del(<<1>>)>>, <<Put(<<1>>)>>, <<Put(<<1>>), Del(<<>>)>>}

\* Eight to twelve cells.
SmallEdits ==
    {[added |-> <<1>>, deleted |-> <<>>], [added |-> <<2>>, deleted |-> <<1>>]}

\* Four places of a small table, so that different bytes meet.
SmallHash(u) == (u[1] + 3 * u[2] + 5 * u[3] + 7 * u[4]) % 4

\* n bytes without a repetition, and a unit n times over
Ramp(n) == [i \in 1 .. n |-> (i * 7) % 251]
Rep(unit, n) == FlattenSeq([i \in 1 .. n |-> unit])

SmallBlocks ==
    {Rep(<<9>>, n) : n \in {0, 1, 16, 17, 18, 31, 66, 68, 83, 84, 98, 150}}
    \cup {Ramp(k) \o Rep(u, n) \o Ramp(m) :
             k \in {1, 62}, n \in {3, 12, 34}, u \in {<<9>>, <<9, 8>>, <<7, 14, 8>>},
             m \in {0, 3, 18}}
    \cup {Ramp(290), Ramp(251) \o Ramp(30), Ramp(400)}

\* Letters, escapes, characters of two, three and four bytes, and bytes that
\* belong to no character.
Units ==
    {<<97>>, <<34>>, <<92>>, <<10>>, <<9>>, <<13>>, <<1>>, <<60>>, <<47>>, <<117>>,
     <<195, 169>>, <<226, 128, 168>>, <<240, 159, 152, 128>>, <<239, 191, 189>>,
     <<195>>, <<128>>, <<255>>, <<237, 160, 128>>}

SmallStrings == {<<>>} \cup Units \cup {u \o v : u \in Units, v \in Units}

TwoRemarks == {<<97, 34, 226, 128, 169>>, <<240, 159>>}

SomeLists == {<<110, 97>>, <<110, 117, 108, 108>>, <<97, 44, 98>>, <<34, 97, 34>>, <<>>}

=============================================================================
