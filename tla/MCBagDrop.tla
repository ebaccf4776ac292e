----------------------------- MODULE MCBagDrop -----------------------------
\* Two buckets, the second built from the first; the first holds up to two
\* versions in the forms that differ for the mirror, the second nothing.
EXTENDS BagDrop

Parent == "parent"
Child == "child"
MCBuckets == {Parent, Child}
MCAssociated == {Child}
MCAncestry == {<<Parent, Child>>}

Holds(versions, first, second, sboms, revoked, pointer) ==
    [versions |-> versions, builds |-> <<first, second>>, sboms |-> <<sboms, {}>>,
     revoked |-> revoked, pointer |-> pointer]

\* A version with an SBOM and no channel; and that version built anew from
\* another component and revoked, with a second one on the channel.
MCContents ==
    [b \in MCBuckets |->
       IF b = Child THEN {Holds({}, {}, {}, {}, {}, NoChannel)}
       ELSE {Holds({1}, {"disk"}, {}, {"disk"}, {}, NoChannel),
             Holds({1, 2}, {"image"}, {"image"}, {}, {1}, 2)}]
=============================================================================
