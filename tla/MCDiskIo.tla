------------------------------ MODULE MCDiskIo ------------------------------
(***************************************************************************)
(* DiskIo for TLC: every torrent of up to three small files for the marks  *)
(* and the first states, a few that have what is difficult for the rest.   *)
(***************************************************************************)
EXTENDS DiskIo

MCProgram == <<"w">>
MCSealed == {<<"s", "d">>}

Sizes == {0, 1, 2, 5}

\* A file that ends inside a block; an empty file between two; a block that ends with
\* the second of its files, with a third and with a fourth file behind it; a torrent
\* beyond the width of the offset.
MCExplored ==
    {<<3, 2>>, <<2, 0, 1>>, <<1, 1, 2>>, <<1, 1, 1, 1>>, <<9>>}
MCLayouts ==
    MCExplored \cup
    {s \in UNION {[1..n -> Sizes] : n \in 1..3} : \E k \in DOMAIN s : s[k] > 0}
=============================================================================
