--------------------------- MODULE MessageStream ---------------------------
(***************************************************************************)
(* What a connection promises to the program at its other end: messages    *)
(* arrive whole, in the order in which they were sent and none twice.      *)
(* Messages may be lost on the way, but only between other messages.       *)
(***************************************************************************)
EXTENDS Integers, Sequences, SequencesExt

VARIABLES
    line,   \* the messages that are on their way
    got     \* the messages that arrived

Init == line = <<>> /\ got = <<>>

\* New messages are sent.
Send(old, new) ==
    /\ IsStrictPrefix(old, new)
    /\ IsInjective(got \o new)
    /\ UNCHANGED got

\* Messages are lost; the others keep their order: each of them was somewhere among
\* the old ones, behind the one before it.
Lose(old, new) ==
    /\ Len(new) < Len(old)
    /\ \E at \in [DOMAIN new -> DOMAIN old] :
          /\ \A i \in DOMAIN new : new[i] = old[at[i]]
          /\ \A i, j \in DOMAIN new : i < j => at[i] < at[j]
    /\ UNCHANGED got

\* The first n messages arrive.
Arrive(old, new) ==
    LET n == Len(old) - Len(new)
    IN  /\ n > 0
        /\ new = SubSeq(old, n + 1, Len(old))
        /\ got' = got \o SubSeq(old, 1, n)

Next == \E old \in {line}, new \in {line'} : Send(old, new) \/ Lose(old, new) \/ Arrive(old, new)

Spec == Init /\ [][Next]_<<line, got>>
=============================================================================
