-------------------------------- MODULE Lists --------------------------------
(***************************************************************************)
(* Lists whose order matters: the stored snapshots, the idle connections.  *)
(***************************************************************************)
EXTENDS Integers, Sequences

\* What a deletion leaves of a list, in its order.
Without(s, gone) ==
    LET rest[n \in 0 .. Len(s)] ==
            IF n = 0 THEN <<>>
            ELSE IF s[n] \in gone THEN rest[n - 1] ELSE Append(rest[n - 1], s[n])
    IN  rest[Len(s)]

==============================================================================
