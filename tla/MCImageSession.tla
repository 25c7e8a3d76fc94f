--------------------------- MODULE MCImageSession ---------------------------
(* Small instances of ImageSession.                                        *)
EXTENDS ImageSession, TLC

AnyRequest == Permutations(Requests)

(* Four requests, or three of which some hand the image to a machine.      *)
Few ==
    (\E r \in Requests : kind'[r] = "boot")
        => (\E r \in Requests : kind'[r] = "none")

SpecSerial == Init /\ [][Next /\ Few]_vars

=============================================================================
