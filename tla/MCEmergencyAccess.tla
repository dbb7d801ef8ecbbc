------------------------- MODULE MCEmergencyAccess -------------------------
(***************************************************************************)
(* Instances of EmergencyAccess for TLC.                                    *)
(***************************************************************************)
EXTENDS EmergencyAccess

\* Only the overlap of an approval with a decline is let in.
DeclineOverPromote == Apart \ {{"promote", "decline"}}
=============================================================================
