------------------------- MODULE MCConfidentialToken ------------------------
(* The confidential token and its pool with model values for the owners.      *)
EXTENDS ConfidentialToken
=============================================================================
