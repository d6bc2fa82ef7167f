----------------------------- MODULE MCConvert -----------------------------
(* The conversions of integers alone, at small widths. *)
EXTENDS Convert

MCSpec == ConvertInit /\ [][ConvertNext]_probe
=============================================================================
