------------------------------ MODULE MCDflPci ------------------------------
(***************************************************************************)
(* PCI addresses at both ends of each field's range, and every function.  *)
(* The VMD variant adds a domain above 0xffff, as Intel VMD assigns them. *)
(***************************************************************************)
EXTENDS DflPci

MC_Segments == {0, 1, 65535}
MC_Segments_VMD == {0, 65536}
MC_Buses == {0, 59, 255}
MC_Devices == {0, 31}
MC_Functions == 0..7

====
