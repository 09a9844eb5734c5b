----------------------------- MODULE MCDflGuid -----------------------------
(***************************************************************************)
(* Two-byte GUIDs over texts of up to four characters: two distinct hex   *)
(* digits, a non-digit and white space.  That covers a full text and      *)
(* every way of being one, two or three characters short.                *)
(***************************************************************************)
EXTENDS DflGuid

MC_Chars == {"0", "f", "g", " "}

====
