----------------------------- MODULE MCDflAttr -----------------------------
(***************************************************************************)
(* Attribute texts over digits of every base ("0" leads octal, "8" is no  *)
(* octal digit, "a" no decimal one), the hex prefix letter, and the two   *)
(* white-space characters sysfs and callers produce.  Written values need *)
(* one and two hex digits, one of them with a letter.                     *)
(***************************************************************************)
EXTENDS DflAttr

MC_Chars == {"0", "7", "8", "a", "x", " ", "\n"}
MC_Values == {10, 255}

====
