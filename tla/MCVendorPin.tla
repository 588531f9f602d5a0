----------------------------- MODULE MCVendorPin -----------------------------
(***************************************************************************)
(* One repository that must stay as it is, one that nothing looks at and   *)
(* one with two patches, of which the second adds files.  The first pull   *)
(* changes a patch and no pin, the second the pins and no patch.           *)
(***************************************************************************)
EXTENDS VendorPin

CONSTANTS core, shell, ostris, switch, surface, surface2

MCOrder == <<core, shell, ostris>>
MCPatched == <<ostris>>
MCFile == [p \in {switch, surface, surface2} |->
             IF p = switch THEN "switch" ELSE "surface"]
MCPin == <<[r \in Repo |-> 1], [r \in Repo |-> 1], [r \in Repo |-> 2]>>
MCPatches ==
  [n \in 1 .. 3 |->
    [r \in Repo |-> IF r # ostris THEN <<>>
                    ELSE IF n = 1 THEN <<switch, surface>>
                    ELSE <<switch, surface2>>]]
=============================================================================
