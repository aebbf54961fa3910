-------------------------------- MODULE MCVmm -------------------------------
EXTENDS Vmm

(* A page of its own, the page after it too, a range of three, and one that leaves
   the first table. *)
MCRanges == {<<0, 0>>, <<1, 4>>, <<5, 12>>, <<14, 20>>}
=============================================================================
