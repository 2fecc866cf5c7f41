------------------------------ MODULE MCUpload ------------------------------
(* Uploads with the numbers of the code: a file name of seven letters and  *)
(* the boundary httplib makes.                                             *)
EXTENDS Upload

(* Sizes around what moves the boundary (it begins at PartHead + size + 4) *)
(* over the end of the first read, 1024, and of the second: one read, the  *)
(* last that fits in one, split with at most 24 bytes before, with one and *)
(* with many more, at the start of a read and just after.                  *)
MCSizes ==
    {0, 500} \cup
    {1024 * k - 160 + d : k \in {1, 2}, d \in {-46, -45, -44, -25, -24, -1, 0, 1, 2, 3, 4}}
=============================================================================
