----------------------------- MODULE MCUploads -----------------------------
(* Files that differ in what the code looks at.  Sizes: 1 fits any package,  *)
(* 2 the larger one, 3 only the default.                                     *)
EXTENDS Uploads, TLC

Image == [mime |-> "image", decodes |-> TRUE, header |-> {}, trailer |-> FALSE,
          size |-> 1, pages |-> 1, metadata |-> 0,
          warns |-> FALSE, code |-> 0]
Pdf == [mime |-> "pdf", decodes |-> FALSE, header |-> {0}, trailer |-> TRUE,
        size |-> 1, pages |-> 8, metadata |-> 0,
        warns |-> FALSE, code |-> 0]

AllFiles ==
  {Image, [Image EXCEPT !.size = 3], [Image EXCEPT !.decodes = FALSE],
   [Image EXCEPT !.mime = "other"], Pdf, [Pdf EXCEPT !.pages = 12],
   [Pdf EXCEPT !.pages = 20, !.size = 2], [Pdf EXCEPT !.warns = TRUE],
   [Pdf EXCEPT !.warns = TRUE, !.code = 1], [Pdf EXCEPT !.size = 3],
   [Pdf EXCEPT !.header = {0, 7}], [Pdf EXCEPT !.trailer = FALSE],
   [Pdf EXCEPT !.pages = 0], [Pdf EXCEPT !.pages = 1, !.metadata = 9]}

Small == [image |-> NoLimit, pdf |-> 1]
Large == [image |-> 2, pdf |-> 2]
TwoPackages == {Small, Large}
Default == [image |-> 3, pdf |-> 3]

AllFaults == {"early", "expire", "storage", "crash"}
=============================================================================
