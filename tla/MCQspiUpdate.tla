---------------------------- MODULE MCQspiUpdate ----------------------------
(* A board and two images that are newer than the factory firmware.         *)
EXTENDS QspiUpdate

TwoImages == {<<38, 2, 0>>, <<38, 10, 1>>}
\* Below the floor, the floor, between the images, newer than both.
Boards    == {Encode(<<36, 4, 4>>), Encode(<<38, 0, 0>>), Encode(<<38, 2, 1>>), Encode(<<39, 0, 0>>),
              Encode(<<38, 10, 1>>)}
=============================================================================
