-------------------------------- MODULE MCCrc --------------------------------
(* Polynomials and remainders of four bits for TLC.                            *)
EXTENDS Crc

WidePolys == {{0, 1}, {0, 3}, {1, 2}}
WideRemainders == {{}, {0, 1, 2, 3}}
WideFinals == {{}, {0, 1, 2, 3}}

=============================================================================
