--------------------------- MODULE MCAddressEngine ---------------------------
(* Four addresses, up to three groups in an array that starts with room for  *)
(* two, one name, no lines and no files: functions of two addresses overlap,  *)
(* touch, coincide and wrap.                                                  *)
EXTENDS AddressEngine

CONSTANTS main

MCNames == {main}
MCLens  == {2}
=============================================================================
