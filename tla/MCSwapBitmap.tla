---------------------------- MODULE MCSwapBitmap ----------------------------
(***************************************************************************)
(* Bitmaps of every size from none to seven bits in words of three: sizes  *)
(* that fill their last word and sizes that do not.                        *)
(***************************************************************************)
EXTENDS SwapBitmap
=============================================================================
