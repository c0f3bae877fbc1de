--------------------------- MODULE MCNativeWriter ----------------------------
(* NativeWriter for TLC: the instances of the .cfg files differ only in      *)
(* their constants.                                                          *)
EXTENDS NativeWriter
==============================================================================
