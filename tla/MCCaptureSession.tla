-------------------------- MODULE MCCaptureSession ---------------------------
(* CaptureSession for TLC: the instances of the .cfg files differ only in    *)
(* their constants.                                                          *)
EXTENDS CaptureSession
==============================================================================
