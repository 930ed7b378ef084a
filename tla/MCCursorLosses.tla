--------------------------- MODULE MCCursorLosses ---------------------------
(* The instances of MCLazyStorage for TLC, with their cursors watched.      *)
EXTENDS MCLazyStorage, CursorLosses
=============================================================================
