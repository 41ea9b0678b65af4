------------------------------- MODULE MCPage --------------------------------
(***************************************************************************)
(* An instance of Page for TLC.                                            *)
(***************************************************************************)
EXTENDS Page

\* A wide box first, and a narrow one.
MCWidths == <<70, 30, 50>>
=============================================================================
