---------------------------- MODULE MCAppManager ----------------------------
(* Two applications, so that a pipeline has its two ends or two lines have *)
(* a program each; two lines, so that what one leaves behind meets the     *)
(* next; two calls, so that a call meets the end of the line.              *)
EXTENDS AppManager
=============================================================================
