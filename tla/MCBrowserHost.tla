---------------------------- MODULE MCBrowserHost ----------------------------
(***************************************************************************)
(* BrowserHost for TLC, which also evaluates what BrowserIndexCheck assumes *)
(* of the index that the host hands out.                                    *)
(***************************************************************************)
EXTENDS BrowserHost, BrowserIndexCheck
==============================================================================
