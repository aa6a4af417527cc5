---------------------------- MODULE MCBrowserSession ----------------------------
(* A page, two connections and three acts of the user. *)
EXTENDS BrowserSession
=============================================================================
