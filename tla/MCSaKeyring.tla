----------------------------- MODULE MCSaKeyring -----------------------------
(* The keyring on a schedule where keys of three generations overlap.      *)
EXTENDS SaKeyring
===============================================================================
